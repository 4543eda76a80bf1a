-------------------------- MODULE MCCatalogAssembly --------------------------
(* CatalogAssembly with commits that touch a struct, what is under it, and the first column added; *)
(* a key has one field, or two that are not in the order of their columns.                          *)
EXTENDS CatalogAssembly

MCColumns == {2, 5}
MCFields == {<<1>>, <<5, 1>>}
=============================================================================
