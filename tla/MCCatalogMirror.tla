-------------------------- MODULE MCCatalogMirror --------------------------
(* CatalogMirror on small sets of rows, inlined data tables and loads. *)
EXTENDS CatalogMirror, TLC

\* Every child belongs to one row: a macro with its implementation.
MCParent == [c \in Child |-> CHOOSE r \in Row : TRUE]

ReaderSymmetry == Permutations(Reader)
=============================================================================
