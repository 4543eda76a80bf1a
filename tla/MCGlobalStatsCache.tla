------------------------- MODULE MCGlobalStatsCache -------------------------
(* GlobalStatsCache on small sets of tables and transactions. *)
EXTENDS GlobalStatsCache, TLC

Symmetry == Permutations(Table) \cup Permutations(Reader)
=============================================================================
