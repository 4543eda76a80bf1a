--------------------------- MODULE MCInlinedTables ---------------------------
(* Instances of InlinedTables for TLC.                                     *)
EXTENDS InlinedTables, TLC
CONSTANTS w1, w2, w3, w4, w5

Creates == [kind |-> "create"]
Inserts(t) == [kind |-> "insert", table |-> t]

\* Two new lake tables, two commits to one that exists, and one to another.
Mixed == w1 :> Creates @@ w2 :> Creates @@ w3 :> Inserts(1) @@ w4 :> Inserts(1) @@ w5 :> Inserts(2)
\* Commits that may need an inlined table of one name do not overlap.
OneName == {p \in Writer \X Writer : Work[p[1]] = Work[p[2]]}
\* Any two commits may overlap.
Nobody == {}
==============================================================================
