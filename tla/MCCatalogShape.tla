--------------------------- MODULE MCCatalogShape ---------------------------
(* CatalogShape with the catalogs a node may find, and what the attaches ask for. *)
EXTENDS CatalogShape

CONSTANTS n1, n2, n3

\* What an attach asks for: nothing, or lengths of names and of statistics.
Ask(name, stats) == [name |-> name, stats |-> stats]
AskNothing == [n \in Node |-> NoLimits]
AllAsk == [n \in Node |-> Ask(2, 1)]
OneAsks == [n \in Node |-> IF n = n1 THEN Ask(2, NOT_GIVEN) ELSE NoLimits]

\* A catalog that a release at format 1.0 created and shaped, with strings of any length.
V10 == [version |-> "1.0", columns |-> FALSE, name |-> MAX, stats |-> MAX, keyed |-> TRUE,
        shape |-> "old", limits |-> NoLimits, marker |-> FALSE]
\* One that a stock manager created at 1.1-dev1.
Dev1 == [New EXCEPT !.version = "1.1-dev1", !.columns = FALSE]

NoCatalog == {Nothing}
Release == {V10}
NewOrRelease == {Nothing, V10}
Old == {V10, Dev1}
=============================================================================
