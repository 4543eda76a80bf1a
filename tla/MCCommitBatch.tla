---------------------------- MODULE MCCommitBatch ----------------------------
(* Instances of CommitBatch for TLC.                                       *)
EXTENDS CommitBatch, SequencesExt

Refresh(c, width, v) == [kind |-> "refresh", column |-> c, exactness |-> width, value |-> v, exact |-> 1]
Retyped(c) == [kind |-> "retyped", column |-> c]
Write == [kind |-> "write"]
Rows == [kind |-> "rows"]
Ddl == [kind |-> "ddl", table |-> 1]
Deletes == [kind |-> "deletes", table |-> 1]
Drop(n) == [kind |-> "drop", name |-> n]
UserRows == [kind |-> "unknown"]
Read == [kind |-> "read"]

Columns == {<<1, 1>>, <<1, 2>>, <<2, 1>>}

\* A batch writes into the deletion table after the statement that creates it.
Creates(i) == \A n \in DOMAIN i : i[n] = Deletes => \E m \in 1 .. n - 1 : i[m] = Ddl

\* Statistics: refreshes of two tables, of both widths, a value too long, and
\* other writes of the same rows in between.
StatsStatements ==
    {Refresh(<<1, 1>>, TRUE, 1), Refresh(<<1, 1>>, TRUE, 2), Refresh(<<1, 2>>, TRUE, 3),
     Refresh(<<1, 2>>, FALSE, 2), Refresh(<<2, 1>>, TRUE, 2), Retyped(<<1, 1>>), UserRows}
StatsInputs == BoundedSeq(StatsStatements, 4)

\* Runs: rows, the deletion table, drops, writes, and what only the base takes.
RunStatements == {Write, Rows, Ddl, Deletes, Drop(1), Drop(2), UserRows, Refresh(<<1, 1>>, TRUE, 2)}
RunInputs == {i \in BoundedSeq(RunStatements, 5) : Creates(i)}

\* What comes through Query.
WriteInputs == BoundedSeq({Write, Drop(1), Drop(2), UserRows, Read}, 5)

AllInputs == StatsInputs \cup RunInputs \cup WriteInputs
=============================================================================
