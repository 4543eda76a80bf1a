----------------------------- MODULE SerialLake -----------------------------
(***************************************************************************)
(* What committing to a lake promises: transactions take effect one after  *)
(* another, each at one point, each numbered from the state the one before *)
(* left - its snapshot, the ids of its files, the row ids of its rows and  *)
(* the totals of its tables.  Nothing here says how.                       *)
(***************************************************************************)
EXTENDS Integers, Sequences

CONSTANTS Table,  \* tables of the lake
          Work    \* what a transaction may add: sequences of files, [table, records]

VARIABLES snapshot,  \* the last snapshot
          nextFile,  \* next_file_id
          totals,    \* totals[t]: record_count and next_row_id of t
          files,     \* the data files
          gone       \* dropped tables

vars == <<snapshot, nextFile, totals, files, gone>>

\* How many rows the first i files of work add to t.
RowsUpTo(work, t, i) ==
  LET sum[n \in 0..Len(work)] ==
        IF n = 0 THEN 0
        ELSE sum[n - 1] + (IF work[n].table = t THEN work[n].records ELSE 0)
  IN  sum[i]

TablesOf(work) == {work[i].table : i \in DOMAIN work}

\* The files of work at snapshot s: file ids from firstFile on in staging order, row ids from each
\* table's next one, file after file.
Placed(work, s, firstFile, nextRow) ==
  {[id |-> firstFile + i - 1, table |-> work[i].table, begin |-> s, records |-> work[i].records,
    row |-> nextRow[work[i].table] + RowsUpTo(work, work[i].table, i - 1)] : i \in DOMAIN work}

Init == /\ snapshot = 0 /\ nextFile = 0 /\ files = {} /\ gone = {}
        /\ totals = [t \in Table |-> [records |-> 0, nextRow |-> 0]]

Insert(work) ==
  /\ TablesOf(work) \cap gone = {}
  /\ snapshot' = snapshot + 1
  /\ nextFile' = nextFile + Len(work)
  /\ files' = files \cup Placed(work, snapshot + 1, nextFile, [t \in Table |-> totals[t].nextRow])
  /\ totals' = [t \in Table |-> [records |-> totals[t].records + RowsUpTo(work, t, Len(work)),
                                 nextRow |-> totals[t].nextRow + RowsUpTo(work, t, Len(work))]]
  /\ UNCHANGED gone

DropTable(t) ==
  /\ t \notin gone
  /\ snapshot' = snapshot + 1
  /\ gone' = gone \cup {t}
  /\ UNCHANGED <<nextFile, totals, files>>

Next == (\E work \in Work : Insert(work)) \/ (\E t \in Table : DropTable(t))

Spec == Init /\ [][Next]_vars

\* No two files share a row id of one table, and every row id handed out is below the next one.
RowIdsDisjoint ==
  \A f \in files :
    /\ f.row + f.records <= totals[f.table].nextRow
    /\ \A g \in files : f.table = g.table /\ f # g =>
         f.row + f.records <= g.row \/ g.row + g.records <= f.row

\* A file id is never handed out twice.
FileIdsUnique == \A f \in files : f.id < nextFile /\ \A g \in files : f.id = g.id => f = g
=============================================================================
