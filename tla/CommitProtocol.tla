--------------------------- MODULE CommitProtocol ---------------------------
(***************************************************************************)
(* Concurrent commits to one lake, by writers in any process.  Each runs   *)
(* FlushChangesServerSide (src/src/mssql_server_commit.cpp): a commit of   *)
(* enough data files and nothing else is applied on the server under the   *)
(* lock of the last snapshot, any other goes through DuckLake's client     *)
(* loop, which commits optimistically against the primary key of           *)
(* ducklake_snapshot and asks the conflict check                           *)
(* (src/src/mssql_metadata_queries.cpp) before it tries again.             *)
(*                                                                         *)
(* A metadata transaction's writes become visible when it commits; under   *)
(* READ COMMITTED each read sees what is committed at its own time, so the *)
(* reads of a snapshot and of each table's stats are steps of their own.   *)
(***************************************************************************)
EXTENDS Integers, Sequences, FiniteSets

LOCAL INSTANCE FiniteSetsExt

CONSTANTS Table,      \* tables of the lake
          Writer,     \* transactions, each of which commits once
          Work,       \* what a transaction may add: sequences of files, [table, records]
          Armed,      \* the writers of nodes with MSSQL_DUCKLAKE_SERVER_COMMIT set
          Skipping,   \* those that skip the fetch of their snapshot besides
          MinFiles,   \* ServerCommitMinFiles()
          Deadlocks   \* bound: how many deadlocks happen

ASSUME WriterSets == IsFiniteSet(Writer) /\ Armed \subseteq Writer /\ Skipping \subseteq Armed
ASSUME WorkType == Work \subseteq Seq([table : Table, records : Nat])
ASSUME BoundTypes == MinFiles \in Nat /\ Deadlocks \in Nat

NoOne == "no one"
ASSUME NoOneIsNoWriter == NoOne \notin Writer

VARIABLES
  \* the metadata database
  snapshot,   \* the last row of ducklake_snapshot: [id, schema, nextFile]
  totals,     \* ducklake_table_stats: [records, nextRow] of each table
  files,      \* ducklake_data_file
  dropAt,     \* the snapshot that dropped a table, 0 if none did
  lock,       \* who holds UPDLOCK, HOLDLOCK on the last snapshot
  deadlocks,
  \* the writers
  tx

vars == <<snapshot, totals, files, dropAt, lock, deadlocks, tx>>
serverVars == <<snapshot, totals, files, dropAt, lock, deadlocks>>

\* The lake's files and how a commit numbers them.
Lake == INSTANCE SerialLake WITH snapshot <- snapshot.id, nextFile <- snapshot.nextFile,
                                 gone <- {t \in Table : dropAt[t] # 0}

Snapshot == [id : Nat, schema : Nat, nextFile : Nat]
Totals == [records : Nat, nextRow : Nat]
Phase == {"idle", "open", "stats", "batch", "check", "lock", "merge",
          "committed", "conflict", "lost", "failed"}
Part == {"snapshot", "changes", "totals"}

NoTotals == [t \in Table |-> [records |-> 0, nextRow |-> 0]]

TypeOK ==
  /\ snapshot \in Snapshot /\ totals \in [Table -> Totals]
  /\ files \subseteq [id : Nat, table : Table, begin : Nat, records : Nat, row : Nat]
  /\ dropAt \in [Table -> Nat]
  /\ lock \in Writer \cup {NoOne} /\ deadlocks \in 0..Deadlocks
  /\ \A w \in Writer : lock = w <=> tx[w].pc = "merge"
  /\ tx \in [Writer -> [pc : Phase, work : Work \cup {<<>>}, drop : SUBSET Table,
                        base : Snapshot, seen : Snapshot, met : BOOLEAN, asks : SUBSET Part,
                        stats : [Table -> Totals], todo : SUBSET Table]]

Init ==
  /\ snapshot = [id |-> 0, schema |-> 0, nextFile |-> 0]
  /\ totals = NoTotals /\ files = {} /\ dropAt = [t \in Table |-> 0]
  /\ lock = NoOne /\ deadlocks = 0
  /\ tx = [w \in Writer |-> [pc |-> "idle", work |-> <<>>, drop |-> {}, base |-> snapshot,
                             seen |-> snapshot, met |-> FALSE, asks |-> {},
                             stats |-> NoTotals, todo |-> {}]]

Step(w, record) == tx' = [tx EXCEPT ![w] = record]

Dropped == {t \in Table : dropAt[t] # 0}

-----------------------------------------------------------------------------
(* A transaction *)

\* It begins at the last snapshot, and adds files or drops a table that it sees there.
Begin(w) ==
  /\ tx[w].pc = "idle"
  /\ \/ \E work \in Work :
          /\ Lake!TablesOf(work) \cap Dropped = {}
          /\ Step(w, [tx[w] EXCEPT !.pc = "open", !.work = work, !.base = snapshot])
     \/ \E t \in Table \ Dropped :
          Step(w, [tx[w] EXCEPT !.pc = "open", !.drop = {t}, !.base = snapshot])
  /\ UNCHANGED serverVars

\* IsDataFilesOnlyCommit, as far as a transaction here can be anything else.
IsDataFilesOnlyCommit(q) == q.work # <<>> /\ q.drop = {}

\* FlushChangesServerSide chooses before anything is staged.  Without the snapshot there is no
\* falling back to the loop.
TakesApply(w) ==
  /\ w \in Armed
  /\ IsDataFilesOnlyCommit(tx[w])
  /\ Len(tx[w].work) >= MinFiles \/ w \in Skipping

FlushChangesServerSide(w) ==
  /\ tx[w].pc = "open"
  /\ IF TakesApply(w)
     THEN Step(w, [tx[w] EXCEPT !.pc = "lock"])
     ELSE Step(w, [tx[w] EXCEPT !.pc = "stats", !.seen = tx[w].base,
                                !.todo = Lake!TablesOf(tx[w].work)])
  /\ UNCHANGED serverVars

\* The stored totals of one table, as they are now.
Copied(q, t) == [q EXCEPT !.todo = q.todo \ {t}, !.stats = [q.stats EXCEPT ![t] = totals[t]]]

-----------------------------------------------------------------------------
(* DuckLake's client loop *)

\* The stats it merges into: GetGlobalTableStats, which answers at least at its snapshot.
ReadStats(w, t) ==
  /\ tx[w].pc = "stats"
  /\ t \in tx[w].todo
  /\ Step(w, Copied(tx[w], t))
  /\ UNCHANGED serverVars

StartBatch(w) ==
  /\ tx[w].pc = "stats"
  /\ tx[w].todo = {}
  /\ Step(w, [tx[w] EXCEPT !.pc = "batch"])
  /\ UNCHANGED serverVars

\* What a committed transaction leaves: the next snapshot, its files, its tables' totals.
Written(q, from, rows, stats) ==
  /\ snapshot' = [id |-> from.id + 1,
                  schema |-> from.schema + Cardinality(q.drop),
                  nextFile |-> from.nextFile + Len(q.work)]
  /\ files' = files \cup Lake!Placed(q.work, from.id + 1, from.nextFile, rows)
  /\ totals' = [t \in Table |->
       IF t \notin Lake!TablesOf(q.work) THEN totals[t]
       ELSE [records |-> stats[t].records + Lake!RowsUpTo(q.work, t, Len(q.work)),
             nextRow |-> stats[t].nextRow + Lake!RowsUpTo(q.work, t, Len(q.work))]]
  /\ dropAt' = [t \in Table |-> IF t \in q.drop THEN from.id + 1 ELSE dropAt[t]]

NextRows(stats) == [t \in Table |-> stats[t].nextRow]

\* Mutant: the totals it had are kept.
AskingNoTotals(q) == [q EXCEPT !.pc = "check", !.asks = Part, !.met = FALSE, !.todo = {}]

\* It asks the conflict check, and tries again with what that answers.
Asking(q) == [q EXCEPT !.pc = "check", !.asks = Part, !.met = FALSE,
                       !.todo = Lake!TablesOf(q.work)]

\* The batch inserts the snapshot after the one it was built on; the primary key of
\* ducklake_snapshot fails it if another transaction did.  It waits for the apply's lock.
CommitBatch(w) ==
  /\ tx[w].pc = "batch"
  /\ lock = NoOne
  /\ IF tx[w].seen.id = snapshot.id
     THEN /\ Written(tx[w], tx[w].seen, NextRows(tx[w].stats), tx[w].stats)
          /\ Step(w, [tx[w] EXCEPT !.pc = "committed"])
          /\ UNCHANGED <<lock, deadlocks>>
     ELSE /\ Step(w, Asking(tx[w]))
          /\ UNCHANGED serverVars

\* Mutant: the branches of the union the other way round.
TotalsFirst(part) ==
  CASE part = "totals" -> {} [] part = "snapshot" -> {"totals"} [] OTHER -> {"snapshot"}

\* The check is one statement.  SQL Server does not promise an order of its parts; this is the order
\* they are written in: the row of the last snapshot, the changes beside it, then the other branch
\* of the union, the totals.  CommitsSerially rests on it.
ReadBefore(part) ==
  CASE part = "snapshot" -> {} [] part = "changes" -> {"snapshot"} [] OTHER -> {"snapshot", "changes"}

Reads(w, part) ==
  /\ tx[w].pc = "check"
  /\ part \in tx[w].asks
  /\ ReadBefore(part) \cap tx[w].asks = {}

Answered(q, part) == [q EXCEPT !.asks = q.asks \ {part}]

CheckSnapshot(w) ==
  /\ Reads(w, "snapshot")
  /\ Step(w, [Answered(tx[w], "snapshot") EXCEPT !.seen = snapshot])
  /\ UNCHANGED serverVars

\* The changes since the transaction's snapshot: did another transaction drop what it writes?
ConflictsWithChanges(q) ==
  \E t \in Lake!TablesOf(q.work) \cup q.drop : dropAt[t] > q.base.id

CheckChanges(w) ==
  /\ Reads(w, "changes")
  /\ Step(w, [Answered(tx[w], "changes") EXCEPT !.met = ConflictsWithChanges(tx[w])])
  /\ UNCHANGED serverVars

CheckTotals(w) ==
  /\ Reads(w, "totals")
  /\ \/ tx[w].todo = {} /\ Step(w, Answered(tx[w], "totals"))
     \/ \E t \in tx[w].todo : Step(w, Copied(tx[w], t))
  /\ UNCHANGED serverVars

\* CheckForConflicts, on the whole answer.
CheckForConflicts(w) ==
  /\ tx[w].pc = "check"
  /\ tx[w].asks = {}
  /\ Step(w, [tx[w] EXCEPT !.pc = IF tx[w].met THEN "conflict" ELSE "batch"])
  /\ UNCHANGED serverVars

\* Mutant: the check runs at NORMAL.
SamePriority(pc) == 1

\* DEADLOCK_PRIORITY: HIGH for the check, NORMAL for the batch and the apply.
Priority(pc) == IF pc = "check" THEN 2 ELSE 1

\* Error 1205 is retryable when the batch meets it, not when the check or the apply does.
Retryable(pc) == pc = "batch"

\* Its transaction is rolled back whole: it wrote nothing, and holds no lock.
Unlocked(w) == IF lock = w THEN NoOne ELSE lock

\* A writer, the batch or the apply, deadlocks with another writer or with a check.
Deadlock(w, other) ==
  /\ deadlocks < Deadlocks
  /\ w # other
  /\ {tx[w].pc, tx[other].pc} \subseteq {"batch", "check", "merge"}
  /\ {tx[w].pc, tx[other].pc} # {"check"}
  /\ Priority(tx[w].pc) <= Priority(tx[other].pc)
  /\ Step(w, IF Retryable(tx[w].pc) THEN Asking(tx[w]) ELSE [tx[w] EXCEPT !.pc = "lost"])
  /\ lock' = Unlocked(w)
  /\ deadlocks' = deadlocks + 1
  /\ UNCHANGED <<snapshot, totals, files, dropAt>>

\* Any other error that the batch or the apply meets is thrown, and nothing tries again.
Fails(w) ==
  /\ tx[w].pc \in {"batch", "merge"}
  /\ Step(w, [tx[w] EXCEPT !.pc = "failed"])
  /\ lock' = Unlocked(w)
  /\ UNCHANGED <<snapshot, totals, files, dropAt, deadlocks>>

-----------------------------------------------------------------------------
(* The apply on the server *)

\* Mutant: the last snapshot is read without its lock.
LocksNothing(w) == lock

\* UPDLOCK, HOLDLOCK on the last snapshot, held to the end of the transaction.
Locks(w) == w

\* ClientMergedStatsSql: the lock first, and the snapshot it yields.
LockCatalog(w) ==
  /\ tx[w].pc = "lock"
  /\ lock = NoOne
  /\ lock' = Locks(w)
  /\ Step(w, [tx[w] EXCEPT !.pc = "merge", !.seen = snapshot,
                           !.todo = Lake!TablesOf(tx[w].work)])
  /\ UNCHANGED <<snapshot, totals, files, dropAt, deadlocks>>

\* ... then the stored totals of each table it writes.
MergeStats(w, t) ==
  /\ tx[w].pc = "merge"
  /\ t \in tx[w].todo
  /\ Step(w, Copied(tx[w], t))
  /\ UNCHANGED serverVars

\* Did the schema move under the transaction, as far as it knows where it began?
SchemaMoved(w) == w \notin Skipping /\ tx[w].base.schema # snapshot.schema

\* Mutant: the transaction is left open.
StillLocked(w) == w

\* The end of the transaction releases the lock.
LockAfter(w) == NoOne

\* CommitBatchSql: file ids from the last snapshot, row ids from the stored next_row_id; the merged
\* totals follow, and the transaction commits.
Apply(w) ==
  /\ tx[w].pc = "merge"
  /\ tx[w].todo = {}
  /\ IF SchemaMoved(w)
     THEN /\ Step(w, [tx[w] EXCEPT !.pc = "conflict"])
          /\ UNCHANGED <<snapshot, totals, files, dropAt>>
     ELSE /\ Written(tx[w], snapshot, NextRows(totals), tx[w].stats)
          /\ Step(w, [tx[w] EXCEPT !.pc = "committed"])
  /\ lock' = LockAfter(w)
  /\ UNCHANGED deadlocks

-----------------------------------------------------------------------------

Ended(w) == tx[w].pc \in {"committed", "conflict", "lost", "failed"}

\* Every transaction that began ended.
Done == (\A w \in Writer : tx[w].pc # "idle" => Ended(w)) /\ UNCHANGED vars

Advance(w) ==
  \/ FlushChangesServerSide(w) \/ StartBatch(w) \/ CommitBatch(w)
  \/ CheckSnapshot(w) \/ CheckChanges(w) \/ CheckTotals(w) \/ CheckForConflicts(w)
  \/ LockCatalog(w) \/ Apply(w)
  \/ \E t \in Table : ReadStats(w, t) \/ MergeStats(w, t)

Next ==
  \/ \E w \in Writer : Begin(w) \/ Advance(w) \/ Fails(w) \/ \E other \in Writer : Deadlock(w, other)
  \/ Done

Spec == Init /\ [][Next]_vars

\* A transaction that committing has begun goes on: its thread runs, the server answers, and grants
\* a lock that is free.
FairSpec == Spec /\ \A w \in Writer : WF_vars(Advance(w))

-----------------------------------------------------------------------------
(* Properties *)

\* Whatever path each takes, however their reads and writes interleave, the transactions that
\* commit are serial: every one is numbered from exactly what the one before it left, and writes no
\* table that is gone.
CommitsSerially == Lake!Spec

\* What a reader of the lake relies on (specs/015 R5): the rows of one table have ids of their own,
\* all below the stored next_row_id, and so have the files, whichever path handed them out.
IdsUnique == Lake!RowIdsDisjoint /\ Lake!FileIdsUnique

\* The client loop loses no writer to the others (src/src/mssql_metadata_queries.cpp:129): no deadlock
\* fails one, and one that gives up met another's drop of the very table it writes.  An apply
\* promises less: it may lose a deadlock, and it gives up whenever the schema has moved.
LoopLosesNoWriter ==
  \A w \in Writer :
    /\ tx[w].pc = "lost" => TakesApply(w)
    /\ tx[w].pc = "conflict" =>
         \E t \in IF TakesApply(w) THEN Table ELSE Lake!TablesOf(tx[w].work) \cup tx[w].drop :
           dropAt[t] > tx[w].base.id

\* Every transaction that starts to commit ends: it commits, finds a conflict, or throws.
EveryCommitEnds == \A w \in Writer : (tx[w].pc = "open") ~> Ended(w)

\* The check "is evaluated against a single consistent state, so no part of it can disagree with any
\* other part" (src/src/mssql_metadata_queries.cpp:109): its totals are those at its snapshot.
CheckIsOneState ==
  \A w \in Writer : tx[w].pc = "check" /\ tx[w].asks = {} =>
    \A t \in Lake!TablesOf(tx[w].work) :
      tx[w].stats[t].records =
        MapThenSumSet(LAMBDA f : f.records,
                      {f \in files : f.table = t /\ f.begin <= tx[w].seen.id})
=============================================================================
