-------------------------- MODULE GlobalStatsCache --------------------------
(***************************************************************************)
(* The cache of DuckLake's global table stats, GetGlobalTableStats of      *)
(* src/src/mssql_metadata_queries.cpp: one entry per ATTACH, shared by its *)
(* transactions.  A load copies the entry under its lock, reads on the     *)
(* server which tables changed since (row by row of the changes, then the  *)
(* stats of each table, with commits in between) and publishes what it     *)
(* read if the entry did not move meanwhile.                               *)
(*                                                                         *)
(* The stats of a table are the snapshot that last changed them: all that  *)
(* the properties tell apart is how old they are, whether they are there   *)
(* and whether they were ever committed.                                   *)
(***************************************************************************)
EXTENDS Integers, FiniteSets

CONSTANTS Table,      \* tables of the lake
          Reader,     \* transactions of one attached catalog that ask for the stats
          MaxRereads, \* STATS_CACHE_MAX_REREADS
          MaxSnap,    \* bound: the last snapshot a node commits
          Upsets      \* bound: how many expiries and evictions there are

ASSUME TablesFinite == IsFiniteSet(Table)
ASSUME StatsBoundsNat == /\ MaxRereads \in Nat /\ MaxSnap \in Nat
                         /\ Upsets \in Nat

Absent == 0        \* no stats row: nothing was inserted yet, or the row was cleaned up
Uncommitted == -1  \* the stats a transaction wrote and may still roll back

Stats == Nat \cup {Absent, Uncommitted}

VARIABLES
  \* the server
  latest,      \* the last committed snapshot
  ids,         \* the snapshot ids in ducklake_snapshot_changes
  touched,     \* touched[t]: the snapshots that changed t or its stats
  dropAt,      \* the snapshot that dropped t, 0 if none did
  unreadable,  \* snapshots whose changes this build cannot parse
  stats,       \* the committed stats row of t
  wrote,       \* wrote[p]: the tables whose stats p's transaction has written
  expired, evicted,
  \* the entry, under its lock
  loaded, asOf, tables,
  \* the loads in flight
  rd

serverVars == <<latest, ids, touched, dropAt, unreadable, stats, expired>>
entryVars == <<loaded, asOf, tables, evicted>>
vars == <<serverVars, wrote, entryVars, rd>>

NoStats == [t \in Table |-> Absent]

\* A load: what it copied (loaded, base, stats), what it learned, and the entry it belongs to.
Load == [pc : {"idle", "changes", "latest", "stats", "publish"},
         began : Nat, current : BOOLEAN,
         loaded : BOOLEAN, base : Nat, last : Nat,
         reread : SUBSET Table, dropped : SUBSET Table,
         todo : SUBSET Table, stats : [Table -> Stats]]

Idle == [pc |-> "idle", began |-> 0, current |-> TRUE,
         loaded |-> FALSE, base |-> 0, last |-> 0,
         reread |-> {}, dropped |-> {}, todo |-> {}, stats |-> NoStats]

TypeOK ==
  /\ latest \in Nat /\ ids \subseteq Nat
  /\ touched \in [Table -> SUBSET Nat] /\ dropAt \in [Table -> Nat]
  /\ unreadable \subseteq Nat
  /\ stats \in [Table -> Nat]
  /\ wrote \in [Reader -> SUBSET Table]
  /\ expired \in Nat /\ evicted \in Nat
  /\ loaded \in BOOLEAN /\ asOf \in Nat /\ tables \in [Table -> Stats]
  /\ rd \in [Reader -> Load]

Init ==
  /\ latest = 0 /\ ids = {0}
  /\ touched = [t \in Table |-> {}] /\ dropAt = [t \in Table |-> 0]
  /\ unreadable = {} /\ stats = NoStats
  /\ wrote = [p \in Reader |-> {}]
  /\ expired = 0 /\ evicted = 0
  /\ loaded = FALSE /\ asOf = 0 /\ tables = NoStats
  /\ rd = [p \in Reader |-> Idle]

-----------------------------------------------------------------------------
(* The server *)

\* A transaction of any node commits: its snapshot, its changes and the stats of the tables it
\* changed become visible together.  A newer node may write changes this build cannot parse.
Commit ==
  /\ latest < MaxSnap
  /\ latest' = latest + 1
  /\ ids' = ids \cup {latest + 1}
  /\ \E changed \in SUBSET {t \in Table : dropAt[t] = 0} :
       /\ touched' = [t \in Table |-> IF t \in changed THEN touched[t] \cup {latest + 1}
                                                       ELSE touched[t]]
       /\ stats' = [t \in Table |-> IF t \in changed THEN latest + 1 ELSE stats[t]]
       /\ \E gone \in SUBSET ({t \in Table : dropAt[t] = 0} \ changed) :
            dropAt' = [t \in Table |-> IF t \in gone THEN latest + 1 ELSE dropAt[t]]
  /\ \E odd \in SUBSET {latest + 1} : unreadable' = unreadable \cup odd
  /\ UNCHANGED <<wrote, expired, entryVars, rd>>

\* Expiry removes snapshots with their changes, never the latest, and may clean up the stats of
\* dropped tables.
Expire ==
  /\ expired + evicted < Upsets
  /\ expired' = expired + 1
  /\ \E gone \in SUBSET (ids \ {latest}) : gone # {} /\ ids' = ids \ gone
  /\ \E cleaned \in SUBSET {t \in Table : dropAt[t] # 0} :
       stats' = [t \in Table |-> IF t \in cleaned THEN Absent ELSE stats[t]]
  /\ UNCHANGED <<latest, touched, dropAt, unreadable, wrote, entryVars, rd>>

\* p's transaction writes stats that it has not committed (Execute, FlushChangesServerSide).
Write(p) ==
  /\ rd[p].pc = "idle"
  /\ wrote[p] = {}
  /\ \E written \in SUBSET Table : written # {} /\ wrote' = [wrote EXCEPT ![p] = written]
  /\ UNCHANGED <<serverVars, entryVars, rd>>

\* It rolls back, or what it wrote is in the last Commit: either way a new transaction begins.
EndTransaction(p) ==
  /\ rd[p].pc = "idle"
  /\ wrote[p] # {}
  /\ wrote' = [wrote EXCEPT ![p] = {}]
  /\ UNCHANGED <<serverVars, entryVars, rd>>

\* The object cache evicts the entry: the next load makes a new one, and the loads in flight keep
\* the old one to themselves.
Evict ==
  /\ expired + evicted < Upsets
  /\ evicted' = evicted + 1
  /\ loaded' = FALSE /\ asOf' = 0 /\ tables' = NoStats
  /\ rd' = [p \in Reader |-> [rd[p] EXCEPT !.current = (rd[p].pc = "idle")]]
  /\ UNCHANGED <<serverVars, wrote>>

-----------------------------------------------------------------------------
(* A load: GetGlobalTableStats *)

\* Mutant: a transaction that has written reads through the cache too.
ReadsPastNever(p) == FALSE

\* A transaction that has written reads past the cache and changes nothing in it.
ReadsPast(p) == wrote[p] # {}

\* The first section under the lock: the cached state, copied out.
Start(p) ==
  /\ rd[p].pc = "idle"
  /\ ~ReadsPast(p)
  /\ rd' = [rd EXCEPT ![p] =
              [Idle EXCEPT !.pc = IF loaded THEN "changes" ELSE "latest",
                           !.began = latest, !.loaded = loaded, !.base = asOf, !.last = asOf,
                           !.stats = IF loaded THEN tables ELSE NoStats]]
  /\ UNCHANGED <<serverVars, wrote, entryVars>>

\* The next row of the changes, in order of their ids.
IsNextChange(q, id) == /\ id \in ids /\ id > q.last
                       /\ \A other \in ids : other > q.last => id <= other

\* Mutant: the ids are not looked at.
FollowsAnything(q, id) == TRUE

\* A gap in the ids is expired changes.
Follows(q, id) == id = q.last + 1

Reads(id) == id \notin unreadable

\* What parsing them yields: the tables they insert into, delete from, alter, compact or flush, and
\* the tables they drop.
ChangedBy(id) == {t \in Table : id \in touched[t] /\ id \notin unreadable}
DroppedBy(id) == {t \in Table : id = dropAt[t] /\ id \notin unreadable}

\* One row of the changes: what it says of each table, or a reason to read everything.
ReadChange(p) ==
  /\ rd[p].pc = "changes"
  /\ \E id \in ids :
       /\ IsNextChange(rd[p], id)
       /\ IF Follows(rd[p], id) /\ Reads(id)
          THEN rd' = [rd EXCEPT ![p] = [rd[p] EXCEPT
                        !.last = id,
                        !.reread = rd[p].reread \cup ChangedBy(id),
                        !.dropped = rd[p].dropped \cup DroppedBy(id)]]
          ELSE rd' = [rd EXCEPT ![p] = [rd[p] EXCEPT !.pc = "latest"]]
  /\ UNCHANGED <<serverVars, wrote, entryVars>>

\* No row is left: read the changed tables again, or everything when they are too many.
EndOfChanges(p) ==
  /\ rd[p].pc = "changes"
  /\ \A id \in ids : id <= rd[p].last
  /\ IF Cardinality(rd[p].reread) > MaxRereads
     THEN rd' = [rd EXCEPT ![p] = [rd[p] EXCEPT !.pc = "latest"]]
     ELSE rd' = [rd EXCEPT ![p] = [rd[p] EXCEPT
                   !.pc = "stats", !.todo = rd[p].reread,
                   !.stats = [t \in Table |-> IF t \in rd[p].dropped THEN Absent
                                                                     ELSE rd[p].stats[t]]]]
  /\ UNCHANGED <<serverVars, wrote, entryVars>>

\* Everything: the last snapshot first, then the stats of every table.
ReadLatest(p) ==
  /\ rd[p].pc = "latest"
  /\ rd' = [rd EXCEPT ![p] = [rd[p] EXCEPT !.pc = "stats", !.last = latest,
                                !.todo = Table, !.stats = NoStats]]
  /\ UNCHANGED <<serverVars, wrote, entryVars>>

\* The stats row as p's transaction sees it.
StatsSeenBy(p, t) == IF t \in wrote[p] THEN Uncommitted ELSE stats[t]

\* A table is read at a time of its own, also when one statement reads them all.
ReadStats(p, t) ==
  /\ rd[p].pc = "stats" /\ t \in rd[p].todo
  /\ rd' = [rd EXCEPT ![p] = [rd[p] EXCEPT
              !.todo = rd[p].todo \ {t},
              !.stats = [rd[p].stats EXCEPT ![t] = StatsSeenBy(p, t)]]]
  /\ UNCHANGED <<serverVars, wrote, entryVars>>

\* The answer is complete: out.
Answer(p) ==
  /\ rd[p].pc = "stats" /\ rd[p].todo = {}
  /\ rd' = [rd EXCEPT ![p] = [rd[p] EXCEPT !.pc = "publish"]]
  /\ UNCHANGED <<serverVars, wrote, entryVars>>

\* Mutant: an entry that another load moved is replaced as long as it does not move back.
UnmovedOrOlder(q) == q.last >= asOf

\* Nobody moved the entry since it was copied.
Unmoved(q) == loaded = q.loaded /\ asOf = q.base /\ q.last >= asOf

\* Mutants: the last snapshot is read after the stats; one snapshot too few.
AsOfLatest(q) == latest
AsOfBefore(q) == q.last - 1

AsOfAfter(q) == q.last

\* The second section under the lock.
Publish(p) ==
  /\ rd[p].pc = "publish"
  /\ IF rd[p].current /\ Unmoved(rd[p])
     THEN /\ loaded' = TRUE /\ asOf' = AsOfAfter(rd[p]) /\ tables' = rd[p].stats
     ELSE UNCHANGED <<loaded, asOf, tables>>
  /\ rd' = [rd EXCEPT ![p] = Idle]
  /\ UNCHANGED <<serverVars, wrote, evicted>>

-----------------------------------------------------------------------------

GetGlobalTableStats(p) ==
  \/ Start(p) \/ ReadChange(p) \/ EndOfChanges(p) \/ ReadLatest(p)
  \/ \E t \in Table : ReadStats(p, t)
  \/ Answer(p) \/ Publish(p)

Next ==
  \/ Commit \/ Expire \/ Evict
  \/ \E p \in Reader : Write(p) \/ EndTransaction(p) \/ GetGlobalTableStats(p)

Spec == Init /\ [][Next]_vars

-----------------------------------------------------------------------------
(* Properties *)

\* No stats of a live table that were changed up to snapshot s are older than that in S.
Knows(S, s) == \A t \in Table : dropAt[t] = 0 => \A c \in touched[t] : c <= s => c <= S[t]

\* The cache misses no commit it claims to include: as_of is never ahead of the stats of any table
\* that still exists, whatever was committed or expired while its loads read - or a later load
\* would not read that table again, and a writer would take row ids another one used.
CacheMissesNoChange == loaded => Knows(tables, asOf)

\* A load answers with everything committed before it began (so with everything its transaction's
\* snapshot shows), although it may start from a cache that is far behind.
AnswersAreCurrent ==
  \A p \in Reader : rd[p].pc = "publish" => Knows(rd[p].stats, rd[p].began)

\* What a transaction wrote and may roll back is never shared: every stats value in the cache was
\* once committed.
OnlyCommittedStats == \A t \in Table : tables[t] \in touched[t] \cup {Absent}

\* Between evictions the cache never moves back: of two loads that brought it up to date at once,
\* the one that publishes last does not return a table to older stats.
CacheNeverMovesBack ==
  [][ evicted' = evicted =>
        /\ loaded => loaded'
        /\ asOf' >= asOf
        /\ \A t \in Table : dropAt[t] = 0 => tables'[t] >= tables[t] ]_vars
=============================================================================
