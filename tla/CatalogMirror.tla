--------------------------- MODULE CatalogMirror ---------------------------
(***************************************************************************)
(* The catalog mirror of src/src/mssql_catalog_load.cpp: one per ATTACH,   *)
(* it keeps the rows of the catalog's history in memory and brings them up *)
(* to date with small reads.  Loads run concurrently: each takes a copy of *)
(* what the mirror knows under its lock, reads the server without the lock *)
(* (three snapshot values first, then the rows, in any order and with      *)
(* commits in between), and merges what it read under the lock again.      *)
(*                                                                         *)
(* A Row is one version of a versioned row (its key includes the snapshot  *)
(* it began at), a Child a row without snapshots that its parent brings    *)
(* with it (a macro's implementation, a partition's column), and an Inl an *)
(* inlined data table, registered and dropped without a snapshot.          *)
(***************************************************************************)
EXTENDS Integers, FiniteSets

CONSTANTS Row,       \* versions of versioned rows, each begun at most once
          Child,     \* rows of unversioned tables
          Parent,    \* Parent[c] is the versioned row that child c belongs to
          Inl,       \* inlined data tables of a lake table, by schema version
          Reader,    \* concurrent catalog loads of one attached catalog
          MaxSnap,   \* bound: the last snapshot a node commits
          Expiries,  \* bound: how many times snapshots are expired
          RowBudget  \* CatalogMirrorRowBudget()

ASSUME RowsFinite == IsFiniteSet(Row) /\ IsFiniteSet(Child) /\ IsFiniteSet(Inl)
ASSUME RowsDisjoint == Row \cap Child = {} /\ Row \cap Inl = {} /\ Child \cap Inl = {}
ASSUME InlVersions == Inl \subseteq Nat
ASSUME ParentType == Parent \in [Child -> Row]
ASSUME BoundsNat == MaxSnap \in Nat /\ Expiries \in Nat /\ RowBudget \in Nat

None == -1     \* SQL NULL: a begin not yet written, an end not yet written
Unread == -2   \* there is no such row among the rows read, or in the mirror

Ends == Nat \cup {None, Unread}
Mode == {"full", "changes", "held"}   \* HISTORY, CHANGES, INLINED

VARIABLES
  \* the server: the metadata database, changed by every node's transactions
  latest,    \* MAX(snapshot_id)
  live,      \* the snapshot ids in ducklake_snapshot
  begin,     \* begin_snapshot of a row, None before the row is inserted
  end,       \* end_snapshot of a row, None while it is open
  deleted,   \* rows that the expiry of their snapshots deleted
  registry,  \* ducklake_inlined_data_tables: "new", "registered" or "dropped"
  expired,   \* how many expiries happened (bounded by Expiries)
  \* the mirror, under its lock
  loaded, overBudget, base, asOf,
  mirrorFp,  \* inlined_count and inlined_checksum
  ends,      \* ends[r]: end_snapshot of r in the mirror, Unread if it is not there
  children,  \* the children in the mirror
  inlined,   \* the inlined data tables in the mirror
  holes,     \* reset slots of the rows vector
  \* the loads in flight
  rd

serverVars == <<latest, live, begin, end, deleted, registry, expired>>
mirrorVars == <<loaded, overBudget, base, asOf, mirrorFp, ends, children, inlined, holes>>
vars == <<serverVars, mirrorVars, rd>>

-----------------------------------------------------------------------------
(* Rows and snapshots *)

Larger(a, b) == IF a >= b THEN a ELSE b

\* Is a row with this begin and this end visible at snapshot s?  (CatalogRow::VisibleAt)
VisibleAt(b, e, s) == b # None /\ b <= s /\ (e = None \/ s < e)

Registered == {i \in Inl : registry[i] = "registered"}

\* COUNT_BIG(*) and CHECKSUM_AGG of a set of inlined data tables.  The set stands for its
\* checksum: two registries with one checksum are told apart here.
Fingerprint(S) == <<Cardinality(S), S>>
NoFingerprint == <<-1, {}>>   \* inlined_count = -1
Fingerprints == (Int \X SUBSET Inl)

\* Is r a row of its table now?
Present(r) == begin[r] # None /\ r \notin deleted

\* No live snapshot sees r, and none will: it ended, and the snapshots it was visible at are gone.
Unseen(r) == end[r] # None /\ \A s \in live : ~VisibleAt(begin[r], end[r], s)

\* The mirror grew past its budget, and every load from then on passes it by.
GivenUp == overBudget

-----------------------------------------------------------------------------
(* The loads in flight *)

Load == [pc : {"idle", "latest", "oldest", "fingerprint", "rows"},
         ask : Nat, mode : Mode, after : Nat, known : Fingerprints,
         latest : Nat, oldest : Nat, fp : Fingerprints,
         todo : SUBSET (Row \cup Child \cup Inl),
         ends : [Row -> Ends], children : SUBSET Child, inlined : SUBSET Inl,
         atStart : [Inl -> {"new", "registered", "dropped"}]]

Idle == [pc |-> "idle", ask |-> 0, mode |-> "full", after |-> 0, known |-> NoFingerprint,
         latest |-> 0, oldest |-> 0, fp |-> NoFingerprint, todo |-> {},
         ends |-> [r \in Row |-> Unread], children |-> {}, inlined |-> {},
         atStart |-> [i \in Inl |-> "new"]]

TypeOK ==
  /\ latest \in Nat /\ live \subseteq Nat
  /\ begin \in [Row -> Nat \cup {None}] /\ end \in [Row -> Nat \cup {None}]
  /\ deleted \subseteq Row
  /\ registry \in [Inl -> {"new", "registered", "dropped"}]
  /\ expired \in Nat
  /\ loaded \in BOOLEAN /\ overBudget \in BOOLEAN
  /\ base \in Nat /\ asOf \in Nat /\ mirrorFp \in Fingerprints
  /\ ends \in [Row -> Ends] /\ children \subseteq Child /\ inlined \subseteq Inl
  /\ holes \in Nat
  /\ rd \in [Reader -> Load]

Init ==
  /\ latest = 0 /\ live = {0}
  /\ begin = [r \in Row |-> None] /\ end = [r \in Row |-> None]
  /\ deleted = {} /\ expired = 0
  /\ registry = [i \in Inl |-> "new"]
  /\ loaded = FALSE /\ overBudget = FALSE /\ base = 0 /\ asOf = 0
  /\ mirrorFp = NoFingerprint
  /\ ends = [r \in Row |-> Unread] /\ children = {} /\ inlined = {} /\ holes = 0
  /\ rd = [p \in Reader |-> Idle]

-----------------------------------------------------------------------------
(* The server: what the transactions of any node do to the catalog's rows *)

\* A commit takes MAX(snapshot_id) + 1, inserts rows that begin there and ends open ones there.
Commit ==
  /\ latest < MaxSnap
  /\ \E new \in SUBSET {r \in Row : begin[r] = None},
        ended \in SUBSET {r \in Row : begin[r] # None /\ end[r] = None} :
       /\ begin' = [r \in Row |-> IF r \in new THEN latest + 1 ELSE begin[r]]
       /\ end' = [r \in Row |-> IF r \in ended THEN latest + 1 ELSE end[r]]
  /\ latest' = latest + 1
  /\ live' = live \cup {latest + 1}
  /\ UNCHANGED <<deleted, registry, expired, mirrorVars, rd>>

\* ducklake_expire_snapshots: removes snapshots, never the latest, and any rows that no snapshot
\* left can see.
Expire ==
  /\ expired < Expiries
  /\ expired' = expired + 1
  /\ \E gone \in SUBSET (live \ {latest}) :
       /\ gone # {}
       /\ live' = live \ gone
       /\ \E rows \in SUBSET {r \in Row : end[r] # None
                                /\ \A s \in live \ gone : ~VisibleAt(begin[r], end[r], s)} :
            deleted' = deleted \cup rows
  /\ UNCHANGED <<latest, begin, end, registry, mirrorVars, rd>>

\* An inlined data table is created and registered for the newest schema version of its lake table.
Register(i) ==
  /\ \A j \in Inl : j >= i => registry[j] = "new"
  /\ registry' = [registry EXCEPT ![i] = "registered"]
  /\ UNCHANGED <<latest, live, begin, end, deleted, expired, mirrorVars, rd>>

\* After a commit a superseded empty one is dropped: its schema version is below the newest.
Drop(i) ==
  /\ registry[i] = "registered"
  /\ \E j \in Inl : j > i /\ registry[j] = "registered"
  /\ registry' = [registry EXCEPT ![i] = "dropped"]
  /\ UNCHANGED <<latest, live, begin, end, deleted, expired, mirrorVars, rd>>

-----------------------------------------------------------------------------
(* A load: LoadCatalog.  The loads that pass the mirror by (a transaction that has written, the  *)
(* off switch, a mirror over its budget) read at their snapshot and change nothing modelled here. *)

Held(s) == loaded /\ s >= base /\ s <= asOf

\* The first section under the lock: choose the read, copy what it is relative to.
Start(p) ==
  /\ rd[p].pc = "idle"
  /\ ~GivenUp
  /\ \E s \in live :
       rd' = [rd EXCEPT ![p] =
                [Idle EXCEPT !.pc = "latest", !.ask = s,
                             !.mode = IF ~loaded THEN "full"
                                      ELSE IF Held(s) THEN "held" ELSE "changes",
                             !.after = asOf, !.known = mirrorFp, !.atStart = registry]]
  /\ UNCHANGED <<serverVars, mirrorVars>>

\* MirrorPreamble, one statement at a time: @latest, then @oldest, then @n and @c.
ReadLatest(p) ==
  /\ rd[p].pc = "latest"
  /\ rd' = [rd EXCEPT ![p] = [rd[p] EXCEPT !.pc = "oldest", !.latest = latest]]
  /\ UNCHANGED <<serverVars, mirrorVars>>

ReadOldest(p) ==
  /\ rd[p].pc = "oldest"
  /\ \E s \in live : /\ \A t \in live : s <= t
                     /\ rd' = [rd EXCEPT ![p] = [rd[p] EXCEPT !.pc = "fingerprint", !.oldest = s]]
  /\ UNCHANGED <<serverVars, mirrorVars>>

\* Mutant: a held snapshot is answered without asking for the inlined data tables.
BranchesFromMemory(mode, known, fp) ==
  (IF mode = "held" THEN {} ELSE Row \cup Child)
    \cup (IF mode = "full" \/ (mode = "changes" /\ fp # known) THEN Inl ELSE {})

\* The branches the statement has: a held snapshot's read has the inlined data tables only, and
\* every read but the first has them only when the fingerprint moved.
Branches(mode, known, fp) ==
  (IF mode = "held" THEN {} ELSE Row \cup Child)
    \cup (IF mode = "full" \/ fp # known THEN Inl ELSE {})

ReadFingerprint(p) ==
  /\ rd[p].pc = "fingerprint"
  /\ LET fp == Fingerprint(Registered)
     IN  rd' = [rd EXCEPT ![p] = [rd[p] EXCEPT !.pc = "rows", !.fp = fp,
                                    !.todo = Branches(rd[p].mode, rd[p].known, fp)]]
  /\ UNCHANGED <<serverVars, mirrorVars>>

\* Mutant: a read of changes brings the rows that began, and not those that ended.
WantedIfNew(q, r) ==
  /\ Present(r)
  /\ IF q.mode = "full" THEN end[r] = None \/ end[r] > q.oldest ELSE begin[r] > q.after

\* BranchBuilder::Versioned: the rows a read of history or of changes wants.
Wanted(q, r) ==
  /\ Present(r)
  /\ IF q.mode = "full" THEN end[r] = None \/ end[r] > q.oldest
                        ELSE begin[r] > q.after \/ end[r] > q.after

\* Mutant: the children of the first snapshot after as_of are taken for known.
WantedChildLater(q, c) ==
  /\ Present(Parent[c])
  /\ IF q.mode = "full" THEN end[Parent[c]] = None \/ end[Parent[c]] > q.oldest
                        ELSE begin[Parent[c]] > q.after + 1

\* BranchBuilder::Children: a child is read with its parent; a read of changes wants new parents'.
WantedChild(q, c) ==
  /\ Present(Parent[c])
  /\ IF q.mode = "full" THEN end[Parent[c]] = None \/ end[Parent[c]] > q.oldest
                        ELSE begin[Parent[c]] > q.after

\* The branches of the statement have no common snapshot: any row is read at a time of its own.
ReadRow(p, r) ==
  /\ rd[p].pc = "rows" /\ r \in rd[p].todo
  /\ rd' = [rd EXCEPT ![p] = [rd[p] EXCEPT
              !.todo = rd[p].todo \ {r},
              !.ends = [rd[p].ends EXCEPT ![r] = IF Wanted(rd[p], r) THEN end[r] ELSE Unread]]]
  /\ UNCHANGED <<serverVars, mirrorVars>>

ReadChild(p, c) ==
  /\ rd[p].pc = "rows" /\ c \in rd[p].todo
  /\ rd' = [rd EXCEPT ![p] = [rd[p] EXCEPT
              !.todo = rd[p].todo \ {c},
              !.children = rd[p].children \cup {k \in {c} : WantedChild(rd[p], k)}]]
  /\ UNCHANGED <<serverVars, mirrorVars>>

ReadInlined(p, i) ==
  /\ rd[p].pc = "rows" /\ i \in rd[p].todo
  /\ rd' = [rd EXCEPT ![p] = [rd[p] EXCEPT
              !.todo = rd[p].todo \ {i},
              !.inlined = rd[p].inlined \cup ({i} \cap Registered)]]
  /\ UNCHANGED <<serverVars, mirrorVars>>

-----------------------------------------------------------------------------
(* The second section under the lock *)

\* Merge: a new row is added, and a known one takes its end_snapshot if it was open.
Merged(have, read) ==
  [r \in Row |-> IF have[r] = Unread \/ (have[r] = None /\ read[r] # Unread)
                 THEN read[r] ELSE have[r]]

\* Mutant: a version that ended right after the oldest snapshot is dropped too.
PrunedPastOldest(have, oldest) ==
  [r \in Row |-> IF have[r] # None /\ have[r] <= oldest + 1 THEN Unread ELSE have[r]]

\* Prune: the versions that ended at or before the oldest snapshot are dropped.
Pruned(have, oldest) ==
  [r \in Row |-> IF have[r] # None /\ have[r] <= oldest THEN Unread ELSE have[r]]

\* How many rows the index knows.
Indexed(e, c, i) == Cardinality({r \in Row : e[r] # Unread}) + Cardinality(c) + Cardinality(i)

\* Does the load see that the oldest snapshot moved past what the mirror answers from?
SeesExpiry(q) == loaded /\ q.oldest > base

\* inlined_changed, against the fingerprint the mirror has now - not the one the read was given.
InlinedChanged(q) == q.fp # mirrorFp

\* Mutant: only a full read replaces the inlined data tables.
ErasesIfFull(q) == q.mode = "full"

\* A full read, or a fingerprint that moved, replaces the inlined data tables.
Erases(q) == q.mode = "full" \/ InlinedChanged(q)

MergeInlined(q) == IF Erases(q) THEN q.inlined ELSE inlined \cup q.inlined

\* Mutants: the last load to merge sets as_of, even back; as_of is off by one.
CaughtUpToLastMerged(q) == IF q.mode = "held" THEN asOf ELSE q.latest
CaughtUpBefore(q) == IF q.mode = "held" THEN asOf ELSE q.latest - 1

\* A read of rows moves as_of, the fingerprint read of a held snapshot does not.
CaughtUpTo(q) == IF q.mode = "held" THEN asOf ELSE Larger(asOf, q.latest)

\* Mutant: the first load starts the mirror at the latest snapshot.
BaseAtLatest(q) == IF loaded THEN Larger(base, q.oldest) ELSE q.latest

\* The oldest snapshot the mirror answers for: set by the first load, moved up by later ones.
BaseAfter(q) == IF loaded THEN Larger(base, q.oldest) ELSE q.oldest

\* rows.size() counts the reset slots too.
PastBudget(indexed, reset) == indexed + reset > RowBudget

Merge(p) ==
  /\ rd[p].pc = "rows" /\ rd[p].todo = {}
  /\ ~GivenUp
  /\ LET q        == rd[p]
         merged   == Merged(ends, q.ends)
         kept     == IF SeesExpiry(q) THEN Pruned(merged, q.oldest) ELSE merged
         kids     == children \cup q.children
         inl      == MergeInlined(q)
         erased   == IF Erases(q) THEN Cardinality(inlined) ELSE 0
         compacts == /\ SeesExpiry(q)
                     /\ \/ kept # merged
                        \/ holes + erased > Indexed(merged, kids, inl)
         holes2   == IF compacts THEN 0 ELSE holes + erased
         over     == PastBudget(Indexed(kept, kids, inl), holes2)
     IN  /\ mirrorFp' = q.fp
         /\ loaded' = TRUE
         /\ base' = BaseAfter(q)
         /\ asOf' = CaughtUpTo(q)
         /\ overBudget' = over
         /\ ends' = IF over THEN [r \in Row |-> Unread] ELSE kept
         /\ children' = IF over THEN {} ELSE kids
         /\ inlined' = IF over THEN {} ELSE inl
         /\ holes' = IF over THEN 0 ELSE holes2
  /\ rd' = [rd EXCEPT ![p] = Idle]
  /\ UNCHANGED serverVars

\* The mirror went over its budget while the load read: it answers at its snapshot instead.
MergeNothing(p) ==
  /\ rd[p].pc = "rows" /\ rd[p].todo = {}
  /\ GivenUp
  /\ rd' = [rd EXCEPT ![p] = Idle]
  /\ UNCHANGED <<serverVars, mirrorVars>>

-----------------------------------------------------------------------------

Server ==
  \/ Commit \/ Expire
  \/ \E i \in Inl : Register(i) \/ Drop(i)

LoadCatalog(p) ==
  \/ Start(p) \/ ReadLatest(p) \/ ReadOldest(p) \/ ReadFingerprint(p)
  \/ \E r \in Row : ReadRow(p, r)
  \/ \E c \in Child : ReadChild(p, c)
  \/ \E i \in Inl : ReadInlined(p, i)
  \/ Merge(p) \/ MergeNothing(p)

Next == Server \/ \E p \in Reader : LoadCatalog(p)

Spec == Init /\ [][Next]_vars

-----------------------------------------------------------------------------
(* What a load answers *)

\* The snapshots the mirror answers for.
Answers(s) == loaded /\ ~GivenUp /\ s >= base /\ s <= asOf

\* The rows the committed history shows at s, and the rows the mirror shows.
TrueRows(s) == {r \in Row : VisibleAt(begin[r], end[r], s)}
MirrorRows(s) == {r \in Row : ends[r] # Unread /\ VisibleAt(begin[r], ends[r], s)}

\* No load loses a row: whatever was committed between the reads of the loads that built the
\* mirror, and in whatever order they merged, at every live snapshot the mirror answers for it has
\* every row visible there, with its children.
MirrorComplete ==
  \A s \in live : Answers(s) =>
    /\ TrueRows(s) \subseteq MirrorRows(s)
    /\ \A c \in Child : Parent[c] \in TrueRows(s) => c \in children

\* The only rows a mirror shows that the history does not are those whose end it cannot read any
\* more: rows that no snapshot left can see.  It is never behind on a row that is still there.
GhostsAreExpired ==
  \A s \in live : Answers(s) =>
    \A r \in MirrorRows(s) \ TrueRows(s) : Unseen(r)

\* Expiry never puts a live snapshot out of the mirror's reach: base stays at or below all of them.
LiveSnapshotsHeld == loaded => \A s \in live : base <= s

\* "So a mirror is never wrong, only behind" (mssql_catalog_load.cpp:26-27): at a live snapshot it
\* answers for, it shows the rows of the committed history and no other.
MirrorNeverWrong ==
  \A s \in live : Answers(s) => MirrorRows(s) = TrueRows(s)

\* A mirror never moves back: a slow load that merges last takes nothing from what the faster ones
\* brought - neither the snapshot they caught up to, nor the oldest one, nor the end of a row.
NeverMovesBack ==
  [][ /\ loaded => loaded' /\ base' >= base /\ asOf' >= asOf
      /\ \A r \in Row : ends[r] >= 0 => ends'[r] \in {ends[r], Unread} ]_vars

\* The mirror's fingerprint is the one its inlined data tables were read with
\* (mssql_catalog_load.cpp:650): when it is the server's, so are the tables - or the next load
\* would take the fingerprint's word and answer without them.  Two loads can break it between them:
\* one that left the tables out, since the mirror had them, and merges after another brought others.
FingerprintTruthful ==
  loaded /\ ~overBudget /\ mirrorFp = Fingerprint(Registered) => inlined = Registered

\* "the catalog grew past the row budget: this attach loads at each snapshot instead"
\* (mssql_catalog_load.cpp:645): a mirror gives up only when it would index more rows than that.
GivesUpWhenTooLarge ==
  [][ \A p \in Reader :
        Merge(p) /\ overBudget' =>
          Indexed(Merged(ends, rd[p].ends), children \cup rd[p].children, MergeInlined(rd[p]))
            > RowBudget ]_vars

\* A load's answer has the inlined data tables of the time it ran: every one that was registered
\* when the load began and still is, and none that was dropped before.  They change without a
\* snapshot, so this is what the fingerprint is for.
InlinedTablesCurrent ==
  [][ \A p \in Reader :
        Merge(p) /\ Answers(rd[p].ask)' =>
          \A i \in Inl :
            /\ rd[p].atStart[i] = "registered" /\ registry[i] = "registered" => i \in inlined'
            /\ rd[p].atStart[i] = "dropped" => i \notin inlined' ]_vars
=============================================================================
