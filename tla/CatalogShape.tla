---------------------------- MODULE CatalogShape ----------------------------
(***************************************************************************)
(* How several nodes attach to one DuckLake catalog on SQL Server: the     *)
(* first transaction of each attach makes sure that the catalog has the    *)
(* shape this build needs (EnsureReady in                                  *)
(* src/src/mssql_metadata_manager.cpp, EnsureCatalogShape in               *)
(* src/src/mssql_catalog_shape.cpp), and an ATTACH with                    *)
(* AUTOMATIC_MIGRATION moves a catalog of format 1.0 or 1.1-dev1 to 1.1    *)
(* first (MigrateToV1_1).                                                  *)
(*                                                                         *)
(* The shaping writes in the transaction that found it missing, under an   *)
(* exclusive application lock held to its end.  The migration writes on    *)
(* connections of its own, and only one of its batches takes that lock;    *)
(* the last of them, the limits, is not a transaction either.              *)
(* An attach that does not migrate works with format 1.0, which it keeps   *)
(* to when another has migrated the catalog.                               *)
(* Of the six classes of bounded strings the model keeps two: a name,      *)
(* which the shaping declares once, and a statistic, which it declares     *)
(* again whenever it is not as wanted.                                     *)
(***************************************************************************)
EXTENDS Integers, FiniteSets

CONSTANTS Node,        \* attaches of the catalog, each in a process of its own
          Migrating,   \* those with AUTOMATIC_MIGRATION TRUE
          Requested,   \* META_LIMITS of each attach
          First,       \* what catalogs the server may have at first
          Stored,      \* the longest name it may hold, 0 before its first commit
          Lengths,     \* lengths of the names a commit stores
          Outlive,     \* may an attach at 1.0 outlive the migration of the catalog?
          Crashes,     \* bound: how many processes die
          Rollbacks    \* bound: how many transactions are rolled back

MAX == 0
NOT_GIVEN == -1
Wide == -2             \* a string as DuckLake declares it, NVARCHAR
NotReady == -1
NoOne == "no one"

Bounds == [name : Nat \cup {NOT_GIVEN}, stats : Nat \cup {NOT_GIVEN}]
NoLimits == [name |-> NOT_GIVEN, stats |-> NOT_GIVEN]

Catalog == [version : {"none", "1.0", "1.1-dev1", "1.1"}, \* in ducklake_metadata
            columns : BOOLEAN,              \* has what format 1.1 adds
            name : Nat \cup {Wide}, stats : Nat \cup {Wide}, \* the declared lengths
            keyed : BOOLEAN,                \* every table has its primary key
            shape : {"none", "old", "current"}, \* SHAPE_VERSION_PROPERTY
            limits : Bounds,                \* LIMITS_PROPERTY
            marker : BOOLEAN]               \* MIGRATION_MARKER_PROPERTY

\* DuckLake creates a catalog at format 1.1, with a manager that does not shape it.
New == [version |-> "1.1", columns |-> TRUE, name |-> Wide, stats |-> Wide, keyed |-> FALSE,
        shape |-> "none", limits |-> NoLimits, marker |-> FALSE]
Nothing == [New EXCEPT !.version = "none"]

ASSUME NodeSets == IsFiniteSet(Node) /\ Migrating \subseteq Node /\ NoOne \notin Node
ASSUME RequestTypes == Requested \in [Node -> Bounds] /\ Lengths \subseteq Nat \ {0} /\ Stored \subseteq Nat
ASSUME FirstType == First \subseteq Catalog
ASSUME OutliveType == Outlive \in BOOLEAN
ASSUME BoundTypes == Crashes \in Nat /\ Rollbacks \in Nat

VARIABLES
  \* the database
  catalog,   \* what is committed of the catalog's shape
  staged,    \* what the transaction that shapes has made of it
  locker,    \* who holds the shaping lock exclusively, in its transaction
  shared,    \* the sessions that hold it shared
  longest,   \* the longest name in the catalog, 0 before its first commit
  prefixed,  \* the inlined data tables have the column names of format 1.1
  \* the nodes
  node,
  \* history
  unrecorded, \* the columns that an ATTACH altered and recorded no limits of
  crashes, rollbacks

serverVars == <<catalog, staged, locker, shared, longest, prefixed>>
aux == <<unrecorded, crashes, rollbacks>>
vars == <<serverVars, node, aux>>

Keys == {"name", "stats"}

\* The steps that read the markers, each a statement under the lock, shared.
Reading == {"markers", "resolve", "reread", "recorded", "changed"}
Attaching == {"version", "check", "rename", "ddl", "apply", "ending"}
Shaping == {"unused", "lock", "state", "shape"}

Detached == [pc |-> "out", then |-> "reread", v10 |-> FALSE, from |-> FALSE, lengths |-> NoLimits,
             todo |-> {}, state |-> Nothing, ready |-> NotReady, failed |-> "no"]

TypeOK ==
  /\ catalog \in Catalog /\ staged \in Catalog
  /\ locker \in Node \cup {NoOne} /\ shared \subseteq Node
  /\ staged # Nothing => locker # NoOne
  /\ longest \in Nat /\ prefixed \in BOOLEAN
  /\ node \in [Node -> [pc : Reading \cup Attaching \cup Shaping \cup {"out", "idle", "work"},
                        then : {"reread", "ending"}, v10 : BOOLEAN, from : BOOLEAN, lengths : Bounds,
                        todo : SUBSET Keys, state : Catalog, ready : Nat \cup {NotReady},
                        failed : {"no", "limits", "shaping"}]]
  /\ unrecorded \subseteq Keys /\ crashes \in 0..Crashes /\ rollbacks \in 0..Rollbacks

Init ==
  /\ catalog \in First /\ staged = Nothing /\ locker = NoOne /\ shared = {}
  /\ longest \in Stored
  /\ prefixed = (catalog.version # "1.0")
  /\ node = [n \in Node |-> Detached]
  /\ unrecorded = {} /\ crashes = 0 /\ rollbacks = 0

Goes(n, record) == node' = [node EXCEPT ![n] = record]
Proceeds(n, pc) == Goes(n, [node[n] EXCEPT !.pc = pc])

-----------------------------------------------------------------------------
(* Lengths: CatalogLengths *)

Default == [name |-> 256, stats |-> 1024]

Given(l) == {k \in Keys : l[k] # NOT_GIVEN}
AnyGiven(l) == Given(l) # {}
WithDefaults(l) == [k \in Keys |-> IF l[k] = NOT_GIVEN THEN Default[k] ELSE l[k]]
WithMaxForMissing(l) == [k \in Keys |-> IF l[k] = NOT_GIVEN THEN MAX ELSE l[k]]
OverriddenBy(l, other) == [k \in Keys |-> IF other[k] = NOT_GIVEN THEN l[k] ELSE other[k]]

\* A string of this many bytes can be stored in a column so declared.
Fits(bytes, length) == length \in {MAX, Wide, NOT_GIVEN} \/ bytes <= length

-----------------------------------------------------------------------------
(* The markers *)

\* A transaction sees what it has written itself.
Seen(n) == IF locker = n /\ staged # Nothing THEN staged ELSE catalog

\* ReadCatalogMarkers takes the shaping lock shared, owned by the session ...
TakeShared(n) ==
  /\ node[n].pc \in Reading
  /\ n \notin shared
  /\ locker \in {n, NoOne}
  /\ shared' = shared \cup {n}
  /\ UNCHANGED <<catalog, staged, locker, longest, prefixed, node, aux>>

\* ... and gives it back in the statement that reads.
ReadMarkers(n, pc) ==
  /\ node[n].pc = pc
  /\ n \in shared
  /\ shared' = shared \ {n}
  /\ UNCHANGED <<catalog, staged, locker, longest, prefixed, aux>>

-----------------------------------------------------------------------------
(* ATTACH *)

Create(n) ==
  /\ node[n].pc = "out"
  /\ catalog = Nothing
  /\ catalog' = New
  /\ Goes(n, [Detached EXCEPT !.pc = "idle"])
  /\ UNCHANGED <<staged, locker, shared, longest, prefixed, aux>>

Attach(n) ==
  /\ node[n].pc = "out"
  /\ catalog # Nothing
  /\ n \in Migrating \/ catalog.version # "1.1-dev1"
  /\ Goes(n, [Detached EXCEPT !.v10 = n \notin Migrating /\ catalog.version = "1.0",
                !.pc = IF n \in Migrating /\ catalog.version # "1.1" THEN "version" ELSE "idle"])
  /\ UNCHANGED <<serverVars, aux>>

\* The ATTACH fails, and with it its transaction.
Fail(n, why) == Goes(n, [Detached EXCEPT !.failed = why])

-----------------------------------------------------------------------------
(* MigrateToV1_1 *)

\* META_LIMITS narrows a catalog only on its way from 1.0.
Migrate(n) ==
  /\ node[n].pc = "version"
  /\ LET from == catalog.version = "1.0"
     IN  Goes(n, [node[n] EXCEPT !.from = from /\ AnyGiven(Requested[n]),
                                 !.pc = IF from THEN "check" ELSE "rename"])
  /\ UNCHANGED <<serverVars, aux>>

CheckMigrationLimits(n) ==
  /\ node[n].pc = "check"
  /\ IF Fits(longest, Requested[n].name) THEN Proceeds(n, "rename") ELSE Fail(n, "limits")
  /\ UNCHANGED <<serverVars, aux>>

\* All the renames or none, in a transaction on a connection of its own.
MigrateInlinedColumnNames(n) ==
  /\ node[n].pc = "rename"
  /\ prefixed' = TRUE
  /\ Proceeds(n, "ddl")
  /\ UNCHANGED <<catalog, staged, locker, shared, longest, aux>>

\* Mutant: the stamp stays.
MigratedKeepsStamp(c) == [c EXCEPT !.columns = TRUE, !.version = "1.1", !.marker = TRUE,
                                   !.keyed = c.keyed /\ c.columns]

\* What the batch makes of a catalog; the stamp goes if it added anything.
Migrated(c) ==
  [c EXCEPT !.columns = TRUE, !.version = "1.1", !.marker = TRUE,
            !.keyed = c.keyed /\ c.columns,
            !.shape = IF c.columns THEN c.shape ELSE "none"]

\* The batch has the lock to itself while it runs, and does nothing if the marker is there.
MigrationBatch(n) ==
  /\ node[n].pc = "ddl"
  /\ locker = NoOne /\ shared = {}
  /\ catalog' = IF catalog.marker THEN catalog ELSE Migrated(catalog)
  /\ Proceeds(n, IF node[n].from THEN "recorded" ELSE "changed")
  /\ UNCHANGED <<staged, locker, shared, longest, prefixed, aux>>

\* ApplyMigrationLimits reads what is recorded, ...
ReadRecorded(n) ==
  /\ ReadMarkers(n, "recorded")
  /\ Goes(n, [node[n] EXCEPT !.pc = "apply", !.todo = Given(Requested[n]),
                !.lengths = OverriddenBy(WithMaxForMissing(Seen(n).limits), Requested[n])])

DeclaredAs(c, k, length) ==
  IF k = "name" THEN [c EXCEPT !.name = length] ELSE [c EXCEPT !.stats = length]

\* ... alters the columns one by one, without the lock, each in a transaction of its own.  When a
\* name is too long by now its column stays, and the batch goes on or not ...
AlterColumn(n, k) ==
  /\ node[n].pc = "apply" /\ k \in node[n].todo
  /\ staged = Nothing
  /\ LET altered == [node[n] EXCEPT !.todo = node[n].todo \ {k}]
     IN  IF k = "stats" \/ Fits(longest, Requested[n].name)
         THEN /\ catalog' = DeclaredAs(catalog, k, Requested[n][k])
              /\ unrecorded' = unrecorded \cup {k}
              /\ Goes(n, altered)
         ELSE /\ \E record \in {Detached, altered} : Goes(n, [record EXCEPT !.failed = "limits"])
              /\ UNCHANGED <<catalog, unrecorded>>
  /\ UNCHANGED <<staged, locker, shared, longest, prefixed, crashes, rollbacks>>

\* Mutant: the recorded limits stay.
RecordsNothing(n) == catalog.limits

Records(n) == node[n].lengths

\* ... and records the limits last.
RecordLimits(n) ==
  /\ node[n].pc = "apply" /\ node[n].todo = {}
  /\ staged = Nothing
  /\ catalog' = [catalog EXCEPT !.limits = Records(n)]
  /\ unrecorded' = unrecorded \ Given(Requested[n])
  /\ IF node[n].failed = "limits" THEN Fail(n, "limits") ELSE Proceeds(n, "changed")
  /\ UNCHANGED <<staged, locker, shared, longest, prefixed, crashes, rollbacks>>

\* The attach shapes what its migration changed, in its own transaction.
SeeChanged(n) ==
  /\ ReadMarkers(n, "changed")
  /\ Goes(n, [node[n] EXCEPT !.then = "ending",
                !.pc = IF Seen(n).shape = "current" THEN "ending" ELSE "resolve"])

-----------------------------------------------------------------------------
(* EnsureReady, by the first query of a transaction *)

Begin(n) ==
  /\ node[n].pc = "idle"
  /\ Goes(n, [node[n] EXCEPT !.then = "reread",
                !.pc = IF node[n].ready = NotReady THEN "markers" ELSE "work"])
  /\ UNCHANGED <<serverVars, aux>>

\* The bound on statistics that this attach keeps to from now on.
StatsLength(limits) == WithMaxForMissing(limits).stats

EnsureReady(n) ==
  /\ ReadMarkers(n, "markers")
  /\ IF Seen(n).shape = "current"
     THEN Goes(n, [node[n] EXCEPT !.pc = "work", !.ready = StatsLength(Seen(n).limits)])
     ELSE Proceeds(n, "resolve")

\* Mutant: the attach is ready with the limits it read before the shaping.
MarkReadyUnread(n) ==
  /\ ReadMarkers(n, "reread")
  /\ Goes(n, [node[n] EXCEPT !.pc = "work", !.ready = StatsLength(NoLimits)])

\* The shaping has recorded limits: the markers are read again, and the attach is ready.
MarkReady(n) ==
  /\ ReadMarkers(n, "reread")
  /\ Goes(n, [node[n] EXCEPT !.pc = "work", !.ready = StatsLength(Seen(n).limits)])

-----------------------------------------------------------------------------
(* EnsureCatalogShape *)

\* ResolveCatalogLengths: the recorded limits; a catalog that was never shaped is looked at.
ResolveCatalogLengths(n) ==
  /\ ReadMarkers(n, "resolve")
  /\ LET c == Seen(n)
     IN  IF c.limits = NoLimits /\ c.shape = "none"
         THEN Proceeds(n, "unused")
         ELSE Goes(n, [node[n] EXCEPT !.pc = "lock",
                !.lengths = WithMaxForMissing(c.limits)])

\* Only a catalog without a commit is narrowed to what the attach asks for.
ResolveUnused(n) ==
  /\ node[n].pc = "unused"
  /\ Goes(n, [node[n] EXCEPT !.pc = "lock",
                !.lengths = IF longest = 0 THEN WithDefaults(Requested[n])
                            ELSE WithMaxForMissing(NoLimits)])
  /\ UNCHANGED <<serverVars, aux>>

\* Mutant: a lock that others do not wait for.
LockShapeAtOnce(n) ==
  /\ node[n].pc = "lock"
  /\ locker' = n
  /\ Proceeds(n, "state")
  /\ UNCHANGED <<catalog, staged, shared, longest, prefixed, aux>>

\* The exclusive lock, to the end of the transaction.
LockShape(n) ==
  /\ node[n].pc = "lock"
  /\ locker = NoOne /\ shared \subseteq {n}
  /\ locker' = n
  /\ Proceeds(n, "state")
  /\ UNCHANGED <<catalog, staged, shared, longest, prefixed, aux>>

ReadShapeState(n) ==
  /\ node[n].pc = "state"
  /\ Goes(n, [node[n] EXCEPT !.pc = "shape", !.state = catalog])
  /\ UNCHANGED <<serverVars, aux>>

\* Mutant: a shaped catalog counts as migrated.
ShapedAndMigrated(state, lengths) ==
  [catalog EXCEPT
     !.name = IF state.name = Wide THEN lengths.name ELSE catalog.name,
     !.stats = IF state.stats # lengths.stats THEN lengths.stats ELSE catalog.stats,
     !.keyed = TRUE, !.shape = "current", !.limits = lengths, !.marker = TRUE]

\* The DDL that the state read calls for has no guards of its own: it adds a key or a property
\* that was missing, updates one that was there, narrows a column that was not as wanted.
Refused(state, lengths) ==
  \/ ~state.keyed /\ catalog.keyed
  \/ (state.shape = "none") # (catalog.shape = "none")
  \/ (state.limits = NoLimits) # (catalog.limits = NoLimits)
  \/ ~state.marker /\ catalog.marker
  \/ state.name = Wide /\ ~Fits(longest, lengths.name)

Shaped(state, lengths) ==
  [catalog EXCEPT
     !.name = IF state.name = Wide THEN lengths.name ELSE catalog.name,
     !.stats = IF state.stats # lengths.stats THEN lengths.stats ELSE catalog.stats,
     !.keyed = TRUE, !.shape = "current", !.limits = lengths,
     !.marker = catalog.marker \/ (catalog.columns /\ catalog.version = "1.1")]

EnsureCatalogShape(n) ==
  /\ node[n].pc = "shape"
  /\ IF Refused(node[n].state, node[n].lengths)
     THEN /\ locker' = NoOne
          /\ staged' = Nothing
          /\ IF node[n].then = "ending" THEN Fail(n, "shaping")
             ELSE Goes(n, [node[n] EXCEPT !.pc = "idle", !.failed = "shaping"])
     ELSE /\ staged' = Shaped(node[n].state, node[n].lengths)
          /\ Goes(n, [node[n] EXCEPT !.pc = node[n].then, !.state = Nothing])
          /\ UNCHANGED locker
  /\ UNCHANGED <<catalog, shared, longest, prefixed, aux>>

-----------------------------------------------------------------------------
(* The end of a transaction *)

\* Mutant: the lock goes, the transaction's work stays.
ReleasesLock(n) ==
  /\ locker' = IF locker = n THEN NoOne ELSE locker
  /\ staged' = staged
  /\ shared' = shared \ {n}

Releases(n) ==
  /\ locker' = IF locker = n THEN NoOne ELSE locker
  /\ staged' = IF locker = n THEN Nothing ELSE staged
  /\ shared' = shared \ {n}

\* Mutant: the session keeps the lock.
CommitLocked(n) ==
  /\ node[n].pc \in {"work", "ending"}
  /\ catalog' = Seen(n) /\ staged' = IF locker = n THEN Nothing ELSE staged
  /\ Proceeds(n, "idle")
  /\ UNCHANGED <<locker, shared, longest, prefixed, aux>>

\* Has the migration of the catalog gone past its list of the tables to rename?
IsMigrated ==
  catalog.version = "1.1" \/ \E m \in Node : node[m].pc \in {"ddl", "recorded", "apply", "changed"}

\* The transaction may have written nothing, or names of some length, or an inlined data table with
\* the column names of the attach's format.
Commit(n) ==
  /\ node[n].pc \in {"work", "ending"}
  /\ catalog' = Seen(n)
  /\ \/ UNCHANGED longest
     \/ /\ node[n].pc = "work"
        /\ \E length \in Lengths :
             /\ Fits(length, Seen(n).name)
             /\ longest' = IF length > longest THEN length ELSE longest
  /\ \/ UNCHANGED prefixed
     \/ /\ node[n].pc = "work" /\ node[n].v10
        /\ Outlive \/ ~IsMigrated
        /\ prefixed' = FALSE
  /\ Releases(n)
  /\ Proceeds(n, "idle")
  /\ UNCHANGED aux

\* ROLLBACK, or a query that fails: the object cache keeps what it has.
Rollback(n) ==
  /\ node[n].pc = "work"
  /\ rollbacks < Rollbacks
  /\ rollbacks' = rollbacks + 1
  /\ Releases(n)
  /\ Proceeds(n, "idle")
  /\ UNCHANGED <<catalog, longest, prefixed, unrecorded, crashes>>

\* The process dies wherever it is, and may attach again.
Crash(n) ==
  /\ node[n].pc # "out"
  /\ crashes < Crashes
  /\ crashes' = crashes + 1
  /\ Releases(n)
  /\ Goes(n, Detached)
  /\ UNCHANGED <<catalog, longest, prefixed, unrecorded, rollbacks>>

-----------------------------------------------------------------------------

\* What a transaction or an ATTACH does once it has begun.
Advance(n) ==
  \/ TakeShared(n)
  \/ Migrate(n) \/ CheckMigrationLimits(n) \/ MigrateInlinedColumnNames(n) \/ MigrationBatch(n)
  \/ ReadRecorded(n) \/ (\E k \in Keys : AlterColumn(n, k)) \/ RecordLimits(n) \/ SeeChanged(n)
  \/ EnsureReady(n) \/ MarkReady(n)
  \/ ResolveCatalogLengths(n) \/ ResolveUnused(n) \/ LockShape(n) \/ ReadShapeState(n)
  \/ EnsureCatalogShape(n)
  \/ Commit(n)

Next == \E n \in Node :
  \/ Create(n) \/ Attach(n) \/ Begin(n)
  \/ Advance(n)
  \/ Rollback(n) \/ Crash(n)

Spec == Init /\ [][Next]_vars

\* A statement runs to its end, and a transaction that has begun is ended by its user.
FairSpec == Spec /\ \A n \in Node : WF_vars(Advance(n))

-----------------------------------------------------------------------------
(* Properties *)

\* The stamp stands for a catalog that is keyed and whose strings are all bounded as they should
\* be, whoever shaped, migrated or died in between: "Last, and only if everything above
\* succeeded" (src/src/mssql_catalog_shape.cpp:1003).
StampIsTruthful ==
  catalog # Nothing /\ catalog.shape = "current" =>
    catalog.keyed /\ catalog.name # Wide /\ catalog.stats # Wide

\* A catalog that says 1.1 has all of 1.1: its columns, and the new names in its inlined tables.
\* The rename comes first, so that dying half way leaves a catalog that still migrates.
MigratedIsWhole ==
  catalog # Nothing /\ (catalog.version = "1.1" \/ catalog.marker) => catalog.columns /\ prefixed

\* The recorded limits are the lengths the strings are declared with
\* (src/src/mssql_catalog_shape.cpp:1003-1004) - except of names that an ATTACH altered and died, or
\* was cut off, before it recorded their limits, which no shaping declares again.
LimitsAreDeclared ==
  catalog # Nothing /\ catalog.shape = "current" =>
    /\ catalog.limits.stats = catalog.stats
    /\ catalog.limits.name = catalog.name \/ "name" \in unrecorded

\* A statistic cut at the bound an attach keeps to can be stored in the catalog - except while an
\* ATTACH cut off as above has narrowed the column and no shaping since was committed.
StatsFit ==
  \A n \in Node : node[n].pc = "idle" /\ node[n].ready # NotReady =>
    \/ catalog.stats \in {MAX, Wide}
    \/ node[n].ready # MAX /\ node[n].ready <= catalog.stats
    \/ "stats" \in unrecorded /\ catalog.shape # "current"

\* Of the nodes that shape one catalog, the second finds what the first committed: its DDL, which
\* has no guards, is never refused (src/src/mssql_catalog_shape.cpp:750-753).
NoShapingFails == \A n \in Node : node[n].failed # "shaping"

\* An attach that is marked ready has a catalog that is keyed: the mark stands for the markers,
\* "which are the truth" (src/src/mssql_metadata_manager.cpp:269-270).
ReadyIsKeyed ==
  \A n \in Node : node[n].pc = "idle" /\ node[n].ready # NotReady => catalog.keyed

\* An ATTACH whose META_LIMITS are too short fails while the catalog is still 1.0
\* (src/src/mssql_catalog_shape.cpp:208-209).
ShortLimitsLeaveV10 ==
  [][\A n \in Node : node[n].failed = "no" /\ node'[n].failed = "limits" =>
       catalog.version = "1.0"]_vars

\* Every ATTACH and every transaction that begins ends: the locks on the way are waited for in
\* an order that lets someone through.
EveryAttachEnds ==
  \A n \in Node : node[n].pc \notin {"out", "idle"} ~> node[n].pc \in {"out", "idle"}
=============================================================================
