------------------------- MODULE CatalogShapeProofs -------------------------
(***************************************************************************)
(* Proofs about CatalogShape, for any nodes, requests, lengths and bounds. *)
(*                                                                         *)
(* What a node read of the catalog stays worth something while it waits or *)
(* works: a bounded string is never unbounded again, nobody else writes    *)
(* the keys and the markers while it holds the lock, and a migration that  *)
(* has gone past its list of the tables to rename lets no old name back in.*)
(* On top of that, while nobody narrows (ShapingInv), what is read under   *)
(* the lock is the state until it is written; and while nodes take turns   *)
(* (LimitsInv), the limits recorded are those declared, but for the        *)
(* columns that a migration altered and did not live to record.            *)
(***************************************************************************)
EXTENDS CatalogShape, TLAPS

Phase == Reading \cup Attaching \cup Shaping \cup {"out", "idle", "work"}
Attached == [pc : Phase, then : {"reread", "ending"}, v10 : BOOLEAN, from : BOOLEAN, lengths : Bounds,
             todo : SUBSET Keys, state : Catalog, ready : Nat \cup {NotReady}, failed : {"no", "limits", "shaping"}]
Declared == [name : Nat, stats : Nat]

\* A catalog is whole in what it says of itself.
Sound(c) ==
  /\ c.version # "none"
  /\ c.shape = "current" => c.keyed /\ c.name # Wide /\ c.stats # Wide
  /\ c.version = "1.1" \/ c.marker => c.version = "1.1" /\ c.columns

\* The server holds what releases leave: whole catalogs, or none yet.
FirstSound == \A c \in First : c # Nothing => Sound(c)

\* What a shaping has staged differs from the catalog only in what shaping writes.
DatabaseInv ==
  /\ catalog # Nothing => Sound(catalog)
  /\ catalog = Nothing => prefixed
  /\ staged # Nothing => /\ catalog # Nothing /\ Sound(staged)
                         /\ staged.version = catalog.version /\ staged.columns = catalog.columns
                         /\ staged.name # Wide /\ staged.stats # Wide
  /\ ~Outlive /\ catalog.version = "1.1" => prefixed

\* What node n may rely on in the phase that its record q is in, with the catalog c, staged s,
\* the lock held by l, and the inlined tables renamed if p.
NodeOK(n, q, c, s, l, p) ==
  /\ q.pc # "out" => c # Nothing
  /\ q.pc \in {"lock", "state", "shape"} => q.lengths \in Declared
  /\ q.pc \in {"state", "shape"} => l = n /\ s = Nothing
  /\ l = n => q.pc \in {"state", "shape", "reread", "work", "ending"}
  /\ q.pc = "shape" => /\ q.state.name # Wide => c.name # Wide
                       /\ q.state.stats # Wide => c.stats # Wide
  /\ ~Outlive /\ q.pc = "ddl" => p
  /\ q.pc = "apply" => q.todo \subseteq Given(Requested[n])

NodesOK == \A n \in Node : NodeOK(n, node[n], catalog, staged, locker, prefixed)

IInv == TypeOK /\ DatabaseInv /\ NodesOK

-----------------------------------------------------------------------------
(* Lemmas *)

\* Completing a request gives a length for every class, and never the declaration of DuckLake.
LEMMA LengthFacts ==
  ASSUME NEW l \in Bounds
  PROVE  /\ WithDefaults(l) \in Declared /\ WithMaxForMissing(l) \in Declared
         /\ WithMaxForMissing(l).name = (IF l.name = NOT_GIVEN THEN MAX ELSE l.name)
         /\ WithMaxForMissing(l).stats = (IF l.stats = NOT_GIVEN THEN MAX ELSE l.stats)
         /\ WithDefaults(l).name = (IF l.name = NOT_GIVEN THEN 256 ELSE l.name)
  <1>1. l.name \in Nat \cup {NOT_GIVEN} /\ l.stats \in Nat \cup {NOT_GIVEN}
    BY DEF Bounds
  <1>2. WithMaxForMissing(l) = [name |-> IF l.name = NOT_GIVEN THEN MAX ELSE l.name,
                                stats |-> IF l.stats = NOT_GIVEN THEN MAX ELSE l.stats]
    BY DEF WithMaxForMissing, Keys, Bounds
  <1>3. WithDefaults(l) = [name |-> IF l.name = NOT_GIVEN THEN 256 ELSE l.name,
                           stats |-> IF l.stats = NOT_GIVEN THEN 1024 ELSE l.stats]
    BY DEF WithDefaults, Keys, Bounds, Default
  <1>4. 256 \in Nat /\ 1024 \in Nat /\ MAX \in Nat
    BY DEF MAX
  <1> QED BY <1>1, <1>2, <1>3, <1>4 DEF Declared

\* A request overrides what is given, with a length.
LEMMA OverriddenFacts ==
  ASSUME NEW other \in Bounds, NEW x, NEW y
  PROVE  /\ OverriddenBy([name |-> x, stats |-> y], other)
              = [name |-> IF other.name = NOT_GIVEN THEN x ELSE other.name,
                 stats |-> IF other.stats = NOT_GIVEN THEN y ELSE other.stats]
         /\ other.name \in Nat \cup {NOT_GIVEN} /\ other.stats \in Nat \cup {NOT_GIVEN}
  BY DEF OverriddenBy, Keys, Bounds

\* The constants of the model are what they are declared to be.
LEMMA NothingFacts == /\ Nothing \in Catalog /\ New \in Catalog /\ Nothing.version = "none"
                      /\ New # Nothing /\ Sound(New) /\ Detached \in Attached
                      /\ Detached.pc = "out" /\ NoLimits \in Bounds
  <1>1. NoLimits \in Bounds
    BY DEF NoLimits, Bounds, NOT_GIVEN
  <1>2. New \in Catalog /\ New.version = "1.1" /\ Sound(New)
    BY <1>1 DEF New, Catalog, Sound, Wide
  <1>3. Nothing \in Catalog /\ Nothing.version = "none"
    BY <1>2 DEF Nothing, Catalog
  <1>4. Detached \in Attached /\ Detached.pc = "out"
    BY <1>1, <1>3 DEF Detached, Attached, Phase
  <1> QED BY <1>1, <1>2, <1>3, <1>4

\* What the invariant says of one node.
LEMMA TypeFacts ==
  ASSUME IInv, NEW n \in Node
  PROVE  /\ catalog \in Catalog /\ staged \in Catalog /\ locker \in Node \cup {NoOne}
         /\ shared \subseteq Node /\ (staged # Nothing => locker # NoOne)
         /\ longest \in Nat /\ prefixed \in BOOLEAN
         /\ node \in [Node -> Attached] /\ node[n] \in Attached
         /\ unrecorded \subseteq Keys /\ crashes \in 0..Crashes /\ rollbacks \in 0..Rollbacks
         /\ NodeOK(n, node[n], catalog, staged, locker, prefixed)
         /\ Requested[n] \in Bounds
  BY RequestTypes DEF IInv, TypeOK, NodesOK, Attached, Phase

\* A step of node n keeps the invariant if it keeps n's part, the database's, and what the others
\* rely on.
LEMMA StepInv ==
  ASSUME IInv, NEW n \in Node, NEW r \in Attached, Goes(n, r),
         catalog' \in Catalog, staged' \in Catalog, locker' \in Node \cup {NoOne}, shared' \subseteq Node,
         staged' # Nothing => locker' # NoOne, longest' \in Nat, prefixed' \in BOOLEAN,
         unrecorded' \subseteq Keys, crashes' \in 0..Crashes, rollbacks' \in 0..Rollbacks,
         DatabaseInv',
         NodeOK(n, r, catalog', staged', locker', prefixed'),
         catalog # Nothing => /\ catalog' # Nothing
                              /\ catalog.name # Wide => catalog'.name # Wide
                              /\ catalog.stats # Wide => catalog'.stats # Wide,
         \A m \in Node \ {n} : (locker = m <=> locker' = m) /\ (locker = m => staged' = staged),
         ~Outlive /\ prefixed /\ (\E m \in Node : node[m].pc = "ddl") => prefixed'
  PROVE  IInv'
  <1>1. node' \in [Node -> Attached] /\ \A m \in Node : node'[m] = IF m = n THEN r ELSE node[m]
    BY TypeFacts DEF Goes
  <1>2. TypeOK'
    BY <1>1 DEF TypeOK, Attached, Phase
  <1>3. ASSUME NEW m \in Node PROVE NodeOK(m, node'[m], catalog', staged', locker', prefixed')
    <2>1. CASE m = n
      BY <1>1, <2>1
    <2>2. CASE m # n
      <3>1. node'[m] = node[m] /\ NodeOK(m, node[m], catalog, staged, locker, prefixed)
        BY <1>1, <2>2, TypeFacts
      <3> QED BY <2>2, <3>1 DEF NodeOK
    <2> QED BY <2>1, <2>2
  <1> QED BY <1>2, <1>3 DEF IInv, NodesOK

\* A step that writes nothing but n's record, and n's part of the shared lock.
LEMMA QuietStep ==
  ASSUME IInv, NEW n \in Node, NEW r \in Attached, Goes(n, r), shared' \subseteq Node,
         UNCHANGED <<catalog, staged, locker, longest, prefixed, aux>>,
         NodeOK(n, r, catalog, staged, locker, prefixed)
  PROVE  IInv'
  <1>1. DatabaseInv'
    BY DEF IInv, DatabaseInv, Sound
  <1> QED BY <1>1, TypeFacts, StepInv DEF aux

\* The markers that a node reads are those of a catalog.
LEMMA ReadFacts ==
  ASSUME IInv, NEW n \in Node, NEW pc, ReadMarkers(n, pc)
  PROVE  /\ node[n].pc = pc /\ shared' \subseteq Node
         /\ UNCHANGED <<catalog, staged, locker, longest, prefixed, aux>>
         /\ Seen(n) \in Catalog /\ Seen(n).limits \in Bounds
  <1>1. Seen(n) \in Catalog
    BY TypeFacts DEF Seen
  <1>2. Seen(n).limits \in Bounds
    BY <1>1 DEF Catalog
  <1> QED BY <1>1, <1>2, TypeFacts DEF ReadMarkers, aux

-----------------------------------------------------------------------------
(* The steps *)

\* Steps that write only the record of the node that takes them.
LEMMA AttachSteps ==
  ASSUME IInv, NEW n \in Node, Attach(n) \/ Migrate(n) \/ CheckMigrationLimits(n) \/ Begin(n)
  PROVE  IInv'
  <1> DEFINE q == node[n]
  <1>1. q \in Attached /\ NodeOK(n, q, catalog, staged, locker, prefixed)
    BY TypeFacts
  <1>2. UNCHANGED <<catalog, staged, locker, longest, prefixed, aux>> /\ shared' \subseteq Node
    BY TypeFacts DEF Attach, Migrate, CheckMigrationLimits, Begin, serverVars
  <1>3. ASSUME NEW r \in Attached, Goes(n, r), r.pc \notin {"lock", "state", "shape", "ddl", "apply"},
               r.pc # "out" => catalog # Nothing, q.pc \notin {"state", "shape", "reread", "work", "ending"}
        PROVE  IInv'
    <2>1. NodeOK(n, r, catalog, staged, locker, prefixed)
      BY <1>1, <1>3 DEF NodeOK
    <2> QED BY <1>2, <1>3, <2>1, QuietStep
  <1>4. CASE Attach(n)
    <2> DEFINE r == [Detached EXCEPT !.v10 = n \notin Migrating /\ catalog.version = "1.0",
                       !.pc = IF n \in Migrating /\ catalog.version # "1.1" THEN "version" ELSE "idle"]
    <2>1. r \in Attached /\ r.pc \in {"version", "idle"}
      BY NothingFacts DEF Attached, Phase, Attaching
    <2>2. Goes(n, r) /\ q.pc = "out" /\ catalog # Nothing
      BY <1>4 DEF Attach
    <2> HIDE DEF r
    <2> QED BY <1>3, <2>1, <2>2
  <1>5. CASE Migrate(n)
    <2> DEFINE from == catalog.version = "1.0"
               r == [q EXCEPT !.from = from /\ AnyGiven(Requested[n]), !.pc = IF from THEN "check" ELSE "rename"]
    <2>1. r \in Attached /\ r.pc \in {"check", "rename"}
      BY <1>1 DEF Attached, Phase, Attaching, AnyGiven
    <2>2. Goes(n, r) /\ q.pc = "version"
      BY <1>5 DEF Migrate
    <2> HIDE DEF r
    <2> QED BY <1>1, <1>3, <2>1, <2>2 DEF NodeOK
  <1>6. CASE CheckMigrationLimits(n)
    <2>1. q.pc = "check" /\ (Goes(n, [q EXCEPT !.pc = "rename"]) \/ Goes(n, [Detached EXCEPT !.failed = "limits"]))
      BY <1>6 DEF CheckMigrationLimits, Proceeds, Fail
    <2>2. [q EXCEPT !.pc = "rename"] \in Attached /\ [q EXCEPT !.pc = "rename"].pc = "rename"
      BY <1>1 DEF Attached, Phase, Attaching
    <2>3. [Detached EXCEPT !.failed = "limits"] \in Attached /\ [Detached EXCEPT !.failed = "limits"].pc = "out"
      BY NothingFacts DEF Attached
    <2> QED BY <1>1, <1>3, <2>1, <2>2, <2>3 DEF NodeOK
  <1>7. CASE Begin(n)
    <2> DEFINE r == [q EXCEPT !.then = "reread", !.pc = IF q.ready = NotReady THEN "markers" ELSE "work"]
    <2>1. r \in Attached /\ r.pc \in {"markers", "work"}
      BY <1>1 DEF Attached, Phase, Reading
    <2>2. Goes(n, r) /\ q.pc = "idle"
      BY <1>7 DEF Begin
    <2> HIDE DEF r
    <2> QED BY <1>1, <1>3, <2>1, <2>2 DEF NodeOK
  <1> QED BY <1>4, <1>5, <1>6, <1>7

\* A node that waits for the lock, or gets it, knows no more and no less.
LEMMA TakeSharedStep ==
  ASSUME IInv, NEW n \in Node, TakeShared(n)
  PROVE  IInv'
  <1>1. Goes(n, node[n]) /\ shared' \subseteq Node
        /\ UNCHANGED <<catalog, staged, locker, longest, prefixed, aux>>
    <2>1. node' = [node EXCEPT ![n] = node[n]]
      BY TypeFacts DEF TakeShared
    <2> QED BY <2>1, TypeFacts DEF TakeShared, Goes
  <1> QED BY <1>1, TypeFacts, QuietStep

\* Steps that read the markers.
LEMMA ReadingSteps ==
  ASSUME IInv, NEW n \in Node,
         ReadRecorded(n) \/ SeeChanged(n) \/ EnsureReady(n) \/ MarkReady(n) \/ ResolveCatalogLengths(n)
  PROVE  IInv'
  <1> DEFINE q == node[n]
             limits == Seen(n).limits
  <1>1. q \in Attached /\ NodeOK(n, q, catalog, staged, locker, prefixed) /\ Requested[n] \in Bounds
    BY TypeFacts
  <1>2. /\ UNCHANGED <<catalog, staged, locker, longest, prefixed, aux>> /\ shared' \subseteq Node
        /\ q.pc \in Reading /\ limits \in Bounds
    BY ReadFacts DEF ReadRecorded, SeeChanged, EnsureReady, MarkReady, ResolveCatalogLengths, Reading
  <1>3. WithMaxForMissing(limits) \in Declared /\ StatsLength(limits) \in Nat
    BY <1>2, LengthFacts DEF StatsLength, Declared
  <1>4. ASSUME NEW r \in Attached, Goes(n, r), r.pc \notin {"out", "state", "shape", "ddl"},
               r.pc = "lock" => r.lengths \in Declared,
               r.pc = "apply" => r.todo = Given(Requested[n]),
               q.pc = "reread" => r.pc = "work"
        PROVE  IInv'
    <2>1. NodeOK(n, r, catalog, staged, locker, prefixed)
      BY <1>1, <1>2, <1>4 DEF NodeOK, Reading
    <2> QED BY <1>2, <1>4, <2>1, QuietStep
  <1>5. CASE ReadRecorded(n)
    <2> DEFINE o == OverriddenBy(WithMaxForMissing(limits), Requested[n])
               r == [q EXCEPT !.pc = "apply", !.todo = Given(Requested[n]), !.lengths = o]
    <2>1. o \in Bounds
      <3>1. PICK x \in Nat, y \in Nat : WithMaxForMissing(limits) = [name |-> x, stats |-> y]
        BY <1>3 DEF Declared
      <3>2. o = [name |-> IF Requested[n].name = NOT_GIVEN THEN x ELSE Requested[n].name,
                 stats |-> IF Requested[n].stats = NOT_GIVEN THEN y ELSE Requested[n].stats]
            /\ Requested[n].name \in Nat \cup {NOT_GIVEN} /\ Requested[n].stats \in Nat \cup {NOT_GIVEN}
        BY <1>1, <3>1, OverriddenFacts
      <3> HIDE DEF o
      <3> QED BY <3>2 DEF Bounds
    <2> HIDE DEF o
    <2>2. r \in Attached /\ r.pc = "apply" /\ r.todo = Given(Requested[n])
      BY <1>1, <2>1 DEF Attached, Phase, Attaching, Given
    <2>3. Goes(n, r) /\ q.pc = "recorded"
      BY <1>5 DEF ReadRecorded, ReadMarkers, o
    <2> HIDE DEF r
    <2> QED BY <1>4, <2>2, <2>3
  <1>6. CASE SeeChanged(n)
    <2> DEFINE r == [q EXCEPT !.then = "ending", !.pc = IF Seen(n).shape = "current" THEN "ending" ELSE "resolve"]
    <2>1. r \in Attached /\ r.pc \in {"ending", "resolve"}
      BY <1>1 DEF Attached, Phase, Attaching, Reading
    <2>2. Goes(n, r) /\ q.pc = "changed"
      BY <1>6 DEF SeeChanged, ReadMarkers
    <2> HIDE DEF r
    <2> QED BY <1>4, <2>1, <2>2
  <1>7. CASE EnsureReady(n)
    <2>1. q.pc = "markers" /\ (\/ Goes(n, [q EXCEPT !.pc = "work", !.ready = StatsLength(limits)])
                               \/ Goes(n, [q EXCEPT !.pc = "resolve"]))
      BY <1>7 DEF EnsureReady, ReadMarkers, Proceeds
    <2>2. /\ [q EXCEPT !.pc = "work", !.ready = StatsLength(limits)] \in Attached
          /\ [q EXCEPT !.pc = "work", !.ready = StatsLength(limits)].pc = "work"
          /\ [q EXCEPT !.pc = "resolve"] \in Attached /\ [q EXCEPT !.pc = "resolve"].pc = "resolve"
      BY <1>1, <1>3 DEF Attached, Phase, Reading
    <2> QED BY <1>4, <2>1, <2>2
  <1>8. CASE MarkReady(n)
    <2> DEFINE r == [q EXCEPT !.pc = "work", !.ready = StatsLength(limits)]
    <2>1. r \in Attached /\ r.pc = "work"
      BY <1>1, <1>3 DEF Attached, Phase
    <2>2. Goes(n, r)
      BY <1>8 DEF MarkReady
    <2> HIDE DEF r
    <2> QED BY <1>4, <2>1, <2>2
  <1>9. CASE ResolveCatalogLengths(n)
    <2> DEFINE r == [q EXCEPT !.pc = "lock", !.lengths = WithMaxForMissing(limits)]
               u == [q EXCEPT !.pc = "unused"]
    <2>1. Declared \subseteq Bounds
      BY DEF Declared, Bounds
    <2>2. r \in Attached /\ r.pc = "lock" /\ r.lengths \in Declared /\ u \in Attached /\ u.pc = "unused"
      BY <1>1, <1>3, <2>1 DEF Attached, Phase, Shaping
    <2>3. q.pc = "resolve" /\ (Goes(n, r) \/ Goes(n, u))
      BY <1>9 DEF ResolveCatalogLengths, ReadMarkers, Proceeds
    <2> HIDE DEF r, u
    <2> QED BY <1>4, <2>2, <2>3
  <1> QED BY <1>5, <1>6, <1>7, <1>8, <1>9

\* Whether a catalog is in use is asked of the catalog.
LEMMA ResolveUnusedStep ==
  ASSUME IInv, NEW n \in Node, ResolveUnused(n)
  PROVE  IInv'
  <1> DEFINE q == node[n]
             lengths == IF longest = 0 THEN WithDefaults(Requested[n]) ELSE WithMaxForMissing(NoLimits)
             r == [q EXCEPT !.pc = "lock", !.lengths = lengths]
  <1>1. q \in Attached /\ NodeOK(n, q, catalog, staged, locker, prefixed) /\ q.pc = "unused"
    BY TypeFacts DEF ResolveUnused
  <1>2. lengths \in Declared
    BY TypeFacts, LengthFacts, NothingFacts
  <1> HIDE DEF lengths
  <1>3. r \in Attached /\ r.pc = "lock" /\ r.lengths \in Declared
    <2>1. Declared \subseteq Bounds
      BY DEF Declared, Bounds
    <2> QED BY <1>1, <1>2, <2>1 DEF Attached, Phase, Shaping
  <1>4. Goes(n, r) /\ UNCHANGED <<catalog, staged, locker, longest, prefixed, aux>> /\ shared' \subseteq Node
    BY TypeFacts DEF ResolveUnused, serverVars, lengths
  <1> HIDE DEF r
  <1>5. NodeOK(n, r, catalog, staged, locker, prefixed)
    BY <1>1, <1>3 DEF NodeOK
  <1> QED BY <1>3, <1>4, <1>5, QuietStep

\* What a node reads under the lock is the catalog as it stays until the node writes.
LEMMA ReadShapeStateStep ==
  ASSUME IInv, NEW n \in Node, ReadShapeState(n)
  PROVE  IInv'
  <1> DEFINE q == node[n]
             r == [q EXCEPT !.pc = "shape", !.state = catalog]
  <1>1. q \in Attached /\ NodeOK(n, q, catalog, staged, locker, prefixed) /\ q.pc = "state"
        /\ catalog \in Catalog
    BY TypeFacts DEF ReadShapeState
  <1>2. r \in Attached /\ r.pc = "shape" /\ r.lengths = q.lengths /\ r.state = catalog
    BY <1>1 DEF Attached, Phase, Shaping
  <1>3. Goes(n, r) /\ UNCHANGED <<catalog, staged, locker, longest, prefixed, aux>> /\ shared' \subseteq Node
    BY TypeFacts DEF ReadShapeState, serverVars
  <1> HIDE DEF r
  <1>4. NodeOK(n, r, catalog, staged, locker, prefixed)
    BY <1>1, <1>2 DEF NodeOK
  <1> QED BY <1>2, <1>3, <1>4, QuietStep

\* The lock goes to a node when nobody has it.
LEMMA LockShapeStep ==
  ASSUME IInv, NEW n \in Node, LockShape(n)
  PROVE  IInv'
  <1> DEFINE q == node[n]
             r == [q EXCEPT !.pc = "state"]
  <1>1. q \in Attached /\ NodeOK(n, q, catalog, staged, locker, prefixed) /\ q.pc = "lock"
        /\ locker = NoOne /\ staged = Nothing /\ locker' = n
        /\ UNCHANGED <<catalog, staged, shared, longest, prefixed, aux>>
    BY TypeFacts DEF LockShape
  <1>2. r \in Attached /\ r.pc = "state" /\ r.lengths = q.lengths
    BY <1>1 DEF Attached, Phase, Shaping
  <1>3. Goes(n, r)
    BY DEF LockShape, Proceeds
  <1> HIDE DEF r
  <1>4. NodeOK(n, r, catalog', staged', locker', prefixed')
    BY <1>1, <1>2 DEF NodeOK
  <1>5. DatabaseInv'
    BY <1>1 DEF IInv, DatabaseInv, Sound
  <1>6. \A m \in Node \ {n} : (locker = m <=> locker' = m) /\ (locker = m => staged' = staged)
    BY <1>1, NodeSets
  <1> QED BY <1>1, <1>2, <1>3, <1>4, <1>5, <1>6, TypeFacts, StepInv DEF aux

\* An attach at 1.0 may make an old name, but only while the catalog is at 1.0.
LEMMA CreateStep ==
  ASSUME IInv, NEW n \in Node, Create(n)
  PROVE  IInv'
  <1> DEFINE r == [Detached EXCEPT !.pc = "idle"]
  <1>1. /\ catalog = Nothing /\ catalog' = New /\ Goes(n, r)
        /\ UNCHANGED <<staged, locker, shared, longest, prefixed, aux>>
    BY DEF Create
  <1>2. r \in Attached /\ r.pc = "idle"
    BY NothingFacts DEF Attached, Phase
  <1> HIDE DEF r
  <1>3. staged = Nothing /\ prefixed /\ locker # n
    BY <1>1, TypeFacts DEF IInv, DatabaseInv, NodeOK, Create
  <1>4. DatabaseInv'
    BY <1>1, <1>3, NothingFacts DEF DatabaseInv, Sound
  <1>5. NodeOK(n, r, catalog', staged', locker', prefixed')
    BY <1>1, <1>2, <1>3, NothingFacts DEF NodeOK
  <1> QED BY <1>1, <1>2, <1>4, <1>5, NothingFacts, TypeFacts, StepInv DEF aux

\* Renamed, the inlined tables have the names of 1.1.
LEMMA RenameStep ==
  ASSUME IInv, NEW n \in Node, MigrateInlinedColumnNames(n)
  PROVE  IInv'
  <1> DEFINE q == node[n]
             r == [q EXCEPT !.pc = "ddl"]
  <1>1. /\ q \in Attached /\ NodeOK(n, q, catalog, staged, locker, prefixed) /\ q.pc = "rename"
        /\ prefixed' = TRUE /\ Goes(n, r)
        /\ UNCHANGED <<catalog, staged, locker, shared, longest, aux>>
    BY TypeFacts DEF MigrateInlinedColumnNames, Proceeds
  <1>2. r \in Attached /\ r.pc = "ddl"
    BY <1>1 DEF Attached, Phase, Attaching
  <1> HIDE DEF r
  <1>3. NodeOK(n, r, catalog', staged', locker', prefixed')
    BY <1>1, <1>2 DEF NodeOK
  <1>4. DatabaseInv'
    BY <1>1 DEF IInv, DatabaseInv, Sound
  <1> QED BY <1>1, <1>2, <1>3, <1>4, TypeFacts, StepInv DEF aux

\* The migration's batch brings no stamp of its own, and takes the one away that spoke of less.
LEMMA MigrationBatchStep ==
  ASSUME IInv, NEW n \in Node, MigrationBatch(n)
  PROVE  IInv'
  <1> DEFINE q == node[n]
             r == [q EXCEPT !.pc = IF q.from THEN "recorded" ELSE "changed"]
  <1>1. /\ q \in Attached /\ NodeOK(n, q, catalog, staged, locker, prefixed) /\ q.pc = "ddl"
        /\ locker = NoOne /\ staged = Nothing /\ catalog \in Catalog
        /\ catalog' = (IF catalog.marker THEN catalog ELSE Migrated(catalog)) /\ Goes(n, r)
        /\ UNCHANGED <<staged, locker, shared, longest, prefixed, aux>>
    BY TypeFacts DEF MigrationBatch, Proceeds
  <1>2. r \in Attached /\ r.pc \in {"recorded", "changed"}
    BY <1>1 DEF Attached, Phase, Reading
  <1> HIDE DEF r
  <1>3. catalog # Nothing /\ Sound(catalog) /\ (~Outlive => prefixed)
    BY <1>1 DEF NodeOK, IInv, DatabaseInv
  <1>4. /\ Migrated(catalog) \in Catalog /\ Migrated(catalog).version = "1.1" /\ Migrated(catalog).columns
        /\ Migrated(catalog).name = catalog.name /\ Migrated(catalog).stats = catalog.stats
        /\ Migrated(catalog).shape = (IF catalog.columns THEN catalog.shape ELSE "none")
        /\ Migrated(catalog).keyed = (catalog.keyed /\ catalog.columns)
    BY <1>1 DEF Migrated, Catalog
  <1>5. Sound(Migrated(catalog)) /\ Migrated(catalog) # Nothing
    BY <1>3, <1>4, NothingFacts DEF Sound
  <1>6. catalog' \in Catalog /\ catalog' # Nothing /\ Sound(catalog') /\ catalog'.name = catalog.name
        /\ catalog'.stats = catalog.stats
    BY <1>1, <1>3, <1>4, <1>5
  <1>7. DatabaseInv'
    BY <1>1, <1>3, <1>6 DEF DatabaseInv, Sound
  <1>8. NodeOK(n, r, catalog', staged', locker', prefixed')
    BY <1>1, <1>2, <1>6, NodeSets DEF NodeOK
  <1> QED BY <1>1, <1>2, <1>6, <1>7, <1>8, TypeFacts, StepInv DEF aux

\* Applying limits declares a length, and leaves the rest of the catalog alone.
LEMMA AlterStep ==
  ASSUME IInv, NEW n \in Node, NEW k \in Keys, AlterColumn(n, k)
  PROVE  IInv'
  <1> DEFINE q == node[n]
             done == DeclaredAs(catalog, k, Requested[n][k])
             r == [q EXCEPT !.todo = q.todo \ {k}]
             f == [r EXCEPT !.failed = "limits"]
             u == [Detached EXCEPT !.failed = "limits"]
  <1>1. /\ q \in Attached /\ NodeOK(n, q, catalog, staged, locker, prefixed) /\ q.pc = "apply"
        /\ staged = Nothing /\ catalog \in Catalog /\ Requested[n] \in Bounds /\ k \in q.todo
        /\ UNCHANGED <<staged, locker, shared, longest, prefixed, crashes, rollbacks>>
    BY TypeFacts DEF AlterColumn
  <1>2. (Goes(n, r) \/ Goes(n, f) \/ Goes(n, u)) /\ catalog' \in {catalog, done}
        /\ unrecorded' \in {unrecorded, unrecorded \cup {k}}
    BY DEF AlterColumn
  <1>3. r \in Attached /\ r.pc = "apply" /\ f \in Attached /\ f.pc = "apply" /\ u \in Attached /\ u.pc = "out"
    BY <1>1, NothingFacts DEF Attached
  <1>4. catalog # Nothing /\ Sound(catalog) /\ locker # n
    BY <1>1 DEF NodeOK, IInv, DatabaseInv
  <1>5. Requested[n][k] \in Nat
    <2>1. k \in Given(Requested[n])
      BY <1>1 DEF NodeOK
    <2>2. Requested[n].name \in Nat \cup {NOT_GIVEN} /\ Requested[n].stats \in Nat \cup {NOT_GIVEN}
      BY <1>1 DEF Bounds
    <2>3. k = "name" \/ k = "stats"
      BY DEF Keys
    <2> QED BY <2>1, <2>2, <2>3 DEF Given
  <1>6. /\ done \in Catalog /\ done.version = catalog.version /\ done.columns = catalog.columns
        /\ done.shape = catalog.shape /\ done.keyed = catalog.keyed /\ done.marker = catalog.marker
        /\ catalog.name # Wide => done.name # Wide
        /\ catalog.stats # Wide => done.stats # Wide
    <2>1. PICK length \in Nat : length = Requested[n][k]
      BY <1>5
    <2>2. length # Wide
      BY DEF Wide
    <2>3. done = (IF k = "name" THEN [catalog EXCEPT !.name = length] ELSE [catalog EXCEPT !.stats = length])
      BY <2>1 DEF DeclaredAs
    <2> QED BY <1>1, <2>2, <2>3 DEF Catalog
  <1> HIDE DEF done, r, f, u
  <1>7. /\ catalog' \in Catalog /\ catalog'.version = catalog.version /\ catalog'.columns = catalog.columns
        /\ catalog.name # Wide => catalog'.name # Wide
        /\ catalog.stats # Wide => catalog'.stats # Wide
        /\ Sound(catalog')
    BY <1>1, <1>2, <1>4, <1>6 DEF Sound
  <1>8. catalog' # Nothing
    BY <1>7, NothingFacts DEF Sound
  <1>9. DatabaseInv'
    BY <1>1, <1>4, <1>7, <1>8 DEF DatabaseInv, IInv, Sound
  <1>10. /\ NodeOK(n, r, catalog', staged', locker', prefixed')
         /\ NodeOK(n, f, catalog', staged', locker', prefixed')
         /\ NodeOK(n, u, catalog', staged', locker', prefixed')
    <2>1. q.todo \subseteq Given(Requested[n])
      BY <1>1 DEF NodeOK
    <2>2. r.todo = q.todo \ {k} /\ f.todo = q.todo \ {k}
      BY <1>1 DEF r, f, Attached
    <2> QED BY <1>1, <1>3, <1>4, <1>8, <2>1, <2>2 DEF NodeOK
  <1>11. unrecorded' \subseteq Keys
    BY <1>2, TypeFacts
  <1> QED BY <1>1, <1>2, <1>3, <1>7, <1>8, <1>9, <1>10, <1>11, TypeFacts, StepInv

\* Recording them leaves the columns alone.
LEMMA RecordStep ==
  ASSUME IInv, NEW n \in Node, RecordLimits(n)
  PROVE  IInv'
  <1> DEFINE q == node[n]
             r == [q EXCEPT !.pc = "changed"]
             u == [Detached EXCEPT !.failed = "limits"]
  <1>1. /\ q \in Attached /\ NodeOK(n, q, catalog, staged, locker, prefixed) /\ q.pc = "apply"
        /\ staged = Nothing /\ catalog \in Catalog /\ q.lengths \in Bounds
        /\ UNCHANGED <<staged, locker, shared, longest, prefixed, crashes, rollbacks>>
    BY TypeFacts DEF RecordLimits, Attached
  <1>2. (Goes(n, r) \/ Goes(n, u)) /\ catalog' = [catalog EXCEPT !.limits = q.lengths]
        /\ unrecorded' \subseteq unrecorded
    BY DEF RecordLimits, Records, Proceeds, Fail
  <1>3. r \in Attached /\ r.pc = "changed" /\ u \in Attached /\ u.pc = "out"
    BY <1>1, NothingFacts DEF Attached, Phase, Reading
  <1> HIDE DEF r, u
  <1>4. catalog # Nothing /\ Sound(catalog) /\ locker # n
    BY <1>1 DEF NodeOK, IInv, DatabaseInv
  <1>5. /\ catalog' \in Catalog /\ catalog'.version = catalog.version /\ catalog'.columns = catalog.columns
        /\ catalog'.name = catalog.name /\ catalog'.stats = catalog.stats
        /\ Sound(catalog')
    BY <1>1, <1>2, <1>4 DEF Catalog, Sound
  <1>6. catalog' # Nothing
    BY <1>5, NothingFacts DEF Sound
  <1>7. DatabaseInv'
    BY <1>1, <1>4, <1>5, <1>6 DEF DatabaseInv, IInv, Sound
  <1>8. NodeOK(n, r, catalog', staged', locker', prefixed') /\ NodeOK(n, u, catalog', staged', locker', prefixed')
    BY <1>1, <1>3, <1>4, <1>6 DEF NodeOK
  <1>9. unrecorded' \subseteq Keys
    BY <1>2, TypeFacts
  <1> QED BY <1>1, <1>2, <1>3, <1>5, <1>6, <1>7, <1>8, <1>9, TypeFacts, StepInv

\* What the shaping stages is whole: the lengths it declares are lengths, and a string it found
\* bounded still is.
LEMMA ShapedIsSound ==
  ASSUME NEW c \in Catalog, NEW state \in Catalog, NEW lengths \in Declared, Sound(c), catalog = c,
         state.name # Wide => c.name # Wide, state.stats # Wide => c.stats # Wide
  PROVE  LET s == Shaped(state, lengths)
         IN  /\ s \in Catalog /\ Sound(s) /\ s # Nothing /\ s.version = c.version /\ s.columns = c.columns
             /\ s.name # Wide /\ s.stats # Wide /\ s.shape = "current"
  <1> DEFINE s == Shaped(state, lengths)
  <1>1. /\ lengths.name \in Nat /\ lengths.stats \in Nat /\ lengths \in Bounds
    BY DEF Declared, Bounds
  <1>2. lengths.name # Wide /\ lengths.stats # Wide
    BY <1>1 DEF Wide
  <1>3. /\ s \in Catalog /\ s.version = c.version /\ s.columns = c.columns
        /\ s.name = (IF state.name = Wide THEN lengths.name ELSE c.name)
        /\ s.stats = (IF state.stats # lengths.stats THEN lengths.stats ELSE c.stats)
        /\ s.keyed = TRUE /\ s.shape = "current"
        /\ s.marker = (c.marker \/ (c.columns /\ c.version = "1.1"))
    <2>1. PICK x, y, m : /\ x = (IF state.name = Wide THEN lengths.name ELSE c.name)
                         /\ y = (IF state.stats # lengths.stats THEN lengths.stats ELSE c.stats)
                         /\ m = (c.marker \/ (c.columns /\ c.version = "1.1"))
      OBVIOUS
    <2>2. x \in Nat \cup {Wide} /\ y \in Nat \cup {Wide}
      BY <1>1, <2>1 DEF Catalog
    <2>3. m \in BOOLEAN
      BY <2>1
    <2>4. ASSUME NEW d, d = [c EXCEPT !.name = x, !.stats = y, !.keyed = TRUE, !.shape = "current",
                                      !.limits = lengths, !.marker = m]
          PROVE  /\ d \in Catalog /\ d.version = c.version /\ d.columns = c.columns
                 /\ d.name = x /\ d.stats = y /\ d.keyed = TRUE /\ d.shape = "current" /\ d.marker = m
      BY <1>1, <2>2, <2>3, <2>4 DEF Catalog
    <2>5. s = [c EXCEPT !.name = x, !.stats = y, !.keyed = TRUE, !.shape = "current",
                        !.limits = lengths, !.marker = m]
      BY <2>1 DEF Shaped
    <2> QED BY <2>1, <2>4, <2>5
  <1> HIDE DEF s
  <1>4. s.name # Wide /\ s.stats # Wide
    BY <1>2, <1>3
  <1>5. Sound(s)
    BY <1>3, <1>4 DEF Sound
  <1>6. s # Nothing
    BY <1>5, NothingFacts DEF Sound
  <1> QED BY <1>3, <1>4, <1>5, <1>6 DEF s

\* What is staged is keyed, bounded and stamped as one.
LEMMA EnsureCatalogShapeStep ==
  ASSUME IInv, NEW n \in Node, EnsureCatalogShape(n)
  PROVE  IInv'
  <1> DEFINE q == node[n]
  <1>1. /\ q \in Attached /\ NodeOK(n, q, catalog, staged, locker, prefixed) /\ q.pc = "shape"
        /\ catalog \in Catalog /\ UNCHANGED <<catalog, shared, longest, prefixed, aux>>
    BY TypeFacts DEF EnsureCatalogShape
  <1>2. locker = n /\ staged = Nothing /\ catalog # Nothing /\ Sound(catalog) /\ q.lengths \in Declared
    BY <1>1 DEF NodeOK, IInv, DatabaseInv
  <1>3. CASE Refused(q.state, q.lengths)
    <2> DEFINE r == [Detached EXCEPT !.failed = "shaping"]
               u == [q EXCEPT !.pc = "idle", !.failed = "shaping"]
    <2>1. (Goes(n, r) \/ Goes(n, u)) /\ locker' = NoOne /\ staged' = Nothing
      BY <1>3 DEF EnsureCatalogShape, Fail
    <2>2. r \in Attached /\ r.pc = "out" /\ u \in Attached /\ u.pc = "idle"
      BY <1>1, NothingFacts DEF Attached, Phase
    <2> HIDE DEF r, u
    <2>3. NodeOK(n, r, catalog', staged', locker', prefixed') /\ NodeOK(n, u, catalog', staged', locker', prefixed')
      BY <1>1, <1>2, <2>1, <2>2, NodeSets DEF NodeOK
    <2>4. DatabaseInv'
      BY <1>1, <2>1 DEF DatabaseInv, IInv, Sound
    <2>5. \A m \in Node \ {n} : (locker = m <=> locker' = m) /\ (locker = m => staged' = staged)
      BY <1>2, <2>1, NodeSets
    <2> QED BY <1>1, <2>1, <2>2, <2>3, <2>4, <2>5, NothingFacts, TypeFacts, StepInv DEF aux
  <1>4. CASE ~Refused(q.state, q.lengths)
    <2> DEFINE r == [q EXCEPT !.pc = q.then, !.state = Nothing]
    <2>1. Goes(n, r) /\ locker' = locker /\ staged' = Shaped(q.state, q.lengths)
      BY <1>4 DEF EnsureCatalogShape
    <2>2. r \in Attached /\ r.pc \in {"reread", "ending"}
      BY <1>1, NothingFacts DEF Attached, Phase, Reading, Attaching
    <2> HIDE DEF r
    <2>3. /\ staged' \in Catalog /\ Sound(staged') /\ staged' # Nothing
          /\ staged'.version = catalog.version /\ staged'.columns = catalog.columns
          /\ staged'.name # Wide /\ staged'.stats # Wide
      <3>1. q.state \in Catalog /\ (q.state.name # Wide => catalog.name # Wide)
            /\ (q.state.stats # Wide => catalog.stats # Wide)
        BY <1>1 DEF Attached, NodeOK
      <3> QED BY <1>1, <1>2, <2>1, <3>1, ShapedIsSound
    <2>4. NodeOK(n, r, catalog', staged', locker', prefixed')
      BY <1>1, <1>2, <2>1, <2>2 DEF NodeOK
    <2>5. DatabaseInv'
      BY <1>1, <1>2, <2>3 DEF DatabaseInv, IInv, Sound
    <2>6. \A m \in Node \ {n} : (locker = m <=> locker' = m) /\ (locker = m => staged' = staged)
      BY <1>2, <2>1
    <2>7. locker' # NoOne
      BY <1>2, <2>1, NodeSets
    <2> QED BY <1>1, <2>1, <2>2, <2>3, <2>4, <2>5, <2>6, <2>7, TypeFacts, StepInv DEF aux
  <1> QED BY <1>3, <1>4

\* The end of a transaction takes the lock and what was staged with it.
LEMMA ReleasesFacts ==
  ASSUME IInv, NEW n \in Node, Releases(n)
  PROVE  /\ locker' \in Node \cup {NoOne} /\ locker' # n /\ shared' \subseteq Node
         /\ staged' \in Catalog /\ (staged' = Nothing \/ staged' = staged)
         /\ staged' # Nothing => locker' # NoOne
         /\ \A m \in Node \ {n} : (locker = m <=> locker' = m) /\ (locker = m => staged' = staged)
  BY TypeFacts, NothingFacts, NodeSets DEF Releases

\* What is staged becomes the catalog.
LEMMA CommitStep ==
  ASSUME IInv, NEW n \in Node, Commit(n)
  PROVE  IInv'
  <1> DEFINE q == node[n]
             r == [q EXCEPT !.pc = "idle"]
  <1>1. /\ q \in Attached /\ NodeOK(n, q, catalog, staged, locker, prefixed) /\ q.pc \in {"work", "ending"}
        /\ catalog \in Catalog /\ staged \in Catalog
        /\ catalog' = Seen(n) /\ Releases(n) /\ Goes(n, r) /\ UNCHANGED aux
    BY TypeFacts DEF Commit, Proceeds
  <1>2. r \in Attached /\ r.pc = "idle"
    BY <1>1 DEF Attached, Phase
  <1> HIDE DEF r
  <1>3. catalog # Nothing /\ Sound(catalog)
    BY <1>1 DEF NodeOK, IInv, DatabaseInv
  <1>4. /\ staged # Nothing => /\ Sound(staged) /\ staged.version = catalog.version
                               /\ staged.columns = catalog.columns
                               /\ staged.name # Wide /\ staged.stats # Wide
        /\ ~Outlive /\ catalog.version = "1.1" => prefixed
    BY DEF IInv, DatabaseInv
  <1>5. longest' \in Nat
    BY TypeFacts, RequestTypes DEF Commit
  <1>6. prefixed' \in BOOLEAN /\ (prefixed' = prefixed \/ Outlive \/ ~IsMigrated)
    BY TypeFacts DEF Commit
  <1>7. catalog' \in Catalog /\ catalog' # Nothing /\ Sound(catalog') /\ catalog'.version = catalog.version
        /\ catalog'.columns = catalog.columns
    BY <1>1, <1>3, <1>4 DEF Seen
  <1>8. /\ catalog.name # Wide => catalog'.name # Wide
        /\ catalog.stats # Wide => catalog'.stats # Wide
    <2>1. CASE catalog' = catalog
      BY <2>1
    <2>2. CASE staged # Nothing /\ catalog' = staged
      BY <2>2, <1>1 DEF IInv, DatabaseInv
    <2> QED BY <1>1, <2>1, <2>2 DEF Seen
  <1>9. ~Outlive /\ catalog'.version = "1.1" => prefixed'
    <2> SUFFICES ASSUME ~Outlive, catalog'.version = "1.1" PROVE prefixed'
      OBVIOUS
    <2>1. catalog.version = "1.1"
      BY <1>7
    <2>2. IsMigrated
      BY <2>1 DEF IsMigrated
    <2>3. prefixed' = prefixed
      BY <1>6, <2>2
    <2>4. prefixed
      BY <1>4, <2>1
    <2> QED BY <2>3, <2>4, Zenon
  <1>10. ~Outlive /\ prefixed /\ (\E m \in Node : node[m].pc = "ddl") => prefixed'
    BY <1>6 DEF IsMigrated
  <1>11. DatabaseInv'
    <2>1. staged' # Nothing => /\ Sound(staged') /\ staged'.version = catalog'.version
                               /\ staged'.columns = catalog'.columns
                               /\ staged'.name # Wide /\ staged'.stats # Wide
      BY <1>1, <1>4, <1>7, ReleasesFacts
    <2> QED BY <1>7, <1>9, <2>1 DEF DatabaseInv, Sound
  <1>12. NodeOK(n, r, catalog', staged', locker', prefixed')
    BY <1>1, <1>2, <1>7, ReleasesFacts DEF NodeOK
  <1> QED BY <1>1, <1>2, <1>5, <1>6, <1>7, <1>8, <1>10, <1>11, <1>12, ReleasesFacts, TypeFacts, StepInv DEF aux

\* A transaction rolled back, or a process that dies, leaves the catalog as it was.
LEMMA UndoSteps ==
  ASSUME IInv, NEW n \in Node, Rollback(n) \/ Crash(n)
  PROVE  IInv'
  <1> DEFINE q == node[n]
             r == [q EXCEPT !.pc = "idle"]
  <1>1. /\ q \in Attached /\ NodeOK(n, q, catalog, staged, locker, prefixed) /\ q.pc # "out"
        /\ Releases(n) /\ (Goes(n, r) \/ Goes(n, Detached))
        /\ UNCHANGED <<catalog, longest, prefixed, unrecorded>>
    BY TypeFacts DEF Rollback, Crash, Proceeds
  <1>2. crashes' \in 0..Crashes /\ rollbacks' \in 0..Rollbacks
    BY TypeFacts, BoundTypes DEF Rollback, Crash
  <1>3. r \in Attached /\ r.pc = "idle" /\ Detached \in Attached /\ Detached.pc = "out"
    BY <1>1, NothingFacts DEF Attached, Phase
  <1> HIDE DEF r
  <1>4. NodeOK(n, r, catalog', staged', locker', prefixed')
        /\ NodeOK(n, Detached, catalog', staged', locker', prefixed')
    BY <1>1, <1>3, ReleasesFacts DEF NodeOK
  <1>5. DatabaseInv'
    <2>1. staged' = Nothing \/ staged' = staged
      BY <1>1, ReleasesFacts
    <2> QED BY <1>1, <2>1 DEF DatabaseInv, IInv, Sound
  <1> QED BY <1>1, <1>2, <1>3, <1>4, <1>5, ReleasesFacts, TypeFacts, StepInv

\* Every step of a node keeps the invariant.
LEMMA AdvanceInv ==
  ASSUME IInv, NEW n \in Node, Advance(n)
  PROVE  IInv'
  <1>1. CASE TakeShared(n)
    BY <1>1, TakeSharedStep
  <1>2. CASE Migrate(n) \/ CheckMigrationLimits(n)
    BY <1>2, AttachSteps
  <1>3. CASE MigrateInlinedColumnNames(n)
    BY <1>3, RenameStep
  <1>4. CASE MigrationBatch(n)
    BY <1>4, MigrationBatchStep
  <1>5. CASE (\E k \in Keys : AlterColumn(n, k)) \/ RecordLimits(n)
    BY <1>5, AlterStep, RecordStep
  <1>6. CASE ReadRecorded(n) \/ SeeChanged(n) \/ EnsureReady(n) \/ MarkReady(n) \/ ResolveCatalogLengths(n)
    BY <1>6, ReadingSteps
  <1>7. CASE ResolveUnused(n)
    BY <1>7, ResolveUnusedStep
  <1>8. CASE LockShape(n)
    BY <1>8, LockShapeStep
  <1>9. CASE ReadShapeState(n)
    BY <1>9, ReadShapeStateStep
  <1>10. CASE EnsureCatalogShape(n)
    BY <1>10, EnsureCatalogShapeStep
  <1>11. CASE Commit(n)
    BY <1>11, CommitStep
  <1> QED BY <1>1, <1>2, <1>3, <1>4, <1>5, <1>6, <1>7, <1>8, <1>9, <1>10, <1>11 DEF Advance

\* Every step does.
LEMMA NextInv == IInv /\ [Next]_vars => IInv'
  <1> SUFFICES ASSUME IInv, [Next]_vars PROVE IInv'
    OBVIOUS
  <1>1. CASE UNCHANGED vars
    BY <1>1 DEF vars, serverVars, aux, IInv, TypeOK, DatabaseInv, NodesOK, NodeOK, Sound
  <1>2. ASSUME NEW n \in Node, Create(n) PROVE IInv'
    BY <1>2, CreateStep
  <1>3. ASSUME NEW n \in Node, Attach(n) \/ Begin(n) PROVE IInv'
    BY <1>3, AttachSteps
  <1>4. ASSUME NEW n \in Node, Advance(n) PROVE IInv'
    BY <1>4, AdvanceInv
  <1>5. ASSUME NEW n \in Node, Rollback(n) \/ Crash(n) PROVE IInv'
    BY <1>5, UndoSteps
  <1> QED BY <1>1, <1>2, <1>3, <1>4, <1>5 DEF Next

\* A first catalog that is sound has the invariant.
LEMMA InitInv ==
  ASSUME FirstSound
  PROVE  Init => IInv
  <1> SUFFICES ASSUME Init PROVE IInv
    OBVIOUS
  <1>1. catalog \in Catalog /\ (catalog # Nothing => Sound(catalog))
    BY FirstType DEF Init, FirstSound
  <1>2. staged = Nothing /\ locker = NoOne /\ shared = {} /\ longest \in Nat
        /\ unrecorded = {} /\ crashes = 0 /\ rollbacks = 0
    BY RequestTypes DEF Init
  <1>3. prefixed = (catalog.version # "1.0")
    BY DEF Init
  <1>4. \A n \in Node : node[n] = Detached /\ node[n] \in Attached
    BY NothingFacts DEF Init
  <1>5. node \in [Node -> Attached]
    BY NothingFacts DEF Init
  <1>6. TypeOK
    BY <1>1, <1>2, <1>3, <1>5, NothingFacts, BoundTypes DEF TypeOK, Attached, Phase
  <1>7. DatabaseInv
    BY <1>1, <1>2, <1>3, NothingFacts DEF DatabaseInv
  <1>8. ASSUME NEW n \in Node PROVE NodeOK(n, node[n], catalog, staged, locker, prefixed)
    BY <1>2, <1>4, NothingFacts, NodeSets DEF NodeOK
  <1> QED BY <1>6, <1>7, <1>8 DEF IInv, NodesOK

-----------------------------------------------------------------------------
(* Theorems *)

\* The inductive invariant holds, for any nodes and requests, whatever sound catalog they begin with.
THEOREM Invariance ==
  ASSUME FirstSound
  PROVE  Spec => []IInv
  BY InitInv, NextInv, PTL DEF Spec

\* Every variable keeps its type, and nothing is staged but by the holder of the lock.
THEOREM Typing ==
  ASSUME FirstSound
  PROVE  Spec => []TypeOK
  <1>1. IInv => TypeOK
    BY DEF IInv
  <1> QED BY <1>1, Invariance, PTL

\* The stamp stands for a keyed catalog of bounded strings, however many nodes shape, migrate, roll
\* back or die.
THEOREM StampTruthful ==
  ASSUME FirstSound
  PROVE  Spec => []StampIsTruthful
  <1>1. IInv => StampIsTruthful
    BY DEF IInv, DatabaseInv, Sound, StampIsTruthful
  <1> QED BY <1>1, Invariance, PTL

\* A catalog that says 1.1 has all of 1.1, if no attach at format 1.0 outlives the migration.
THEOREM MigrationWhole ==
  ASSUME FirstSound, ~Outlive
  PROVE  Spec => []MigratedIsWhole
  <1>1. IInv => MigratedIsWhole
    BY DEF IInv, DatabaseInv, Sound, MigratedIsWhole
  <1> QED BY <1>1, Invariance, PTL

-----------------------------------------------------------------------------
(* The shaping *)

\* No migrating attach asks for limits: then nothing but shaping and the migration's batch, which
\* needs the lock, writes the catalog.
NoneNarrows == \A n \in Migrating : ~AnyGiven(Requested[n])

\* What a commit may store fits what an attach declares of an unused catalog.
NamesFit == \A n \in Node, length \in Lengths : Fits(length, WithDefaults(Requested[n]).name)

\* Limits are recorded of bounded strings.
Bounded(c) == c.limits # NoLimits => c.name # Wide
FirstBounded == \A c \in First : Bounded(c)

\* A name fits length b, stored already or to come.
FitsAll(b, stored) == Fits(stored, b) /\ \A length \in Lengths : Fits(length, b)

\* What node n read of the state is the state until it writes, and unbounded names fit what it is
\* about to declare.
ShapingOK(n, q, c, stored) ==
  /\ q.pc = "version" => n \in Migrating
  /\ ~q.from /\ q.pc \notin {"recorded", "apply"} /\ q.failed # "shaping"
  /\ q.pc = "shape" => q.state = c
  /\ q.pc \in {"lock", "state", "shape"} /\ c.name = Wide => FitsAll(q.lengths.name, stored)

ShapingInv ==
  /\ Bounded(catalog)
  /\ \A n \in Node : ShapingOK(n, node[n], catalog, longest)

\* A step of one node that leaves the others what they know keeps the second invariant.
LEMMA ShapingStep ==
  ASSUME IInv, ShapingInv, NEW n \in Node, NEW r, Goes(n, r),
         ShapingOK(n, r, catalog', longest'), Bounded(catalog'),
         longest' \in {longest} \cup Lengths,
         catalog' = catalog \/ \A m \in Node \ {n} : node[m].pc # "shape",
         catalog # Nothing /\ catalog.name # Wide => catalog'.name # Wide
  PROVE  ShapingInv'
  <1>1. \A m \in Node : node'[m] = IF m = n THEN r ELSE node[m]
    BY TypeFacts DEF Goes
  <1>2. ASSUME NEW m \in Node PROVE ShapingOK(m, node'[m], catalog', longest')
    <2>1. CASE m = n
      BY <1>1, <2>1
    <2>2. CASE m # n
      <3>1. node'[m] = node[m] /\ ShapingOK(m, node[m], catalog, longest)
            /\ NodeOK(m, node[m], catalog, staged, locker, prefixed)
        BY <1>1, <2>2, TypeFacts DEF ShapingInv
      <3>2. \A b : FitsAll(b, longest) => FitsAll(b, longest')
        BY DEF FitsAll
      <3>3. node[m].pc = "shape" => node[m].state = catalog'
        BY <2>2, <3>1 DEF ShapingOK
      <3>4. node[m].pc \in {"lock", "state", "shape"} /\ catalog'.name = Wide =>
              FitsAll(node[m].lengths.name, longest')
        BY <3>1, <3>2 DEF ShapingOK, NodeOK
      <3> QED BY <3>1, <3>3, <3>4 DEF ShapingOK
    <2> QED BY <2>1, <2>2
  <1> QED BY <1>2 DEF ShapingInv

\* A step that leaves the catalog and goes nowhere near the shaping.
LEMMA ElsewhereStep ==
  ASSUME IInv, ShapingInv, NEW n \in Node, NEW r, Goes(n, r), UNCHANGED catalog,
         r.pc \notin {"version", "recorded", "apply", "lock", "state", "shape"} \/ r = node[n],
         ~r.from /\ r.failed # "shaping", longest' \in {longest} \cup Lengths
  PROVE  ShapingInv'
  <1>1. ShapingOK(n, r, catalog', longest')
    <2>1. CASE r = node[n]
      <3>1. ShapingOK(n, r, catalog, longest)
        BY <2>1 DEF ShapingInv
      <3>2. \A b : FitsAll(b, longest) => FitsAll(b, longest')
        BY DEF FitsAll
      <3> QED BY <3>1, <3>2 DEF ShapingOK
    <2>2. CASE r # node[n]
      BY <2>2 DEF ShapingOK
    <2> QED BY <2>1, <2>2
  <1>2. Bounded(catalog')
    BY DEF ShapingInv
  <1> QED BY <1>1, <1>2, ShapingStep

\* What the second invariant says of one node.
LEMMA ShapingFacts ==
  ASSUME IInv, ShapingInv, NEW n \in Node
  PROVE  /\ node[n] \in Attached /\ NodeOK(n, node[n], catalog, staged, locker, prefixed)
         /\ ShapingOK(n, node[n], catalog, longest)
         /\ ~node[n].from /\ node[n].failed # "shaping" /\ Bounded(catalog)
  BY TypeFacts DEF ShapingInv, ShapingOK

\* The steps that declare nothing.
LEMMA ShapingElsewhere ==
  ASSUME IInv, ShapingInv, NoneNarrows, NEW n \in Node,
         \/ TakeShared(n) \/ Attach(n) \/ Migrate(n) \/ CheckMigrationLimits(n)
         \/ MigrateInlinedColumnNames(n) \/ SeeChanged(n) \/ Begin(n) \/ EnsureReady(n) \/ MarkReady(n)
         \/ Rollback(n) \/ Crash(n)
  PROVE  ShapingInv'
  <1> DEFINE q == node[n]
  <1>1. q \in Attached /\ ShapingOK(n, q, catalog, longest) /\ ~q.from /\ q.failed # "shaping"
        /\ Bounded(catalog)
    BY ShapingFacts
  <1>2. UNCHANGED <<catalog, longest>>
    BY DEF TakeShared, Attach, Migrate, CheckMigrationLimits, MigrateInlinedColumnNames, SeeChanged, Begin,
           EnsureReady, MarkReady, Rollback, Crash, ReadMarkers, serverVars
  <1>3. CASE TakeShared(n)
    <2>1. Goes(n, q)
      BY <1>3, TypeFacts DEF TakeShared, Goes
    <2> QED BY <1>1, <1>2, <2>1, ElsewhereStep
  <1>4. CASE Attach(n)
    <2> DEFINE r == [Detached EXCEPT !.v10 = n \notin Migrating /\ catalog.version = "1.0",
                       !.pc = IF n \in Migrating /\ catalog.version # "1.1" THEN "version" ELSE "idle"]
    <2>1. r.pc = (IF n \in Migrating /\ catalog.version # "1.1" THEN "version" ELSE "idle")
          /\ r.from = FALSE /\ r.failed = "no"
      BY DEF Detached
    <2>2. Goes(n, r)
      BY <1>4 DEF Attach
    <2> HIDE DEF r
    <2>3. ShapingOK(n, r, catalog', longest')
      BY <2>1 DEF ShapingOK
    <2> QED BY <1>1, <1>2, <2>2, <2>3, ShapingStep
  <1>5. ASSUME NEW r, Goes(n, r), ~r.from, r.failed # "shaping",
               r.pc \notin {"version", "recorded", "apply", "lock", "state", "shape"}
        PROVE  ShapingInv'
    BY <1>2, <1>5, ElsewhereStep
  <1>6. CASE Migrate(n)
    <2>1. ~AnyGiven(Requested[n])
      BY <1>1, <1>6 DEF Migrate, ShapingOK, NoneNarrows
    <2>2. PICK pc \in {"check", "rename"} : Goes(n, [q EXCEPT !.from = FALSE, !.pc = pc])
      BY <1>6, <2>1 DEF Migrate
    <2> DEFINE r == [q EXCEPT !.from = FALSE, !.pc = pc]
    <2>3. r.pc = pc /\ ~r.from /\ r.failed = q.failed
      BY <1>1 DEF Attached
    <2> HIDE DEF r
    <2> QED BY <1>1, <1>5, <2>2, <2>3 DEF r
  <1>7. ASSUME NEW pc \in {"idle", "rename", "ddl", "resolve"}, Proceeds(n, pc)
        PROVE  ShapingInv'
    <2> DEFINE r == [q EXCEPT !.pc = pc]
    <2>1. r.pc = pc /\ ~r.from /\ r.failed = q.failed
      BY <1>1 DEF Attached
    <2>2. Goes(n, r)
      BY <1>7 DEF Proceeds
    <2> HIDE DEF r
    <2> QED BY <1>1, <1>5, <2>1, <2>2
  <1>8. CASE CheckMigrationLimits(n)
    <2> DEFINE u == [Detached EXCEPT !.failed = "limits"]
    <2>1. Proceeds(n, "rename") \/ Goes(n, u)
      BY <1>8 DEF CheckMigrationLimits, Fail
    <2>2. u.pc = "out" /\ ~u.from /\ u.failed = "limits"
      BY DEF Detached
    <2> HIDE DEF u
    <2> QED BY <1>5, <1>7, <2>1, <2>2
  <1>9. CASE MigrateInlinedColumnNames(n)
    BY <1>7, <1>9 DEF MigrateInlinedColumnNames
  <1>10. CASE SeeChanged(n) \/ Begin(n)
    <2>1. PICK then \in {"reread", "ending"}, pc \in {"ending", "resolve", "markers", "work"} :
            Goes(n, [q EXCEPT !.then = then, !.pc = pc])
      BY <1>10 DEF SeeChanged, Begin
    <2> DEFINE r == [q EXCEPT !.then = then, !.pc = pc]
    <2>2. r.pc = pc /\ ~r.from /\ r.failed = q.failed
      BY <1>1 DEF Attached
    <2> HIDE DEF r
    <2> QED BY <1>1, <1>5, <2>1, <2>2 DEF r
  <1>11. CASE EnsureReady(n) \/ MarkReady(n)
    <2>1. CASE Proceeds(n, "resolve")
      BY <1>7, <2>1
    <2>2. CASE ~Proceeds(n, "resolve")
      <3>1. PICK ready : Goes(n, [q EXCEPT !.pc = "work", !.ready = ready])
        BY <1>11, <2>2 DEF EnsureReady, MarkReady
      <3> DEFINE r == [q EXCEPT !.pc = "work", !.ready = ready]
      <3>2. r.pc = "work" /\ ~r.from /\ r.failed = q.failed
        BY <1>1 DEF Attached
      <3> HIDE DEF r
      <3> QED BY <1>1, <1>5, <3>1, <3>2 DEF r
    <2> QED BY <2>1, <2>2
  <1>12. CASE Rollback(n) \/ Crash(n)
    <2>1. Proceeds(n, "idle") \/ Goes(n, Detached)
      BY <1>12 DEF Rollback, Crash
    <2>2. Detached.pc = "out" /\ ~Detached.from /\ Detached.failed = "no"
      BY DEF Detached
    <2> QED BY <1>5, <1>7, <2>1, <2>2
  <1> QED BY <1>3, <1>4, <1>6, <1>8, <1>9, <1>10, <1>11, <1>12

\* Others wait for the lock, or for the migration's batch, before they read the state of the catalog.
LEMMA ShapingWrites ==
  ASSUME IInv, ShapingInv, NEW n \in Node, Create(n) \/ MigrationBatch(n) \/ Commit(n)
  PROVE  ShapingInv'
  <1> DEFINE q == node[n]
  <1>1. /\ q \in Attached /\ NodeOK(n, q, catalog, staged, locker, prefixed)
        /\ ShapingOK(n, q, catalog, longest) /\ ~q.from /\ q.failed # "shaping" /\ Bounded(catalog)
    BY ShapingFacts
  <1>2. \A m \in Node : node[m].pc = "shape" => locker = m
    BY DEF IInv, NodesOK, NodeOK
  <1>3. ASSUME NEW r, Goes(n, r), r.pc \in {"idle", "changed"}, ~r.from, r.failed # "shaping", Bounded(catalog'),
               longest' \in {longest} \cup Lengths,
               catalog' = catalog \/ \A m \in Node \ {n} : node[m].pc # "shape",
               catalog # Nothing /\ catalog.name # Wide => catalog'.name # Wide
        PROVE  ShapingInv'
    <2>1. ShapingOK(n, r, catalog', longest')
      BY <1>3 DEF ShapingOK
    <2> QED BY <1>3, <2>1, ShapingStep
  <1>4. CASE Create(n)
    <2>1. catalog = Nothing /\ catalog' = New /\ longest' = longest /\ Goes(n, [Detached EXCEPT !.pc = "idle"])
      BY <1>4 DEF Create
    <2>2. \A m \in Node : node[m].pc = "out"
      BY <2>1 DEF IInv, NodesOK, NodeOK
    <2>3. Bounded(New)
      BY DEF Bounded, New
    <2> DEFINE r == [Detached EXCEPT !.pc = "idle"]
    <2>4. r.pc = "idle" /\ ~r.from /\ r.failed = "no"
      BY DEF Detached
    <2> HIDE DEF r
    <2> QED BY <1>3, <2>1, <2>2, <2>3, <2>4 DEF r
  <1>5. CASE MigrationBatch(n)
    <2> DEFINE r == [q EXCEPT !.pc = "changed"]
    <2>1. /\ catalog' = (IF catalog.marker THEN catalog ELSE Migrated(catalog)) /\ locker = NoOne
          /\ longest' = longest /\ Goes(n, r)
      BY <1>1, <1>5 DEF MigrationBatch, Proceeds
    <2>2. r.pc = "changed" /\ ~r.from /\ r.failed = q.failed
      BY <1>1 DEF Attached
    <2>3. catalog'.name = catalog.name /\ catalog'.limits = catalog.limits
      BY <2>1, TypeFacts DEF Migrated, Catalog
    <2>4. \A m \in Node : node[m].pc # "shape"
      BY <1>2, <2>1, NodeSets
    <2> HIDE DEF r
    <2> QED BY <1>1, <1>3, <2>1, <2>2, <2>3, <2>4 DEF Bounded
  <1>6. CASE Commit(n)
    <2> DEFINE r == [q EXCEPT !.pc = "idle"]
    <2>1. /\ catalog' = Seen(n) /\ longest' \in {longest} \cup Lengths /\ Goes(n, r)
      BY <1>6 DEF Commit, Proceeds
    <2>2. r.pc = "idle" /\ ~r.from /\ r.failed = q.failed
      BY <1>1 DEF Attached
    <2>3. catalog' = catalog \/ (catalog' = staged /\ staged.name # Wide /\ locker = n)
      BY <2>1 DEF Seen, IInv, DatabaseInv
    <2>4. Bounded(catalog') /\ (catalog # Nothing /\ catalog.name # Wide => catalog'.name # Wide)
      BY <1>1, <2>3 DEF Bounded
    <2>5. catalog' = catalog \/ \A m \in Node \ {n} : node[m].pc # "shape"
      BY <1>2, <2>3
    <2> HIDE DEF r
    <2> QED BY <1>1, <1>3, <2>1, <2>2, <2>4, <2>5
  <1> QED BY <1>4, <1>5, <1>6

\* The shaping reads, waits and writes with lengths that the names stored fit.
LEMMA ShapingSteps ==
  ASSUME IInv, ShapingInv, NamesFit, NEW n \in Node,
         \/ ReadRecorded(n) \/ (\E k \in Keys : AlterColumn(n, k)) \/ RecordLimits(n)
         \/ ResolveCatalogLengths(n) \/ ResolveUnused(n) \/ LockShape(n) \/ ReadShapeState(n)
         \/ EnsureCatalogShape(n)
  PROVE  ShapingInv'
  <1> DEFINE q == node[n]
  <1>1. /\ q \in Attached /\ NodeOK(n, q, catalog, staged, locker, prefixed)
        /\ ShapingOK(n, q, catalog, longest) /\ ~q.from /\ q.failed # "shaping" /\ Bounded(catalog)
        /\ Requested[n] \in Bounds /\ catalog \in Catalog
    BY ShapingFacts, TypeFacts
  <1>2. ~ReadRecorded(n) /\ ~(\E k \in Keys : AlterColumn(n, k)) /\ ~RecordLimits(n)
    BY <1>1 DEF ReadRecorded, ReadMarkers, AlterColumn, RecordLimits, ShapingOK
  <1>3. UNCHANGED <<catalog, longest>>
    BY <1>2 DEF ReadMarkers, ResolveCatalogLengths, ResolveUnused, LockShape, ReadShapeState, EnsureCatalogShape, serverVars
  <1>4. \A stored \in Nat : FitsAll(MAX, stored)
    BY DEF FitsAll, Fits
  <1>5. ASSUME NEW r, Goes(n, r), ~r.from, r.failed # "shaping", r.pc \in {"lock", "state", "shape"},
               r.pc = "shape" => r.state = catalog,
               catalog.name = Wide => FitsAll(r.lengths.name, longest)
        PROVE  ShapingInv'
    <2>1. ShapingOK(n, r, catalog', longest')
      BY <1>3, <1>5 DEF ShapingOK
    <2> QED BY <1>1, <1>3, <1>5, <2>1, ShapingStep
  <1>6. ASSUME NEW lengths, Goes(n, [q EXCEPT !.pc = "lock", !.lengths = lengths]),
               catalog.name = Wide => FitsAll(lengths.name, longest)
        PROVE  ShapingInv'
    <2> DEFINE r == [q EXCEPT !.pc = "lock", !.lengths = lengths]
    <2>1. r.pc = "lock" /\ ~r.from /\ r.failed = q.failed /\ r.lengths = lengths
      BY <1>1 DEF Attached
    <2> HIDE DEF r
    <2> QED BY <1>1, <1>5, <1>6, <2>1 DEF r
  <1>7. CASE ResolveCatalogLengths(n)
    <2>1. Seen(n) = catalog
      BY <1>1, <1>7 DEF ResolveCatalogLengths, ReadMarkers, NodeOK, Seen
    <2>2. CASE Goes(n, [q EXCEPT !.pc = "lock", !.lengths = WithMaxForMissing(catalog.limits)])
      <3>1. catalog.name = Wide => catalog.limits = NoLimits
        BY <1>1 DEF Bounded
      <3>2. NoLimits \in Bounds /\ NoLimits.name = NOT_GIVEN
        BY NothingFacts DEF NoLimits
      <3>3. catalog.name = Wide => WithMaxForMissing(catalog.limits).name = MAX
        BY <3>1, <3>2, LengthFacts
      <3> QED BY <1>4, <1>6, <2>2, <3>3, TypeFacts
    <2>3. CASE Proceeds(n, "unused")
      <3> DEFINE r == [q EXCEPT !.pc = "unused"]
      <3>1. r.pc = "unused" /\ ~r.from /\ r.failed = q.failed
        BY <1>1 DEF Attached
      <3>2. Goes(n, r)
        BY <2>3 DEF Proceeds
      <3> HIDE DEF r
      <3> QED BY <1>1, <1>3, <3>1, <3>2, ElsewhereStep
    <2> QED BY <1>7, <2>1, <2>2, <2>3 DEF ResolveCatalogLengths
  <1>8. CASE ResolveUnused(n)
    <2> DEFINE lengths == IF longest = 0 THEN WithDefaults(Requested[n]) ELSE WithMaxForMissing(NoLimits)
    <2>1. Goes(n, [q EXCEPT !.pc = "lock", !.lengths = lengths])
      BY <1>8 DEF ResolveUnused
    <2>2. CASE longest = 0
      <3>1. WithDefaults(Requested[n]).name \in Nat
        BY <1>1, LengthFacts DEF Declared
      <3>2. FitsAll(WithDefaults(Requested[n]).name, 0)
        BY <3>1 DEF NamesFit, FitsAll, Fits
      <3> QED BY <1>6, <2>1, <2>2, <3>2
    <2>3. CASE longest # 0
      <3>1. WithMaxForMissing(NoLimits).name = MAX
        BY NothingFacts, LengthFacts DEF NoLimits
      <3> QED BY <1>4, <1>6, <2>1, <2>3, <3>1, TypeFacts
    <2> QED BY <2>2, <2>3
  <1>9. CASE LockShape(n)
    <2> DEFINE r == [q EXCEPT !.pc = "state"]
    <2>1. r.pc = "state" /\ ~r.from /\ r.failed = q.failed /\ r.lengths = q.lengths
      BY <1>1 DEF Attached
    <2>2. Goes(n, r) /\ q.pc = "lock"
      BY <1>9 DEF LockShape, Proceeds
    <2> HIDE DEF r
    <2> QED BY <1>1, <1>5, <2>1, <2>2 DEF ShapingOK
  <1>10. CASE ReadShapeState(n)
    <2> DEFINE r == [q EXCEPT !.pc = "shape", !.state = catalog]
    <2>1. r.pc = "shape" /\ ~r.from /\ r.failed = q.failed /\ r.lengths = q.lengths /\ r.state = catalog
      BY <1>1 DEF Attached
    <2>2. Goes(n, r) /\ q.pc = "state"
      BY <1>10 DEF ReadShapeState
    <2> HIDE DEF r
    <2> QED BY <1>1, <1>5, <2>1, <2>2 DEF ShapingOK
  <1>11. CASE EnsureCatalogShape(n)
    <2>1. q.state = catalog /\ (catalog.name = Wide => Fits(longest, q.lengths.name))
      BY <1>1, <1>11 DEF EnsureCatalogShape, ShapingOK, FitsAll
    <2>2. ~Refused(q.state, q.lengths)
      BY <2>1 DEF Refused
    <2> DEFINE r == [q EXCEPT !.pc = q.then, !.state = Nothing]
    <2>3. Goes(n, r)
      BY <1>11, <2>2 DEF EnsureCatalogShape
    <2>4. r.pc \in {"reread", "ending"} /\ ~r.from /\ r.failed = q.failed
      BY <1>1 DEF Attached
    <2> HIDE DEF r
    <2> QED BY <1>1, <1>3, <2>3, <2>4, ElsewhereStep
  <1> QED BY <1>2, <1>7, <1>8, <1>9, <1>10, <1>11

\* Every step keeps the second invariant.
LEMMA ShapingNext ==
  ASSUME NoneNarrows, NamesFit
  PROVE  IInv /\ ShapingInv /\ [Next]_vars => ShapingInv'
  <1> SUFFICES ASSUME IInv, ShapingInv, [Next]_vars PROVE ShapingInv'
    OBVIOUS
  <1>1. CASE UNCHANGED vars
    BY <1>1 DEF vars, serverVars, aux, ShapingInv, ShapingOK, Bounded, FitsAll
  <1>2. ASSUME NEW n \in Node,
               Create(n) \/ Attach(n) \/ Begin(n) \/ Advance(n) \/ Rollback(n) \/ Crash(n)
        PROVE  ShapingInv'
    BY <1>2, ShapingWrites, ShapingSteps, ShapingElsewhere DEF Advance
  <1> QED BY <1>1, <1>2 DEF Next

\* Where no migrating attach asks for limits, and what commits store fits the lengths declared of
\* an unused catalog, the second node to shape finds what the first committed: none is refused.
THEOREM NoShapingRefused ==
  ASSUME FirstSound, FirstBounded, NoneNarrows, NamesFit
  PROVE  Spec => []NoShapingFails
  <1>1. Init => ShapingInv
    <2> SUFFICES ASSUME Init PROVE ShapingInv
      OBVIOUS
    <2>1. Bounded(catalog)
      BY DEF Init, FirstBounded
    <2>2. \A n \in Node : node[n] = Detached
      BY DEF Init
    <2>3. Detached.pc = "out" /\ Detached.from = FALSE /\ Detached.failed = "no"
      BY DEF Detached
    <2> QED BY <2>1, <2>2, <2>3 DEF ShapingInv, ShapingOK
  <1>2. ShapingInv => NoShapingFails
    BY DEF ShapingInv, ShapingOK, NoShapingFails
  <1> QED BY <1>1, <1>2, ShapingNext, Invariance, PTL DEF Spec

-----------------------------------------------------------------------------
(* The limits *)

\* Node n is about to write what it has read or checked before: the lengths of the strings, or the limits.
Busy(n) ==
  \/ node[n].pc \in {"apply", "unused", "lock", "state", "shape"} \/ locker = n
  \/ node[n].from /\ node[n].pc \in {"check", "rename", "ddl", "recorded"}

\* It has asked nothing of the catalog's limits yet.
Waits(n) == node[n].pc \in {"out", "idle", "markers", "version"} /\ node[n].ready = NotReady

\* One node at a time shapes or narrows a catalog, and the others come to it before or after.
Alone == \A m, n \in Node : m # n /\ Busy(m) => Waits(n)

\* Of the columns u that attaches altered and recorded no limits of, the ones that no shaping has
\* declared again: it does so of a statistic, never of a name.
Loose(c, u) == {k \in u : k = "name" \/ c.shape # "current"}

\* The strings that are bounded have these lengths, unless they are loose.
Matches(c, lengths, u) ==
  /\ c.name # Wide => c.name = lengths.name \/ "name" \in Loose(c, u)
  /\ c.stats # Wide => c.stats = lengths.stats \/ "stats" \in Loose(c, u)

\* What is recorded is what is declared, MAX where nothing is recorded.
Recorded(c, u) ==
  /\ Matches(c, WithMaxForMissing(c.limits), u)
  /\ c.shape = "current" => c.limits \in Declared

\* A catalog whose strings are bounded and of whose limits nothing is recorded is in use.
InUse(c, stored, u) ==
  c.limits = NoLimits /\ (\/ c.name # Wide /\ "name" \notin Loose(c, u)
                          \/ c.stats # Wide /\ "stats" \notin Loose(c, u)) => stored # 0

\* What format 1.1 adds is not there before.
Plain(c, u) == c.version = "1.0" => ~c.columns /\ u = {}

\* The server holds what releases leave: limits as they are declared, or none in a catalog in use.
FirstRecorded ==
  \A c \in First : Plain(c, {}) /\ Recorded(c, {}) /\ \A stored \in Stored : InUse(c, stored, {})

\* A statistic that an attach cuts at this length can be stored, unless its column is loose.
Keeps(ready, c, u) ==
  c.stats \in {MAX, Wide} \/ (ready # MAX /\ ready <= c.stats) \/ "stats" \in Loose(c, u)

\* A migration from 1.0 has begun with nothing loose, and has altered what is not left to alter.
MigrationOK(n, q, c, stored, u) ==
  /\ q.pc \in {"recorded", "apply"} => q.from /\ c.version = "1.1" /\ c.shape # "current"
  /\ q.from /\ q.pc \in {"check", "rename", "ddl"} => c.version = "1.0"
  /\ q.from /\ q.pc \in {"rename", "ddl", "recorded", "apply"} => Fits(stored, Requested[n].name)
  /\ q.pc = "recorded" => u = {}
  /\ q.pc = "apply" => /\ u = Given(Requested[n]) \ q.todo
                       /\ "name" \in u => c.name = Requested[n].name
                       /\ "stats" \in u => c.stats = Requested[n].stats
                       /\ q.lengths = OverriddenBy(WithMaxForMissing(c.limits), Requested[n])

\* What node n may rely on, with the catalog c, staged s, the lock held by l, and names of this length.
LimitsOK(n, q, c, s, l, stored, u) ==
  /\ q.pc \notin {"idle", "work"} => q.ready = NotReady
  /\ q.ready # NotReady => Keeps(q.ready, c, u) /\ (l = n /\ s # Nothing => Keeps(q.ready, s, u))
  /\ MigrationOK(n, q, c, stored, u)
  /\ q.pc = "unused" => c.limits = NoLimits
  /\ q.pc \in {"lock", "state", "shape"} => Matches(c, q.lengths, u)
  /\ q.pc = "shape" => q.state = c
  /\ q.pc = "reread" => l = n /\ s # Nothing

LimitsDatabase ==
  /\ Recorded(catalog, unrecorded) /\ InUse(catalog, longest, unrecorded) /\ Plain(catalog, unrecorded)
  /\ staged # Nothing => /\ Recorded(staged, unrecorded) /\ staged.shape = "current"
                         /\ Matches(catalog, staged.limits, unrecorded)

LimitsInv ==
  /\ LimitsDatabase
  /\ \A n \in Node : LimitsOK(n, node[n], catalog, staged, locker, longest, unrecorded)

\* What the invariants say of one node.
LEMMA LimitsFacts ==
  ASSUME IInv, LimitsInv, NEW n \in Node
  PROVE  /\ node[n] \in Attached /\ NodeOK(n, node[n], catalog, staged, locker, prefixed)
         /\ LimitsOK(n, node[n], catalog, staged, locker, longest, unrecorded)
         /\ MigrationOK(n, node[n], catalog, longest, unrecorded)
         /\ Requested[n] \in Bounds /\ catalog \in Catalog /\ staged \in Catalog
         /\ Recorded(catalog, unrecorded) /\ InUse(catalog, longest, unrecorded) /\ Plain(catalog, unrecorded)
         /\ staged # Nothing => /\ Recorded(staged, unrecorded) /\ staged.shape = "current"
                                /\ Matches(catalog, staged.limits, unrecorded)
  BY TypeFacts DEF LimitsInv, LimitsDatabase, LimitsOK

\* A step of node n keeps the invariant if it keeps n's part and the database's: while another is
\* busy n writes nothing, and while n is busy no other is ready.
LEMMA LimitsStep ==
  ASSUME IInv, LimitsInv, Alone, NEW n \in Node, NEW r, Goes(n, r), LimitsDatabase',
         LimitsOK(n, r, catalog', staged', locker', longest', unrecorded'),
         Waits(n) /\ catalog # Nothing => UNCHANGED <<catalog, longest, unrecorded>>,
         \/ Busy(n) \/ catalog = Nothing
         \/ /\ catalog'.stats = catalog.stats /\ unrecorded' = unrecorded
            /\ catalog'.shape = "current" => catalog.shape = "current",
         \A m \in Node \ {n} : (locker = m <=> locker' = m) /\ (locker = m => staged' = staged)
  PROVE  LimitsInv'
  <1>1. \A m \in Node : node'[m] = IF m = n THEN r ELSE node[m]
    BY TypeFacts DEF Goes
  <1>2. ASSUME NEW m \in Node
        PROVE  LimitsOK(m, node'[m], catalog', staged', locker', longest', unrecorded')
    <2>1. CASE m = n
      BY <1>1, <2>1
    <2>2. CASE m # n
      <3> DEFINE q == node[m]
      <3>1. node'[m] = q /\ LimitsOK(m, q, catalog, staged, locker, longest, unrecorded)
            /\ NodeOK(m, q, catalog, staged, locker, prefixed)
        BY <1>1, <2>2, LimitsFacts
      <3>2. CASE catalog = Nothing
        BY <3>1, <3>2 DEF LimitsOK, MigrationOK, NodeOK
      <3>3. CASE catalog # Nothing
        <4>1. Busy(m) => UNCHANGED <<catalog, longest, unrecorded>>
          BY <2>2, <3>3 DEF Alone
        <4>2. q.ready # NotReady => /\ catalog'.stats = catalog.stats /\ unrecorded' = unrecorded
                                    /\ catalog'.shape = "current" => catalog.shape = "current"
          BY <2>2, <3>3 DEF Alone, Waits
        <4>3. locker = m <=> locker' = m
          BY <2>2
        <4>4. locker = m => staged' = staged
          BY <2>2
        <4>5. q.ready # NotReady => /\ Keeps(q.ready, catalog', unrecorded')
                                    /\ locker' = m /\ staged' # Nothing => Keeps(q.ready, staged', unrecorded')
          BY <3>1, <4>2, <4>3, <4>4 DEF LimitsOK, Keeps, Loose
        <4>6. q.pc \in {"apply", "unused", "lock", "state", "shape"} => UNCHANGED <<catalog, longest, unrecorded>>
          BY <4>1 DEF Busy
        <4>7. q.from /\ q.pc \in {"check", "rename", "ddl", "recorded"} =>
                UNCHANGED <<catalog, longest, unrecorded>>
          BY <4>1 DEF Busy
        <4>8. MigrationOK(m, q, catalog', longest', unrecorded')
          BY <3>1, <4>6, <4>7 DEF LimitsOK, MigrationOK
        <4> QED BY <3>1, <4>3, <4>4, <4>5, <4>6, <4>8 DEF LimitsOK
      <3> QED BY <3>2, <3>3
    <2> QED BY <2>1, <2>2
  <1> QED BY <1>2 DEF LimitsInv

\* A step that writes none of what the limits are about.
LEMMA LimitsQuiet ==
  ASSUME IInv, LimitsInv, Alone, NEW n \in Node, NEW r, Goes(n, r),
         UNCHANGED <<catalog, staged, locker, longest, unrecorded>>,
         LimitsOK(n, r, catalog, staged, locker, longest, unrecorded)
  PROVE  LimitsInv'
  <1>1. LimitsDatabase'
    BY DEF LimitsInv, LimitsDatabase, Recorded, Matches, InUse, Plain, Loose
  <1> QED BY <1>1, LimitsStep

\* The steps of an attach up to its migration's batch.
LEMMA LimitsAttach ==
  ASSUME IInv, LimitsInv, Alone, NEW n \in Node,
         \/ TakeShared(n) \/ Attach(n) \/ Migrate(n) \/ CheckMigrationLimits(n)
         \/ MigrateInlinedColumnNames(n) \/ Begin(n) \/ SeeChanged(n)
  PROVE  LimitsInv'
  <1> DEFINE q == node[n]
  <1>1. /\ q \in Attached /\ LimitsOK(n, q, catalog, staged, locker, longest, unrecorded)
        /\ MigrationOK(n, q, catalog, longest, unrecorded)
    BY LimitsFacts
  <1>2. UNCHANGED <<catalog, staged, locker, longest, unrecorded>>
    BY DEF TakeShared, Attach, Migrate, CheckMigrationLimits, MigrateInlinedColumnNames, Begin, SeeChanged,
           ReadMarkers, serverVars, aux
  <1>3. CASE TakeShared(n)
    <2>1. Goes(n, q)
      BY <1>3, TypeFacts DEF TakeShared, Goes
    <2> QED BY <1>1, <1>2, <2>1, LimitsQuiet
  <1>4. CASE Attach(n)
    <2> DEFINE r == [Detached EXCEPT !.v10 = n \notin Migrating /\ catalog.version = "1.0",
                       !.pc = IF n \in Migrating /\ catalog.version # "1.1" THEN "version" ELSE "idle"]
    <2>1. r.pc \in {"version", "idle"} /\ r.ready = NotReady
      BY DEF Detached
    <2>2. Goes(n, r)
      BY <1>4 DEF Attach
    <2> HIDE DEF r
    <2>3. LimitsOK(n, r, catalog, staged, locker, longest, unrecorded)
      BY <2>1 DEF LimitsOK, MigrationOK
    <2> QED BY <1>2, <2>2, <2>3, LimitsQuiet
  <1>5. CASE Migrate(n)
    <2> DEFINE from == catalog.version = "1.0"
               r == [q EXCEPT !.from = from /\ AnyGiven(Requested[n]), !.pc = IF from THEN "check" ELSE "rename"]
    <2>1. r.pc \in {"check", "rename"} /\ r.ready = q.ready /\ (r.pc = "rename" => ~r.from)
          /\ (r.pc = "check" => catalog.version = "1.0")
      BY <1>1 DEF Attached
    <2>2. Goes(n, r) /\ q.pc = "version"
      BY <1>5 DEF Migrate
    <2> HIDE DEF r
    <2>3. LimitsOK(n, r, catalog, staged, locker, longest, unrecorded)
      BY <1>1, <2>1, <2>2 DEF LimitsOK, MigrationOK
    <2> QED BY <1>2, <2>2, <2>3, LimitsQuiet
  <1>6. CASE CheckMigrationLimits(n)
    <2> DEFINE r == [q EXCEPT !.pc = "rename"]
               u == [Detached EXCEPT !.failed = "limits"]
    <2>1. q.pc = "check" /\ ((Goes(n, r) /\ Fits(longest, Requested[n].name)) \/ Goes(n, u))
      BY <1>6 DEF CheckMigrationLimits, Proceeds, Fail
    <2>2. r.pc = "rename" /\ r.ready = q.ready /\ r.from = q.from /\ u.pc = "out" /\ u.ready = NotReady
      BY <1>1 DEF Attached, Detached
    <2> HIDE DEF r, u
    <2>3. LimitsOK(n, u, catalog, staged, locker, longest, unrecorded)
      BY <2>2 DEF LimitsOK, MigrationOK
    <2>4. Fits(longest, Requested[n].name) => LimitsOK(n, r, catalog, staged, locker, longest, unrecorded)
      BY <1>1, <2>1, <2>2 DEF LimitsOK, MigrationOK
    <2> QED BY <1>2, <2>1, <2>3, <2>4, LimitsQuiet
  <1>7. CASE MigrateInlinedColumnNames(n)
    <2> DEFINE r == [q EXCEPT !.pc = "ddl"]
    <2>1. r.pc = "ddl" /\ r.ready = q.ready /\ r.from = q.from
      BY <1>1 DEF Attached
    <2>2. Goes(n, r) /\ q.pc = "rename"
      BY <1>7 DEF MigrateInlinedColumnNames, Proceeds
    <2> HIDE DEF r
    <2>3. LimitsOK(n, r, catalog, staged, locker, longest, unrecorded)
      BY <1>1, <2>1, <2>2 DEF LimitsOK, MigrationOK
    <2> QED BY <1>2, <2>2, <2>3, LimitsQuiet
  <1>8. CASE Begin(n)
    <2> DEFINE r == [q EXCEPT !.then = "reread", !.pc = IF q.ready = NotReady THEN "markers" ELSE "work"]
    <2>1. r.pc \in {"markers", "work"} /\ r.ready = q.ready /\ (r.pc = "markers" => r.ready = NotReady)
      BY <1>1 DEF Attached
    <2>2. Goes(n, r)
      BY <1>8 DEF Begin
    <2> HIDE DEF r
    <2>3. LimitsOK(n, r, catalog, staged, locker, longest, unrecorded)
      BY <1>1, <2>1 DEF LimitsOK, MigrationOK
    <2> QED BY <1>2, <2>2, <2>3, LimitsQuiet
  <1>9. CASE SeeChanged(n)
    <2> DEFINE r == [q EXCEPT !.then = "ending", !.pc = IF Seen(n).shape = "current" THEN "ending" ELSE "resolve"]
    <2>1. r.pc \in {"ending", "resolve"} /\ r.ready = q.ready
      BY <1>1 DEF Attached
    <2>2. Goes(n, r) /\ q.pc = "changed"
      BY <1>9 DEF SeeChanged, ReadMarkers
    <2> HIDE DEF r
    <2>3. LimitsOK(n, r, catalog, staged, locker, longest, unrecorded)
      BY <1>1, <2>1, <2>2 DEF LimitsOK, MigrationOK
    <2> QED BY <1>2, <2>2, <2>3, LimitsQuiet
  <1> QED BY <1>3, <1>4, <1>5, <1>6, <1>7, <1>8, <1>9

\* What is recorded of bounded strings is what they are declared with.
LEMMA RecordedFacts ==
  ASSUME NEW c \in Catalog, NEW u, Recorded(c, u), c.shape = "current" => c.name # Wide /\ c.stats # Wide
  PROVE  /\ c.limits \in Bounds /\ WithMaxForMissing(c.limits) \in Declared
         /\ Matches(c, WithMaxForMissing(c.limits), u)
         /\ c.shape = "current" => /\ WithMaxForMissing(c.limits).name = c.limits.name
                                   /\ c.limits.stats = c.stats /\ (c.limits.name = c.name \/ "name" \in u)
                                   /\ StatsLength(c.limits) = c.stats /\ c.limits # NoLimits
         /\ Keeps(StatsLength(c.limits), c, u)
  <1>1. c.limits \in Bounds /\ c.name \in Nat \cup {Wide} /\ c.stats \in Nat \cup {Wide}
    BY DEF Catalog
  <1>2. /\ WithMaxForMissing(c.limits) \in Declared
        /\ WithMaxForMissing(c.limits).name = (IF c.limits.name = NOT_GIVEN THEN MAX ELSE c.limits.name)
        /\ WithMaxForMissing(c.limits).stats = (IF c.limits.stats = NOT_GIVEN THEN MAX ELSE c.limits.stats)
    BY <1>1, LengthFacts
  <1>3. Matches(c, WithMaxForMissing(c.limits), u) /\ (c.shape = "current" => c.limits \in Declared)
    BY DEF Recorded
  <1>4. ASSUME c.shape = "current"
        PROVE  /\ WithMaxForMissing(c.limits).name = c.limits.name
               /\ c.limits.stats = c.stats /\ (c.limits.name = c.name \/ "name" \in u)
               /\ StatsLength(c.limits) = c.stats /\ c.limits # NoLimits
    <2>1. c.limits.name \in Nat /\ c.limits.stats \in Nat
      BY <1>3, <1>4 DEF Declared
    <2>2. NOT_GIVEN \notin Nat /\ NoLimits.name = NOT_GIVEN
      BY DEF NOT_GIVEN, NoLimits
    <2>3. WithMaxForMissing(c.limits).name = c.limits.name /\ WithMaxForMissing(c.limits).stats = c.limits.stats
      BY <1>2, <2>1, <2>2
    <2>4. c.name # Wide /\ c.stats # Wide /\ "stats" \notin Loose(c, u) /\ ("name" \in Loose(c, u) => "name" \in u)
      BY <1>4 DEF Loose
    <2> QED BY <1>3, <2>1, <2>2, <2>3, <2>4 DEF Matches, StatsLength
  <1>5. Keeps(StatsLength(c.limits), c, u)
    <2>1. c.stats # Wide => c.stats = StatsLength(c.limits) \/ "stats" \in Loose(c, u)
      BY <1>3 DEF Matches, StatsLength
    <2> QED BY <1>1, <2>1 DEF Keeps
  <1> QED BY <1>1, <1>2, <1>3, <1>4, <1>5

\* The steps that read what is recorded, and the one that takes the lock.
LEMMA LimitsReads ==
  ASSUME IInv, LimitsInv, Alone, NEW n \in Node,
         \/ ReadRecorded(n) \/ EnsureReady(n) \/ MarkReady(n) \/ ResolveCatalogLengths(n)
         \/ ResolveUnused(n) \/ LockShape(n) \/ ReadShapeState(n)
  PROVE  LimitsInv'
  <1> DEFINE q == node[n]
  <1>1. /\ q \in Attached /\ LimitsOK(n, q, catalog, staged, locker, longest, unrecorded)
        /\ NodeOK(n, q, catalog, staged, locker, prefixed) /\ MigrationOK(n, q, catalog, longest, unrecorded)
        /\ catalog \in Catalog /\ staged \in Catalog /\ Recorded(catalog, unrecorded) /\ InUse(catalog, longest, unrecorded)
    BY LimitsFacts
  <1>2. UNCHANGED <<catalog, longest, unrecorded>> /\ (~LockShape(n) => UNCHANGED <<staged, locker>>)
    BY DEF ReadRecorded, EnsureReady, MarkReady, ResolveCatalogLengths, ResolveUnused, ReadShapeState, LockShape,
           ReadMarkers, serverVars, aux
  <1>3. catalog # Nothing => Sound(catalog)
    BY DEF IInv, DatabaseInv
  <1>4. catalog.shape = "current" => catalog.name # Wide /\ catalog.stats # Wide
    BY <1>3 DEF Sound, Nothing, New
  <1>5. /\ Matches(catalog, WithMaxForMissing(catalog.limits), unrecorded) /\ Keeps(StatsLength(catalog.limits), catalog, unrecorded)
    BY <1>1, <1>4, RecordedFacts
  <1>6. CASE ReadRecorded(n)
    <2> DEFINE o == OverriddenBy(WithMaxForMissing(catalog.limits), Requested[n])
               r == [q EXCEPT !.pc = "apply", !.todo = Given(Requested[n]), !.lengths = o]
    <2>1. q.pc = "recorded" /\ Seen(n) = catalog
      BY <1>1, <1>6 DEF ReadRecorded, ReadMarkers, NodeOK, Seen
    <2>2. Goes(n, r)
      BY <1>6, <2>1 DEF ReadRecorded
    <2> HIDE DEF o
    <2>3. /\ r.pc = "apply" /\ r.todo = Given(Requested[n]) /\ r.lengths = o
          /\ r.ready = q.ready /\ r.from = q.from
      BY <1>1 DEF Attached
    <2> HIDE DEF r
    <2>4. LimitsOK(n, r, catalog, staged, locker, longest, unrecorded)
      BY <1>1, <2>1, <2>3 DEF LimitsOK, MigrationOK, o
    <2> QED BY <1>2, <2>1, <2>2, <2>4, LimitsQuiet DEF LockShape
  <1>7. CASE EnsureReady(n)
    <2> DEFINE r == [q EXCEPT !.pc = "work", !.ready = StatsLength(catalog.limits)]
               u == [q EXCEPT !.pc = "resolve"]
    <2>1. q.pc = "markers" /\ Seen(n) = catalog /\ locker # n
      BY <1>1, <1>7 DEF EnsureReady, ReadMarkers, NodeOK, Seen
    <2>2. Goes(n, r) \/ Goes(n, u)
      BY <1>7, <2>1 DEF EnsureReady, Proceeds
    <2>3. r.pc = "work" /\ r.ready = StatsLength(catalog.limits) /\ u.pc = "resolve" /\ u.ready = q.ready
      BY <1>1 DEF Attached
    <2> HIDE DEF r, u
    <2>4. LimitsOK(n, r, catalog, staged, locker, longest, unrecorded) /\ LimitsOK(n, u, catalog, staged, locker, longest, unrecorded)
      BY <1>1, <1>5, <2>1, <2>3 DEF LimitsOK, MigrationOK
    <2> QED BY <1>2, <2>1, <2>2, <2>4, LimitsQuiet DEF LockShape
  <1>8. CASE MarkReady(n)
    <2> DEFINE r == [q EXCEPT !.pc = "work", !.ready = StatsLength(staged.limits)]
    <2>1. q.pc = "reread" /\ locker = n /\ staged # Nothing /\ Seen(n) = staged
      BY <1>1, <1>8 DEF MarkReady, ReadMarkers, LimitsOK, Seen
    <2>2. Goes(n, r)
      BY <1>8, <2>1 DEF MarkReady
    <2>3. r.pc = "work" /\ r.ready = StatsLength(staged.limits)
      BY <1>1 DEF Attached
    <2> HIDE DEF r
    <2>4. Recorded(staged, unrecorded) /\ staged.shape = "current" /\ Matches(catalog, staged.limits, unrecorded)
          /\ staged.name # Wide /\ staged.stats # Wide
      BY <2>1, LimitsFacts DEF IInv, DatabaseInv
    <2>5. Keeps(r.ready, staged, unrecorded) /\ StatsLength(staged.limits) = staged.stats
          /\ staged.limits.stats = staged.stats
      BY <1>1, <2>3, <2>4, RecordedFacts
    <2>6. Keeps(r.ready, catalog, unrecorded)
      <3>1. catalog.stats # Wide => catalog.stats = r.ready \/ "stats" \in Loose(catalog, unrecorded)
        BY <2>3, <2>4, <2>5 DEF Matches
      <3>2. catalog.stats \in Nat \cup {Wide}
        BY <1>1 DEF Catalog
      <3> QED BY <3>1, <3>2 DEF Keeps
    <2>7. LimitsOK(n, r, catalog, staged, locker, longest, unrecorded)
      BY <2>3, <2>5, <2>6 DEF LimitsOK, MigrationOK
    <2> QED BY <1>2, <2>1, <2>2, <2>7, LimitsQuiet DEF LockShape
  <1>9. CASE ResolveCatalogLengths(n)
    <2> DEFINE r == [q EXCEPT !.pc = "lock", !.lengths = WithMaxForMissing(catalog.limits)]
               u == [q EXCEPT !.pc = "unused"]
    <2>1. q.pc = "resolve" /\ Seen(n) = catalog
      BY <1>1, <1>9 DEF ResolveCatalogLengths, ReadMarkers, NodeOK, Seen
    <2>2. Goes(n, r) \/ (Goes(n, u) /\ catalog.limits = NoLimits)
      BY <1>9, <2>1 DEF ResolveCatalogLengths, Proceeds
    <2>3. /\ r.pc = "lock" /\ r.lengths = WithMaxForMissing(catalog.limits) /\ r.ready = q.ready
          /\ u.pc = "unused" /\ u.ready = q.ready
      BY <1>1 DEF Attached
    <2> HIDE DEF r, u
    <2>4. LimitsOK(n, r, catalog, staged, locker, longest, unrecorded)
      BY <1>1, <1>5, <2>1, <2>3 DEF LimitsOK, MigrationOK
    <2>5. catalog.limits = NoLimits => LimitsOK(n, u, catalog, staged, locker, longest, unrecorded)
      BY <1>1, <2>1, <2>3 DEF LimitsOK, MigrationOK
    <2> QED BY <1>2, <2>1, <2>2, <2>4, <2>5, LimitsQuiet DEF LockShape
  <1>10. CASE ResolveUnused(n)
    <2> DEFINE lengths == IF longest = 0 THEN WithDefaults(Requested[n]) ELSE WithMaxForMissing(NoLimits)
               r == [q EXCEPT !.pc = "lock", !.lengths = lengths]
    <2>1. q.pc = "unused" /\ catalog.limits = NoLimits
      BY <1>1, <1>10 DEF ResolveUnused, LimitsOK
    <2>2. Goes(n, r)
      BY <1>10 DEF ResolveUnused
    <2>3. Matches(catalog, lengths, unrecorded)
      BY <1>1, <1>5, <2>1 DEF InUse, Matches
    <2> HIDE DEF lengths
    <2>4. r.pc = "lock" /\ r.lengths = lengths /\ r.ready = q.ready
      BY <1>1 DEF Attached
    <2> HIDE DEF r
    <2>5. LimitsOK(n, r, catalog, staged, locker, longest, unrecorded)
      BY <1>1, <2>1, <2>3, <2>4 DEF LimitsOK, MigrationOK
    <2> QED BY <1>2, <2>1, <2>2, <2>5, LimitsQuiet DEF LockShape
  <1>11. CASE LockShape(n)
    <2> DEFINE r == [q EXCEPT !.pc = "state"]
    <2>1. /\ q.pc = "lock" /\ locker = NoOne /\ locker' = n /\ Goes(n, r)
          /\ UNCHANGED <<catalog, staged, longest, unrecorded>>
      BY <1>2, <1>11 DEF LockShape, Proceeds
    <2>2. staged = Nothing
      BY <2>1, TypeFacts
    <2>3. r.pc = "state" /\ r.lengths = q.lengths /\ r.ready = q.ready
      BY <1>1 DEF Attached
    <2> HIDE DEF r
    <2>4. LimitsOK(n, r, catalog', staged', locker', longest', unrecorded')
      BY <1>1, <2>1, <2>2, <2>3 DEF LimitsOK, MigrationOK
    <2>5. LimitsDatabase'
      BY <2>1 DEF LimitsInv, LimitsDatabase, Recorded, Matches, InUse, Plain, Loose
    <2>6. \A m \in Node \ {n} : (locker = m <=> locker' = m) /\ (locker = m => staged' = staged)
      BY <2>1, NodeSets
    <2> QED BY <2>1, <2>4, <2>5, <2>6, LimitsStep
  <1>12. CASE ReadShapeState(n)
    <2> DEFINE r == [q EXCEPT !.pc = "shape", !.state = catalog]
    <2>1. q.pc = "state" /\ Goes(n, r)
      BY <1>12 DEF ReadShapeState
    <2>2. r.pc = "shape" /\ r.lengths = q.lengths /\ r.ready = q.ready /\ r.state = catalog
      BY <1>1 DEF Attached
    <2> HIDE DEF r
    <2>3. LimitsOK(n, r, catalog, staged, locker, longest, unrecorded)
      BY <1>1, <2>1, <2>2 DEF LimitsOK, MigrationOK
    <2> QED BY <1>2, <2>1, <2>3, LimitsQuiet DEF LockShape
  <1> QED BY <1>6, <1>7, <1>8, <1>9, <1>10, <1>11, <1>12

\* The shaping declares the lengths that it records, and has names left loose.
LEMMA ShapedIsRecorded ==
  ASSUME NEW lengths \in Declared, catalog \in Catalog, NEW u, Matches(catalog, lengths, u)
  PROVE  LET s == Shaped(catalog, lengths)
         IN  Recorded(s, u) /\ s.shape = "current" /\ s.limits = lengths
  <1> DEFINE s == Shaped(catalog, lengths)
             name == IF catalog.name = Wide THEN lengths.name ELSE catalog.name
             stats == IF catalog.stats # lengths.stats THEN lengths.stats ELSE catalog.stats
  <1>1. (name = lengths.name \/ "name" \in u) /\ stats = lengths.stats
    BY DEF Matches, Loose
  <1>2. s.name = name /\ s.stats = stats /\ s.limits = lengths /\ s.shape = "current"
    BY DEF Shaped, Catalog
  <1> HIDE DEF name, stats, s
  <1>3. lengths.name \in Nat /\ lengths.stats \in Nat /\ lengths \in Bounds
    BY DEF Declared, Bounds
  <1>4. Matches(s, WithMaxForMissing(s.limits), u)
    <2>1. lengths.name # NOT_GIVEN /\ lengths.stats # NOT_GIVEN
      BY <1>3 DEF NOT_GIVEN
    <2>2. WithMaxForMissing(s.limits).name = lengths.name /\ WithMaxForMissing(s.limits).stats = lengths.stats
      BY <1>2, <1>3, <2>1, LengthFacts
    <2> QED BY <1>1, <1>2, <2>2 DEF Matches, Loose
  <1> QED BY <1>2, <1>4 DEF Recorded, s

\* What is staged has the limits it says; a shaping that is refused stages nothing.
LEMMA LimitsShape ==
  ASSUME IInv, LimitsInv, Alone, NEW n \in Node, EnsureCatalogShape(n)
  PROVE  LimitsInv'
  <1> DEFINE q == node[n]
  <1>1. /\ q \in Attached /\ LimitsOK(n, q, catalog, staged, locker, longest, unrecorded)
        /\ NodeOK(n, q, catalog, staged, locker, prefixed) /\ catalog \in Catalog
        /\ q.pc = "shape" /\ UNCHANGED <<catalog, longest, unrecorded>>
    BY LimitsFacts DEF EnsureCatalogShape, aux
  <1>2. locker = n /\ staged = Nothing /\ q.lengths \in Declared /\ q.state = catalog
        /\ Matches(catalog, q.lengths, unrecorded) /\ q.ready = NotReady
    BY <1>1 DEF NodeOK, LimitsOK
  <1>3. CASE Refused(q.state, q.lengths)
    <2> DEFINE r == [Detached EXCEPT !.failed = "shaping"]
               u == [q EXCEPT !.pc = "idle", !.failed = "shaping"]
    <2>1. (Goes(n, r) \/ Goes(n, u)) /\ locker' = NoOne /\ staged' = Nothing
      BY <1>3 DEF EnsureCatalogShape, Fail
    <2>2. r.pc = "out" /\ r.ready = NotReady /\ u.pc = "idle" /\ u.ready = NotReady
      BY <1>1, <1>2 DEF Attached, Detached
    <2> HIDE DEF r, u
    <2>3. LimitsOK(n, r, catalog', staged', locker', longest', unrecorded') /\ LimitsOK(n, u, catalog', staged', locker', longest', unrecorded')
      BY <2>2 DEF LimitsOK, MigrationOK
    <2>4. LimitsDatabase'
      BY <1>1, <2>1 DEF LimitsInv, LimitsDatabase, Recorded, Matches, InUse, Plain, Loose
    <2>5. \A m \in Node \ {n} : (locker = m <=> locker' = m) /\ (locker = m => staged' = staged)
      BY <1>2, <2>1, NodeSets
    <2> QED BY <1>1, <2>1, <2>3, <2>4, <2>5, LimitsStep
  <1>4. CASE ~Refused(q.state, q.lengths)
    <2> DEFINE r == [q EXCEPT !.pc = q.then, !.state = Nothing]
    <2>1. Goes(n, r) /\ locker' = locker /\ staged' = Shaped(catalog, q.lengths)
      BY <1>2, <1>4 DEF EnsureCatalogShape
    <2>2. r.pc \in {"reread", "ending"} /\ r.ready = NotReady
      BY <1>1, <1>2 DEF Attached
    <2> HIDE DEF r
    <2>3. Recorded(staged', unrecorded) /\ staged'.shape = "current" /\ staged'.limits = q.lengths
      BY <1>1, <1>2, <2>1, ShapedIsRecorded
    <2>4. LimitsDatabase'
      <3>1. Recorded(catalog', unrecorded') /\ InUse(catalog', longest', unrecorded')
            /\ Plain(catalog', unrecorded')
        BY <1>1 DEF LimitsInv, LimitsDatabase
      <3>2. Matches(catalog', staged'.limits, unrecorded')
        BY <1>1, <1>2, <2>3
      <3>3. Recorded(staged', unrecorded')
        BY <1>1, <2>3
      <3> QED BY <2>3, <3>1, <3>2, <3>3 DEF LimitsDatabase
    <2>5. staged' # Nothing
      BY <2>3 DEF Nothing, New
    <2>6. LimitsOK(n, r, catalog', staged', locker', longest', unrecorded')
      BY <1>2, <2>1, <2>2, <2>5 DEF LimitsOK, MigrationOK
    <2> QED BY <1>1, <1>2, <2>1, <2>4, <2>6, LimitsStep
  <1> QED BY <1>3, <1>4

\* A new catalog has no limits yet, and the migration's batch does not touch them.
LEMMA LimitsBatch ==
  ASSUME IInv, LimitsInv, Alone, NEW n \in Node, Create(n) \/ MigrationBatch(n)
  PROVE  LimitsInv'
  <1> DEFINE q == node[n]
  <1>1. /\ q \in Attached /\ LimitsOK(n, q, catalog, staged, locker, longest, unrecorded)
        /\ NodeOK(n, q, catalog, staged, locker, prefixed) /\ catalog \in Catalog
        /\ Recorded(catalog, unrecorded) /\ InUse(catalog, longest, unrecorded) /\ Plain(catalog, unrecorded)
        /\ MigrationOK(n, q, catalog, longest, unrecorded)
    BY LimitsFacts
  <1>2. UNCHANGED <<staged, locker, longest, unrecorded>> /\ staged = Nothing
    BY TypeFacts DEF Create, MigrationBatch, IInv, DatabaseInv, aux
  <1>3. CASE Create(n)
    <2> DEFINE r == [Detached EXCEPT !.pc = "idle"]
    <2>1. catalog = Nothing /\ catalog' = New /\ Goes(n, r)
      BY <1>3 DEF Create
    <2>2. r.pc = "idle" /\ r.ready = NotReady
      BY DEF Detached
    <2> HIDE DEF r
    <2>3. LimitsOK(n, r, catalog', staged', locker', longest', unrecorded')
      BY <2>2 DEF LimitsOK, MigrationOK
    <2>4. New.name = Wide /\ New.stats = Wide /\ New.shape = "none" /\ New.version = "1.1"
      BY DEF New
    <2>5. LimitsDatabase'
      BY <1>2, <2>1, <2>4 DEF LimitsDatabase, Recorded, Matches, InUse, Plain
    <2> QED BY <1>2, <2>1, <2>3, <2>5, LimitsStep
  <1>4. CASE MigrationBatch(n)
    <2> DEFINE r == [q EXCEPT !.pc = IF q.from THEN "recorded" ELSE "changed"]
    <2>1. /\ q.pc = "ddl" /\ catalog' = (IF catalog.marker THEN catalog ELSE Migrated(catalog)) /\ Goes(n, r)
      BY <1>4 DEF MigrationBatch, Proceeds
    <2>2. r.pc = (IF q.from THEN "recorded" ELSE "changed") /\ r.ready = q.ready /\ r.from = q.from
      BY <1>1 DEF Attached
    <2> HIDE DEF r
    <2>3. /\ catalog'.name = catalog.name /\ catalog'.stats = catalog.stats /\ catalog'.limits = catalog.limits
          /\ catalog'.shape = "current" => catalog.shape = "current"
      BY <1>1, <2>1 DEF Migrated, Catalog
    <2>4. catalog'.version = "1.1"
      <3>1. catalog.marker => catalog.version = "1.1"
        BY <1>1, <2>1 DEF NodeOK, IInv, DatabaseInv, Sound
      <3> QED BY <1>1, <2>1, <3>1 DEF Migrated, Catalog
    <2>5. q.from => catalog'.shape # "current" /\ unrecorded' = {}
      <3> SUFFICES ASSUME q.from PROVE catalog'.shape # "current" /\ unrecorded' = {}
        OBVIOUS
      <3>1. catalog.version = "1.0"
        BY <1>1, <2>1 DEF MigrationOK
      <3>2. ~catalog.marker /\ ~catalog.columns /\ unrecorded = {}
        BY <1>1, <2>1, <3>1 DEF Plain, NodeOK, IInv, DatabaseInv, Sound
      <3>3. catalog'.shape = "none"
        BY <1>1, <2>1, <3>2 DEF Migrated, Catalog
      <3> QED BY <1>2, <3>2, <3>3
    <2>6. MigrationOK(n, r, catalog', longest', unrecorded')
      BY <1>1, <1>2, <2>1, <2>2, <2>4, <2>5 DEF MigrationOK
    <2>7. LimitsOK(n, r, catalog', staged', locker', longest', unrecorded')
      <3>1. r.pc \in {"recorded", "changed"} /\ r.ready = NotReady
        BY <1>1, <2>1, <2>2 DEF LimitsOK
      <3> QED BY <2>6, <3>1 DEF LimitsOK
    <2>8. LimitsDatabase'
      BY <1>1, <1>2, <2>3, <2>4 DEF LimitsDatabase, Recorded, Matches, InUse, Plain, Loose
    <2>9. ~Waits(n)
      BY <2>1 DEF Waits
    <2> QED BY <1>2, <2>1, <2>3, <2>7, <2>8, <2>9, LimitsStep
  <1> QED BY <1>3, <1>4

\* A column that is altered is loose until its limit is recorded: a name that was short enough when
\* it was checked still is.
LEMMA LimitsAlter ==
  ASSUME IInv, LimitsInv, Alone, NEW n \in Node, NEW k \in Keys, AlterColumn(n, k)
  PROVE  LimitsInv'
  <1> DEFINE q == node[n]
             done == DeclaredAs(catalog, k, Requested[n][k])
             r == [q EXCEPT !.todo = q.todo \ {k}]
  <1>1. /\ q \in Attached /\ LimitsOK(n, q, catalog, staged, locker, longest, unrecorded)
        /\ MigrationOK(n, q, catalog, longest, unrecorded)
        /\ NodeOK(n, q, catalog, staged, locker, prefixed) /\ catalog \in Catalog
        /\ Recorded(catalog, unrecorded) /\ InUse(catalog, longest, unrecorded) /\ Plain(catalog, unrecorded)
        /\ q.pc = "apply" /\ k \in q.todo /\ staged = Nothing
        /\ UNCHANGED <<staged, locker, longest>>
    BY LimitsFacts DEF AlterColumn
  <1>2. /\ Fits(longest, Requested[n].name) /\ catalog.version = "1.1" /\ catalog.shape # "current"
        /\ unrecorded = Given(Requested[n]) \ q.todo /\ q.ready = NotReady /\ q.from
        /\ "name" \in unrecorded => catalog.name = Requested[n].name
        /\ "stats" \in unrecorded => catalog.stats = Requested[n].stats
        /\ q.lengths = OverriddenBy(WithMaxForMissing(catalog.limits), Requested[n])
    BY <1>1 DEF LimitsOK, MigrationOK
  <1>3. catalog' = done /\ Goes(n, r) /\ unrecorded' = unrecorded \cup {k}
    BY <1>2 DEF AlterColumn
  <1>4. /\ r.pc = "apply" /\ r.ready = NotReady /\ r.from /\ r.todo = q.todo \ {k} /\ r.lengths = q.lengths
    BY <1>1, <1>2 DEF Attached
  <1>5. /\ done.version = "1.1" /\ done.shape = catalog.shape /\ done.limits = catalog.limits
        /\ done.name = (IF k = "name" THEN Requested[n].name ELSE catalog.name)
        /\ done.stats = (IF k = "stats" THEN Requested[n].stats ELSE catalog.stats)
    <2>1. k = "name" \/ k = "stats"
      BY DEF Keys
    <2> QED BY <1>1, <1>2, <2>1 DEF DeclaredAs, Catalog
  <1> HIDE DEF done, r
  <1>6. k \in Loose(done, unrecorded') /\ Loose(catalog, unrecorded) \subseteq Loose(done, unrecorded')
    BY <1>2, <1>3, <1>5 DEF Loose
  <1>7. k = "name" \/ k = "stats"
    BY DEF Keys
  <1>8. Matches(done, WithMaxForMissing(done.limits), unrecorded')
    BY <1>1, <1>5, <1>6, <1>7 DEF Recorded, Matches
  <1>9. LimitsDatabase'
    <2>1. Recorded(done, unrecorded')
      BY <1>2, <1>5, <1>8 DEF Recorded
    <2>2. InUse(done, longest, unrecorded')
      BY <1>1, <1>5, <1>6, <1>7 DEF InUse
    <2>3. Plain(done, unrecorded')
      BY <1>5 DEF Plain
    <2> QED BY <1>1, <1>3, <2>1, <2>2, <2>3 DEF LimitsDatabase
  <1>10. MigrationOK(n, r, catalog', longest', unrecorded')
    <2>1. k \in Given(Requested[n])
      BY <1>1 DEF NodeOK
    <2>2. unrecorded' = Given(Requested[n]) \ r.todo
      BY <1>1, <1>2, <1>3, <1>4, <2>1
    <2>3. /\ "name" \in unrecorded' => done.name = Requested[n].name
          /\ "stats" \in unrecorded' => done.stats = Requested[n].stats
      BY <1>2, <1>3, <1>5
    <2> QED BY <1>1, <1>2, <1>3, <1>4, <1>5, <2>2, <2>3 DEF MigrationOK
  <1>11. LimitsOK(n, r, catalog', staged', locker', longest', unrecorded')
    BY <1>4, <1>10 DEF LimitsOK
  <1>12. Busy(n) /\ ~Waits(n)
    BY <1>1 DEF Busy, Waits
  <1> QED BY <1>1, <1>3, <1>9, <1>11, <1>12, LimitsStep

\* Recording the limits leaves nothing loose that this attach altered, and nothing else was.
LEMMA LimitsRecord ==
  ASSUME IInv, LimitsInv, Alone, NEW n \in Node, RecordLimits(n)
  PROVE  LimitsInv'
  <1> DEFINE q == node[n]
             other == Requested[n]
             max == WithMaxForMissing(catalog.limits)
             r == [q EXCEPT !.pc = "changed"]
             f == [Detached EXCEPT !.failed = "limits"]
  <1>1. /\ q \in Attached /\ LimitsOK(n, q, catalog, staged, locker, longest, unrecorded)
        /\ MigrationOK(n, q, catalog, longest, unrecorded)
        /\ catalog \in Catalog /\ other \in Bounds
        /\ Recorded(catalog, unrecorded) /\ Plain(catalog, unrecorded)
        /\ q.pc = "apply" /\ q.todo = {} /\ staged = Nothing
        /\ catalog' = [catalog EXCEPT !.limits = q.lengths] /\ unrecorded' = unrecorded \ Given(other)
        /\ UNCHANGED <<staged, locker, longest>>
    BY LimitsFacts DEF RecordLimits, Records
  <1>2. /\ catalog.version = "1.1" /\ catalog.shape # "current"
        /\ unrecorded = Given(other) /\ q.ready = NotReady
        /\ "name" \in unrecorded => catalog.name = other.name
        /\ "stats" \in unrecorded => catalog.stats = other.stats
        /\ q.lengths = OverriddenBy(max, other)
    BY <1>1 DEF LimitsOK, MigrationOK
  <1>3. Goes(n, r) \/ Goes(n, f)
    BY DEF RecordLimits, Proceeds, Fail
  <1>4. r.pc = "changed" /\ r.ready = NotReady /\ f.pc = "out" /\ f.ready = NotReady
    BY <1>1, <1>2 DEF Attached, Detached
  <1> HIDE DEF r, f
  <1>5. max \in Declared /\ Matches(catalog, max, unrecorded)
    <2>1. catalog.limits \in Bounds
      BY <1>1 DEF Catalog
    <2> QED BY <1>1, <2>1, LengthFacts DEF Recorded
  <1>6. PICK x \in Nat, y \in Nat : max = [name |-> x, stats |-> y]
    BY <1>5 DEF Declared
  <1>7. /\ q.lengths = [name |-> IF other.name = NOT_GIVEN THEN x ELSE other.name,
                        stats |-> IF other.stats = NOT_GIVEN THEN y ELSE other.stats]
        /\ other.name \in Nat \cup {NOT_GIVEN} /\ other.stats \in Nat \cup {NOT_GIVEN}
    BY <1>1, <1>2, <1>6, OverriddenFacts
  <1> HIDE DEF max
  <1>8. /\ catalog'.name = catalog.name /\ catalog'.stats = catalog.stats /\ catalog'.limits = q.lengths
        /\ catalog'.shape = catalog.shape /\ catalog'.version = "1.1" /\ unrecorded' = {}
    BY <1>1, <1>2 DEF Catalog
  <1>9. q.lengths \in Bounds /\ q.lengths # NoLimits
        /\ WithMaxForMissing(q.lengths).name = q.lengths.name
        /\ WithMaxForMissing(q.lengths).stats = q.lengths.stats
    <2>1. q.lengths.name \in Nat /\ q.lengths.stats \in Nat
      BY <1>7
    <2>2. q.lengths \in Bounds
      BY <1>7 DEF Bounds
    <2> QED BY <2>1, <2>2, LengthFacts DEF NOT_GIVEN, NoLimits
  <1>10. /\ catalog.name # Wide => catalog.name = q.lengths.name
         /\ catalog.stats # Wide => catalog.stats = q.lengths.stats
    <2>1. ("name" \in Given(other) <=> other.name # NOT_GIVEN) /\ ("stats" \in Given(other) <=> other.stats # NOT_GIVEN)
      BY DEF Given, Keys
    <2>2. Loose(catalog, unrecorded) \subseteq Given(other)
      BY <1>2 DEF Loose
    <2> QED BY <1>2, <1>5, <1>6, <1>7, <2>1, <2>2 DEF Matches
  <1>11. LimitsDatabase'
    BY <1>1, <1>2, <1>8, <1>9, <1>10 DEF LimitsDatabase, Recorded, Matches, InUse, Plain
  <1>12. /\ LimitsOK(n, r, catalog', staged', locker', longest', unrecorded')
         /\ LimitsOK(n, f, catalog', staged', locker', longest', unrecorded')
    BY <1>4 DEF LimitsOK, MigrationOK
  <1>13. Busy(n) /\ ~Waits(n)
    BY <1>1 DEF Busy, Waits
  <1> QED BY <1>1, <1>3, <1>11, <1>12, <1>13, LimitsStep

\* What is staged becomes the catalog, or goes.
LEMMA LimitsEnd ==
  ASSUME IInv, LimitsInv, Alone, NEW n \in Node, Commit(n) \/ Rollback(n) \/ Crash(n)
  PROVE  LimitsInv'
  <1> DEFINE q == node[n]
             r == [q EXCEPT !.pc = "idle"]
  <1>1. /\ q \in Attached /\ LimitsOK(n, q, catalog, staged, locker, longest, unrecorded)
        /\ NodeOK(n, q, catalog, staged, locker, prefixed) /\ catalog \in Catalog /\ staged \in Catalog
        /\ Recorded(catalog, unrecorded) /\ InUse(catalog, longest, unrecorded) /\ Plain(catalog, unrecorded)
        /\ Releases(n) /\ UNCHANGED unrecorded
        /\ staged # Nothing => /\ Recorded(staged, unrecorded) /\ staged.shape = "current"
                               /\ Matches(catalog, staged.limits, unrecorded)
    BY LimitsFacts DEF Commit, Rollback, Crash, aux
  <1>2. /\ locker' # n /\ (staged' = Nothing \/ (staged' = staged /\ locker # n))
        /\ \A m \in Node \ {n} : (locker = m <=> locker' = m) /\ (locker = m => staged' = staged)
        /\ unrecorded' = unrecorded
    BY <1>1, ReleasesFacts, NodeSets DEF Releases
  <1>3. r.pc = "idle" /\ r.ready = q.ready /\ Detached.pc = "out" /\ Detached.ready = NotReady
    BY <1>1 DEF Attached, Detached
  <1> HIDE DEF r
  <1>4. CASE Rollback(n) \/ Crash(n)
    <2>1. (Goes(n, r) \/ Goes(n, Detached)) /\ UNCHANGED <<catalog, longest>>
      BY <1>4 DEF Rollback, Crash, Proceeds, r
    <2>2. LimitsOK(n, r, catalog', staged', locker', longest', unrecorded')
          /\ LimitsOK(n, Detached, catalog', staged', locker', longest', unrecorded')
      BY <1>1, <1>2, <1>3, <2>1 DEF LimitsOK, MigrationOK
    <2>3. LimitsDatabase'
      BY <1>1, <1>2, <2>1 DEF LimitsDatabase, Recorded, InUse, Matches, Plain, Loose
    <2> QED BY <1>2, <2>1, <2>2, <2>3, LimitsStep
  <1>5. CASE Commit(n)
    <2>1. Goes(n, r) /\ catalog' = Seen(n) /\ q.pc \in {"work", "ending"}
      BY <1>5 DEF Commit, Proceeds, r
    <2>2. longest # 0 => longest' # 0
      BY <1>5, RequestTypes, TypeFacts DEF Commit
    <2>3. CASE catalog' = catalog
      <3>1. LimitsOK(n, r, catalog', staged', locker', longest', unrecorded')
        BY <1>1, <1>2, <1>3, <2>3 DEF LimitsOK, MigrationOK
      <3>2. LimitsDatabase'
        BY <1>1, <1>2, <2>2, <2>3 DEF LimitsDatabase, Recorded, InUse, Matches, Plain, Loose
      <3>3. ~Waits(n)
        <4>1. q.pc # "idle" /\ q.pc # "out" /\ q.pc # "markers" /\ q.pc # "version"
          BY <2>1
        <4> QED BY <4>1 DEF Waits
      <3> QED BY <1>2, <2>1, <2>3, <3>1, <3>2, <3>3, LimitsStep
    <2>4. CASE catalog' # catalog
      <3>1. locker = n /\ staged # Nothing /\ catalog' = staged /\ staged' = Nothing
        BY <1>1, <2>1, <2>4 DEF Seen, Releases
      <3>2. staged.name # Wide /\ staged.stats # Wide
        BY <3>1 DEF IInv, DatabaseInv
      <3>3. staged.limits # NoLimits /\ staged.version = catalog.version /\ staged.columns = catalog.columns
        BY <1>1, <3>1, <3>2, RecordedFacts DEF IInv, DatabaseInv
      <3>4. LimitsDatabase'
        BY <1>1, <3>1, <3>3 DEF LimitsDatabase, Recorded, InUse, Matches, Plain, Loose
      <3>5. LimitsOK(n, r, catalog', staged', locker', longest', unrecorded')
        BY <1>1, <1>2, <1>3, <3>1 DEF LimitsOK, MigrationOK
      <3>6. Busy(n) /\ ~Waits(n)
        BY <2>1, <3>1 DEF Busy, Waits
      <3> QED BY <1>2, <2>1, <3>4, <3>5, <3>6, LimitsStep
    <2> QED BY <2>3, <2>4
  <1> QED BY <1>4, <1>5

\* Every step keeps the third invariant, while one node at a time is busy.
LEMMA LimitsNext == IInv /\ LimitsInv /\ Alone /\ [Next]_vars => LimitsInv'
  <1> SUFFICES ASSUME IInv, LimitsInv, Alone, [Next]_vars PROVE LimitsInv'
    OBVIOUS
  <1>1. CASE UNCHANGED vars
    BY <1>1 DEF vars, serverVars, aux, LimitsInv, LimitsDatabase, LimitsOK, MigrationOK, Recorded, Matches,
                InUse, Plain, Loose, Keeps
  <1>2. ASSUME NEW n \in Node,
               Create(n) \/ Attach(n) \/ Begin(n) \/ Advance(n) \/ Rollback(n) \/ Crash(n)
        PROVE  LimitsInv'
    BY <1>2, LimitsAttach, LimitsReads, LimitsShape, LimitsBatch, LimitsAlter, LimitsRecord, LimitsEnd DEF Advance
  <1> QED BY <1>1, <1>2 DEF Next

\* The third invariant holds where one node at a time is busy with the shape of the catalog.
LEMMA LimitsInvariance ==
  ASSUME FirstSound, FirstRecorded
  PROVE  Spec /\ []Alone => []LimitsInv
  <1>1. Init => LimitsInv
    <2> SUFFICES ASSUME Init PROVE LimitsInv
      OBVIOUS
    <2>1. Recorded(catalog, unrecorded) /\ InUse(catalog, longest, unrecorded) /\ Plain(catalog, unrecorded)
          /\ staged = Nothing
      BY DEF Init, FirstRecorded
    <2>2. \A n \in Node : node[n] = Detached
      BY DEF Init
    <2>3. Detached.pc = "out" /\ Detached.ready = NotReady
      BY DEF Detached
    <2> QED BY <2>1, <2>2, <2>3 DEF LimitsInv, LimitsDatabase, LimitsOK, MigrationOK
  <1> QED BY <1>1, LimitsNext, Invariance, PTL DEF Spec

\* The limits recorded in a stamped catalog are the lengths its strings are declared with, however
\* many nodes shape and migrate it one after another, and whoever rolls back or dies - but for names
\* that a migration altered and then died before it recorded them.
THEOREM LimitsDeclared ==
  ASSUME FirstSound, FirstRecorded
  PROVE  Spec /\ []Alone => []LimitsAreDeclared
  <1>1. IInv /\ LimitsInv => LimitsAreDeclared
    <2> SUFFICES ASSUME IInv, LimitsInv, catalog # Nothing, catalog.shape = "current"
                 PROVE  /\ catalog.limits.stats = catalog.stats
                        /\ catalog.limits.name = catalog.name \/ "name" \in unrecorded
      BY DEF LimitsAreDeclared
    <2>1. catalog \in Catalog /\ Recorded(catalog, unrecorded) /\ catalog.name # Wide /\ catalog.stats # Wide
      BY DEF IInv, TypeOK, DatabaseInv, Sound, LimitsInv, LimitsDatabase
    <2> QED BY <2>1, RecordedFacts
  <1> QED BY <1>1, Invariance, LimitsInvariance, PTL

\* A statistic cut at the bound that an attach keeps to can be stored: no other shapes or narrows the
\* catalog while it is ready, and the bound it read in a shaping that was rolled back was the
\* catalog's - but while a migration that died has left the column narrowed and no shaping since was
\* committed.
THEOREM StatisticsFit ==
  ASSUME FirstSound, FirstRecorded
  PROVE  Spec /\ []Alone => []StatsFit
  <1>1. LimitsInv => StatsFit
    BY DEF LimitsInv, LimitsOK, Keeps, Loose, StatsFit
  <1> QED BY <1>1, LimitsInvariance, PTL

\* The attach of a catalog that no other process has attached is alone: both hold of it outright,
\* with the exceptions that they name, wherever its migration or its shaping is cut off.
THEOREM OneNode ==
  ASSUME FirstSound, FirstRecorded, \A m, n \in Node : m = n
  PROVE  Spec => [](LimitsAreDeclared /\ StatsFit)
  <1>1. Alone
    BY DEF Alone
  <1> QED BY <1>1, LimitsDeclared, StatisticsFit, PTL
=============================================================================
