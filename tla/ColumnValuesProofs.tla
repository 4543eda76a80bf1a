------------------------- MODULE ColumnValuesProofs -------------------------
(***************************************************************************)
(* Proofs about ColumnValues, for columns of any of its types, any bound   *)
(* of the statistics and any number of files and rows.                     *)
(*                                                                         *)
(* The inductive invariant says what the statistics in the catalog tell of *)
(* a file (Tells), whichever way it was committed and however the column   *)
(* was widened since; and, while the catalog is an earlier release's, for  *)
(* which type they tell it, which is what its migration relies on.         *)
(***************************************************************************)
EXTENDS ColumnValues, FiniteSetTheorems, TLAPS

\* The ladder's places are small numbers, none of them the one that stands for unknown.
LEMMA Places == \A t \in DOMAIN Values : \A v \in Values[t] : v \in Int /\ -12 < v /\ v < 13
BY DEF Values, Dates, NaN

-----------------------------------------------------------------------------
(* What statistics tell *)

\* The values that the bounds of a file are about: all but NaN.
Known(t, values) == {v \in values : ~(t \in Floats /\ v = NaN)}

\* The bounds, where they are known, are the text of the least and the greatest of these.
Tells(t, stats, values) ==
  /\ stats.min # Null => \E m \in Known(t, values) : stats.min = Text(t, m) /\ \A v \in Known(t, values) : m <= v
  /\ stats.max # Null => \E m \in Known(t, values) : stats.max = Text(t, m) /\ \A v \in Known(t, values) : v <= m
  /\ stats.nan <=> Known(t, values) # values

\* Statistics are a record of two bounds and a flag.
IsStats(stats) == stats = [min |-> stats.min, max |-> stats.max, nan |-> stats.nan] /\ stats.nan \in BOOLEAN

\* The statistics a file is written with do.
LEMMA StatisticsTell ==
  ASSUME NEW t \in DOMAIN Values, NEW values \in Contents(t)
  PROVE  IsStats(Statistics(t, values)) /\ Tells(t, Statistics(t, values), values)
<1> DEFINE known == Known(t, values)
           least == CHOOSE v \in known : \A w \in known : ~(w < v)
           greatest == CHOOSE v \in known : \A w \in known : ~(w > v)
           lo == IF known = {} THEN Null ELSE Text(t, least)
           hi == IF known = {} THEN Null ELSE Text(t, greatest)
<1>1. Statistics(t, values) = [min |-> lo, max |-> hi, nan |-> known # values]
  BY DEF Statistics, Known
<1>2. PICK a \in Values[t], b \in Values[t] : values = {a, b}
  BY DEF Contents
<1>3. a \in Int /\ b \in Int
  BY Places
<1>4. \A v \in known : v \in Int
  BY <1>2, <1>3 DEF Known
<1>5. ASSUME known # {}
      PROVE  /\ \E v \in known : \A w \in known : ~(w < v)
             /\ \E v \in known : \A w \in known : ~(w > v)
  <2>1. known = {a} \/ known = {b} \/ known = {a, b}
    BY <1>2, <1>5 DEF Known
  <2> QED
    BY <2>1, <1>3
<1>6. ASSUME known # {}
      PROVE  /\ least \in known /\ \A w \in known : least <= w
             /\ greatest \in known /\ \A w \in known : w <= greatest
  <2>1. least \in known /\ \A w \in known : ~(w < least)
    BY <1>5, <1>6
  <2>2. greatest \in known /\ \A w \in known : ~(w > greatest)
    BY <1>5, <1>6
  <2> QED
    BY <2>1, <2>2, <1>4
<1> HIDE DEF least, greatest, known
<1>7. IsStats(Statistics(t, values))
  BY <1>1 DEF IsStats
<1>8. /\ lo # Null => \E m \in known : lo = Text(t, m) /\ \A v \in known : m <= v
      /\ hi # Null => \E m \in known : hi = Text(t, m) /\ \A v \in known : v <= m
  BY <1>6
<1> HIDE DEF lo, hi
<1>9. /\ Statistics(t, values).min = lo /\ Statistics(t, values).max = hi
      /\ Statistics(t, values).nan = (known # values)
  BY <1>1
<1>10. known = Known(t, values)
  BY DEF known
<1> QED
  BY <1>7, <1>8, <1>9, <1>10 DEF Tells


-----------------------------------------------------------------------------
(* Inlined rows *)

\* A literal is a value that its column holds.
LEMMA LiteralsHeld ==
  ASSUME NEW t \in DOMAIN Values, NEW v \in Values[t], RenderInlinedValue(t, v)
  PROVE  v \in Holds[TSQLColumnType(t)]
BY DEF Values, Dates, NaN, RenderInlinedValue, TSQLColumnType, Holds, HasFourDigitYear, IsBC, TypeIsNativelySupported,
   Instants, Floats, Wide

\* No column rounds: what it does not hold lies past the least or the greatest that it does.
LEMMA NothingRounds ==
  ASSUME NEW t \in DOMAIN Values, NEW v \in Values[t]
  PROVE  Stored(TSQLColumnType(t), v) \in {v, Null}
<1>1. CASE v \in Holds[TSQLColumnType(t)]
  BY <1>1 DEF Stored
<1>2. CASE v \notin Holds[TSQLColumnType(t)]
  <2>1. \/ TSQLColumnType(t) \notin {"DATE", "DATETIME2_0", "DATETIME2_3", "DATETIME2_6", "DATETIMEOFFSET_6", "TIME_6"}
        \/ {h \in Holds[TSQLColumnType(t)] : h <= v} = {}
        \/ ~ \E h \in Holds[TSQLColumnType(t)] : h > v
    BY <1>2 DEF Values, Dates, NaN, TSQLColumnType, Holds
  <2> QED
    BY <1>2, <2>1 DEF Stored
<1> QED
  BY <1>1, <1>2

-----------------------------------------------------------------------------
(* The inductive invariant *)

\* A file that was added holds, of the values it was made with, what its column reads of them.
IsAdded(f) ==
  \E from \in DOMAIN Values : \E values \in SUBSET Values[from] :
    /\ <<from, type>> \in Addable /\ 9 \notin values
    /\ f.values = {AsRead(v) : v \in values}
    /\ Tells(from, f.stats, values)

\* The statistics of a file in the lake: those of the column's type or, as long as the catalog is the
\* earlier release's, of a type it had when the file was committed, or of the one the file came in.
FileOK(f) ==
  /\ f = [values |-> f.values, added |-> f.added, stats |-> f.stats]
  /\ f.values \subseteq Values[type] /\ f.values # {}
  /\ f.added \in BOOLEAN /\ IsStats(f.stats)
  /\ ~old => Tells(type, f.stats, f.values)
  /\ old /\ ~f.added => \E t \in types : Tells(t, f.stats, f.values)
  /\ old /\ f.added => IsAdded(f)

\* The column widens at most once, and an earlier release bounds no statistics.
ColumnInv ==
  /\ type \in DOMAIN Values
  /\ types = {type} \/ \E from : <<from, type>> \in Widenings /\ types = {from, type}
  /\ old \in BOOLEAN
  /\ statsLength \in StatsLengths \cup {0}
  /\ old => statsLength = 0

\* A row is held as it was written.
RowsInv == \A r \in inlined : r.value \in Values[type] /\ r.stored = r.value

\* The statistics of a file under way are not written yet.
FilesInv ==
  /\ \A f \in pending : f.values \in Contents(type)
  /\ \A f \in files : FileOK(f)

\* A file is of the transaction or of the lake.
BoundInv ==
  /\ IsFiniteSet(pending) /\ IsFiniteSet(files)
  /\ Cardinality(pending) + Cardinality(files) <= MaxFiles[type]

IInv == ColumnInv /\ RowsInv /\ FilesInv /\ BoundInv /\ NoneRefused

\* What is said of a file stays true as long as the column stays the same.
LEMMA FileKept ==
  ASSUME NEW f, FileOK(f), UNCHANGED <<type, types, old>>
  PROVE  FileOK(f)'
<1>1. \A v : AsRead(v)' = AsRead(v)
  BY DEF AsRead
<1>2. ASSUME IsAdded(f) PROVE IsAdded(f)'
  <2>0. PICK from \in DOMAIN Values : \E values \in SUBSET Values[from] :
          /\ <<from, type>> \in Addable /\ 9 \notin values
          /\ f.values = {AsRead(v) : v \in values}
          /\ Tells(from, f.stats, values)
    BY <1>2 DEF IsAdded
  <2>1. PICK values \in SUBSET Values[from] :
          /\ <<from, type>> \in Addable /\ 9 \notin values
          /\ f.values = {AsRead(v) : v \in values}
          /\ Tells(from, f.stats, values)
    BY <2>0
  <2>2. f.values = {AsRead(v)' : v \in values}
    BY <1>1, <2>1
  <2> QED
    BY <1>2, <2>1, <2>2 DEF IsAdded
<1> QED
  BY <1>2 DEF FileOK

\* The image of a set is no larger than the set.
LEMMA ImageBound ==
  ASSUME NEW S, IsFiniteSet(S), NEW g, NEW T, T = {g[x] : x \in S}
  PROVE  IsFiniteSet(T) /\ Cardinality(T) <= Cardinality(S)
<1> DEFINE h == [x \in S |-> g[x]]
<1>1. h \in Surjection(S, T)
  BY DEF Surjection
<1> QED
  BY <1>1, FS_Surjection

\* The invariant holds in an empty lake.
LEMMA InitInv == Init => IInv
<1> SUFFICES ASSUME Init PROVE IInv
  OBVIOUS
<1>1. ColumnInv
  BY ColumnAssumption DEF Init, ColumnInv
<1>2. RowsInv /\ FilesInv /\ NoneRefused
  BY DEF Init, RowsInv, FilesInv, NoneRefused
<1>3. BoundInv
  BY <1>1, ColumnAssumption, FS_EmptySet DEF Init, BoundInv, ColumnInv
<1> QED
  BY <1>1, <1>2, <1>3 DEF IInv

\* A literal is never refused, and a row is stored as it was written.
LEMMA InlineStep ==
  ASSUME IInv, NEW v \in Values[type], Inline(v)
  PROVE  IInv'
<1> DEFINE way == IF RenderInlinedValue(type, v) THEN "literal" ELSE "base"
           stored == Stored(TSQLColumnType(type), v)
<1>1. type \in DOMAIN Values
  BY DEF IInv, ColumnInv
<1>2. v # Null
  BY <1>1, Places DEF Null
<1>3. stored \in {v, Null}
  BY <1>1, NothingRounds
<1>4. stored = Null => way = "base"
  BY <1>1, <1>2, LiteralsHeld DEF Stored
<1> HIDE DEF way, stored
<1>5. /\ \/ stored = Null /\ refused' = refused \cup {way} /\ inlined' = inlined
         \/ stored # Null /\ inlined' = inlined \cup {[value |-> v, stored |-> stored]} /\ refused' = refused
      /\ UNCHANGED <<type, types, old, statsLength, pending, files>>
  BY DEF Inline, way, stored, columnVars
<1>6. ColumnInv' /\ FilesInv' /\ BoundInv'
  <2>1. \A f \in files' : FileOK(f)'
    BY <1>5, FileKept DEF IInv, FilesInv
  <2>2. Contents(type)' = Contents(type)
    BY <1>5 DEF Contents
  <2> QED
    BY <1>5, <2>1, <2>2 DEF IInv, ColumnInv, FilesInv, BoundInv
<1>7. RowsInv'
  BY <1>3, <1>5 DEF IInv, RowsInv
<1>8. NoneRefused'
  BY <1>4, <1>5 DEF IInv, NoneRefused
<1> QED
  BY <1>6, <1>7, <1>8 DEF IInv

\* A transaction writes one file, for which there is room.
LEMMA WriteStep ==
  ASSUME IInv, NEW origin, NEW values \in Contents(type), Write(origin, values)
  PROVE  IInv'
<1>1. /\ Cardinality(pending) + Cardinality(files) < MaxFiles[type]
      /\ pending' = pending \cup {[origin |-> origin, values |-> values]}
      /\ UNCHANGED <<type, types, old, statsLength, inlined, files, refused>>
  BY DEF Write, columnVars
<1>2. ColumnInv' /\ RowsInv' /\ NoneRefused'
  BY <1>1 DEF IInv, ColumnInv, RowsInv, NoneRefused
<1>3. FilesInv'
  <2>1. \A f \in pending' : f.values \in Contents(type)
    BY <1>1 DEF IInv, FilesInv
  <2>2. Contents(type)' = Contents(type)
    BY <1>1 DEF Contents
  <2>3. \A f \in files' : FileOK(f)'
    BY <1>1, FileKept DEF IInv, FilesInv
  <2> QED
    BY <2>1, <2>2, <2>3, <1>1 DEF FilesInv
<1>4. BoundInv'
  <2>1. IsFiniteSet(pending') /\ Cardinality(pending') <= Cardinality(pending) + 1
    <3> DEFINE added == [origin |-> origin, values |-> values]
    <3>1. /\ IsFiniteSet(pending \cup {added})
          /\ Cardinality(pending \cup {added}) = IF added \in pending THEN Cardinality(pending)
                                               ELSE Cardinality(pending) + 1
      BY FS_AddElement DEF IInv, BoundInv
    <3>2. Cardinality(pending) \in Nat
      BY FS_CardinalityType DEF IInv, BoundInv
    <3> HIDE DEF added
    <3> QED
      BY <1>1, <3>1, <3>2 DEF added
  <2>2. Cardinality(pending') \in Nat /\ Cardinality(pending) \in Nat /\ Cardinality(files) \in Nat
    BY <2>1, FS_CardinalityType DEF IInv, BoundInv
  <2>3. MaxFiles[type] \in Nat
    BY ColumnAssumption DEF IInv, ColumnInv
  <2> QED
    BY <2>1, <2>2, <2>3, <1>1 DEF IInv, BoundInv
<1> QED
  BY <1>2, <1>3, <1>4 DEF IInv


\* A bound that is cut off is unknown; the others fit.
LEMMA CutTells ==
  ASSUME NEW t, NEW values, NEW stats, IsStats(stats), Tells(t, stats, values), statsLength \in Nat
  PROVE  /\ IsStats(BoundStats(stats)) /\ Tells(t, BoundStats(stats), values)
         /\ statsLength > 0 => ~Past(BoundStats(stats))
<1> DEFINE Cut(bound) == IF statsLength > 0 /\ Bytes(type, bound) > statsLength THEN Null ELSE bound
           cut == BoundStats(stats)
<1>1. /\ cut = [min |-> Cut(stats.min), max |-> Cut(stats.max), nan |-> stats.nan]
  <2>1. PICK least, greatest, nan : stats = [min |-> least, max |-> greatest, nan |-> nan]
    BY DEF IsStats
  <2> HIDE DEF Cut
  <2>2. ASSUME NEW c, c = [stats EXCEPT !.min = Cut(@), !.max = Cut(@)]
        PROVE  c = [min |-> Cut(least), max |-> Cut(greatest), nan |-> nan]
    BY <2>1, <2>2
  <2> QED
    BY <2>1, <2>2 DEF BoundStats, Cut
<1>2. /\ cut.min = Cut(stats.min) /\ cut.max = Cut(stats.max) /\ cut.nan = stats.nan
  BY <1>1
<1>3. IsStats(cut)
  BY <1>1, <1>2 DEF IsStats
<1>4. ASSUME NEW bound PROVE Cut(bound) \in {bound, Null}
  OBVIOUS
<1>5. ASSUME NEW bound, statsLength > 0 PROVE ~(Bytes(type, Cut(bound)) > statsLength)
  <2>1. Bytes(type, Null) = 0
    BY DEF Bytes
  <2> QED
    BY <1>5, <2>1
<1> HIDE DEF Cut, cut
<1>6. Tells(t, cut, values)
  BY <1>2, <1>4 DEF Tells
<1>7. statsLength > 0 => ~Past(cut)
  BY <1>2, <1>5 DEF Past
<1> QED
  BY <1>3, <1>6, <1>7 DEF cut

\* Whichever way a commit goes, its statistics fit.
LEMMA CommitStep ==
  ASSUME IInv, NEW way \in Ways, Commit(way)
  PROVE  IInv'
<1> DEFINE Sent(f) == IF way = "batch" THEN BoundStats(Statistics(type, f.values)) ELSE Statistics(type, f.values)
           Kept(f) == [values |-> f.values, added |-> FALSE, stats |-> Sent(f)]
<1>1. /\ Takes(way)
      /\ IF statsLength > 0 /\ \E f \in pending : Past(Sent(f))
         THEN refused' = refused \cup {way} /\ UNCHANGED files
         ELSE files' = files \cup {Kept(f) : f \in pending} /\ UNCHANGED refused
      /\ pending' = {}
      /\ UNCHANGED <<type, types, old, statsLength, inlined>>
  BY DEF Commit, columnVars
<1>2. type \in DOMAIN Values /\ type \in types /\ statsLength \in Nat
  <2>1. ColumnInv /\ StatsLengths \subseteq Nat
    BY ColumnAssumption DEF IInv
  <2>2. type \in types
    BY <2>1 DEF ColumnInv
  <2> QED
    BY <2>1, <2>2 DEF ColumnInv
<1>3. ASSUME NEW f \in pending
      PROVE  /\ f.values \in Contents(type)
             /\ IsStats(Statistics(type, f.values)) /\ Tells(type, Statistics(type, f.values), f.values)
  BY <1>2, StatisticsTell DEF IInv, FilesInv
<1>4. ASSUME NEW f \in pending
      PROVE  IsStats(Sent(f)) /\ Tells(type, Sent(f), f.values)
  BY <1>2, <1>3, CutTells
<1>5. ~(statsLength > 0 /\ \E f \in pending : Past(Sent(f)))
  <2>1. CASE way = "batch"
    BY <1>2, <1>3, <2>1, CutTells
  <2>2. CASE way # "batch"
    BY <1>1, <2>2 DEF Takes, Ways, SupportsAppender, HasStatsPastBound
  <2> QED
    BY <2>1, <2>2
<1> HIDE DEF Sent
<1>6. files' = files \cup {Kept(f) : f \in pending} /\ refused' = refused
  BY <1>1, <1>5
<1>7. ColumnInv' /\ RowsInv' /\ NoneRefused'
  BY <1>1, <1>6 DEF IInv, ColumnInv, RowsInv, NoneRefused
<1>8. FilesInv'
  <2>1. ASSUME NEW f \in files PROVE FileOK(f)'
    BY <1>1, FileKept DEF IInv, FilesInv
  <2>2. ASSUME NEW f \in pending, NEW kept, kept = Kept(f) PROVE FileOK(kept)'
    <3>1. f.values \subseteq Values[type] /\ f.values # {}
      BY <1>3 DEF Contents
    <3>2. /\ kept.values = f.values /\ ~kept.added /\ kept.added \in BOOLEAN /\ kept.stats = Sent(f)
          /\ kept = [values |-> kept.values, added |-> kept.added, stats |-> kept.stats]
      BY <2>2
    <3> HIDE DEF Kept
    <3> QED
      BY <1>1, <1>2, <1>4, <3>1, <3>2 DEF FileOK
  <2> QED
    BY <1>1, <1>6, <2>1, <2>2 DEF FilesInv
<1>9. BoundInv'
  <2> DEFINE T == {Kept(f) : f \in pending}
             g == [f \in pending |-> Kept(f)]
  <2>1. T = {g[f] : f \in pending}
    OBVIOUS
  <2>2. IsFiniteSet(T) /\ Cardinality(T) <= Cardinality(pending)
    BY <2>1, ImageBound DEF IInv, BoundInv
  <2> HIDE DEF T, g
  <2>3. IsFiniteSet(files \cup T) /\ Cardinality(files \cup T) = Cardinality(files) + Cardinality(T) - Cardinality(files \cap T)
    BY <2>2, FS_Union DEF IInv, BoundInv
  <2>4. IsFiniteSet(files \cap T)
    BY <2>2, FS_Intersection DEF IInv, BoundInv
  <2>5. /\ Cardinality(files) \in Nat /\ Cardinality(T) \in Nat /\ Cardinality(files \cap T) \in Nat
        /\ Cardinality(pending) \in Nat /\ Cardinality({}) = 0 /\ IsFiniteSet({})
    BY <2>2, <2>4, FS_CardinalityType, FS_EmptySet DEF IInv, BoundInv
  <2>6. MaxFiles[type] \in Nat
    BY <1>2, ColumnAssumption
  <2> QED
    BY <1>1, <1>6, <2>2, <2>3, <2>5, <2>6 DEF IInv, BoundInv, T
<1> QED
  BY <1>7, <1>8, <1>9 DEF IInv


-----------------------------------------------------------------------------
(* A catalog of an earlier release *)

\* What a column reads of a value is the greatest value of its own that is not above it.
LEMMA ReadsOf ==
  ASSUME type \in DOMAIN Values, NEW from \in DOMAIN Values, <<from, type>> \in Addable, NEW v \in Values[from]
  PROVE  /\ AsRead(v) \in Values[type] /\ AsRead(v) <= v
         /\ \A u \in Values[type] : u <= v => u <= AsRead(v)
<1> DEFINE below == {w \in Values[type] : w <= v}
<1>1. \E w \in below : \A u \in below : u <= w
  <2>1. v \in Values[type] \/ v - 1 \in Values[type]
    <3>1. CASE from = "FLOAT" /\ type = "DOUBLE"
      BY <3>1 DEF Values, NaN
    <3>2. CASE from = "TIMESTAMP_NS" /\ type = "TIMESTAMP"
      BY <3>2 DEF Values
    <3>3. CASE from = "TIMESTAMP" /\ type = "TIMESTAMP_MS"
      BY <3>3 DEF Values, Dates
    <3>4. CASE from = "TIMESTAMP_MS" /\ type = "TIMESTAMP_SEC"
      BY <3>4 DEF Values, Dates
    <3> QED
      BY <3>1, <3>2, <3>3, <3>4 DEF Addable
  <2>2. v \in Int /\ \A u \in below : u \in Int
    BY Places
  <2>3. CASE v \in Values[type]
    BY <2>2, <2>3
  <2>4. CASE v \notin Values[type]
    <3>1. v - 1 \in below
      BY <2>1, <2>2, <2>4
    <3>2. \A u \in below : u <= v - 1
      BY <2>2, <2>4
    <3> QED
      BY <3>1, <3>2
  <2> QED
    BY <2>3, <2>4
<1>2. AsRead(v) = CHOOSE w \in below : \A u \in below : u <= w
  BY DEF AsRead
<1>3. AsRead(v) \in below /\ \A u \in below : u <= AsRead(v)
  BY <1>1, <1>2
<1> QED
  BY <1>3

\* A file of another type comes in with what it told of itself.
LEMMA AddStep ==
  ASSUME IInv, NEW from \in DOMAIN Values, NEW values \in Contents(from), Add(from, values)
  PROVE  IInv'
<1> DEFINE read == {AsRead(v) : v \in values}
           added == [values |-> read, added |-> TRUE, stats |-> Statistics(from, values)]
<1>1. /\ old /\ 9 \notin values /\ <<from, type>> \in Addable
      /\ Cardinality(pending) + Cardinality(files) < MaxFiles[type]
      /\ files' = files \cup {added}
      /\ UNCHANGED <<type, types, old, statsLength, inlined, pending, refused>>
  BY DEF Add, columnVars
<1>2. values \subseteq Values[from] /\ values # {} /\ type \in DOMAIN Values
  BY DEF Contents, IInv, ColumnInv
<1>3. read \subseteq Values[type] /\ read # {}
  BY <1>1, <1>2, ReadsOf
<1>4. ColumnInv' /\ RowsInv' /\ NoneRefused'
  BY <1>1 DEF IInv, ColumnInv, RowsInv, NoneRefused
<1>5. \A v : AsRead(v)' = AsRead(v)
  BY <1>1 DEF AsRead
<1>6. ASSUME NEW f, f = added PROVE FileOK(f)'
  <2>1. IsStats(Statistics(from, values)) /\ Tells(from, Statistics(from, values), values)
    BY StatisticsTell
  <2>2. /\ f = [values |-> f.values, added |-> f.added, stats |-> f.stats]
        /\ f.values = read /\ f.added /\ f.added \in BOOLEAN /\ f.stats = Statistics(from, values)
    BY <1>6
  <2>3. f.values = {AsRead(v)' : v \in values}
    BY <1>5, <2>2
  <2>4. IsAdded(f)'
    BY <1>1, <1>2, <2>1, <2>2, <2>3 DEF IsAdded
  <2> HIDE DEF read, added
  <2> QED
    BY <1>1, <1>3, <2>1, <2>2, <2>4 DEF FileOK
<1> HIDE DEF added
<1>7. FilesInv'
  <2>1. \A f \in files : FileOK(f)'
    BY <1>1, FileKept DEF IInv, FilesInv
  <2>2. Contents(type)' = Contents(type)
    BY <1>1 DEF Contents
  <2>3. \A f \in files' : FileOK(f)'
    BY <1>1, <1>6, <2>1
  <2> QED
    BY <1>1, <2>2, <2>3 DEF IInv, FilesInv
<1>8. BoundInv'
  <2>1. /\ IsFiniteSet(files \cup {added})
        /\ Cardinality(files \cup {added}) = IF added \in files THEN Cardinality(files) ELSE Cardinality(files) + 1
    BY FS_AddElement DEF IInv, BoundInv
  <2>2. Cardinality(pending) \in Nat /\ Cardinality(files) \in Nat
    BY FS_CardinalityType DEF IInv, BoundInv
  <2>3. MaxFiles[type] \in Nat
    BY <1>2, ColumnAssumption
  <2> QED
    BY <1>1, <2>1, <2>2, <2>3 DEF IInv, BoundInv
<1> QED
  BY <1>4, <1>7, <1>8 DEF IInv

\* A column widens once, and holds what it held; no file of another type is added before.
LEMMA WideningFacts ==
  ASSUME NEW from, NEW to, <<from, to>> \in Widenings
  PROVE  /\ from \in DOMAIN Values /\ to \in DOMAIN Values
         /\ Values[from] \subseteq Values[to]
         /\ \A t : <<t, from>> \notin Widenings /\ <<t, from>> \notin Addable
         /\ from \in Floats <=> to \in Floats
         /\ from \in Floats => from = "FLOAT" /\ to = "DOUBLE"
<1>1. PICK w \in Widenings : w = <<from, to>>
  OBVIOUS
<1>2. \/ from = "FLOAT" /\ to = "DOUBLE"
      \/ from = "INTEGER" /\ to = "BIGINT"
      \/ from = "UTINYINT" /\ to = "UINTEGER"
  BY DEF Widenings
<1>3. \A t : <<t, from>> \notin Widenings /\ <<t, from>> \notin Addable
  BY <1>2 DEF Widenings, Addable
<1>4. from \in DOMAIN Values /\ to \in DOMAIN Values
  BY <1>2 DEF Values
<1>5. Values[from] \subseteq Values[to]
  BY <1>2 DEF Values, NaN
<1> QED
  BY <1>2, <1>3, <1>4, <1>5 DEF Floats


\* Clearing a bound leaves what the others tell.
LEMMA ClearedTells ==
  ASSUME NEW t, NEW values, NEW stats, NEW cleared, Tells(t, stats, values),
         cleared.min \in {stats.min, Null}, cleared.max \in {stats.max, Null}, cleared.nan = stats.nan
  PROVE  Tells(t, cleared, values)
BY DEF Tells

\* The statistics that ALTER ... TYPE writes tell of the file what the old ones told.
LEMMA RewrittenTells ==
  ASSUME NEW from, NEW to, <<from, to>> \in Widenings, NEW values \in SUBSET Values[from],
         NEW stats, IsStats(stats), Tells(from, stats, values)
  PROVE  IsStats(RewriteRetypedStats(stats, to)) /\ Tells(to, RewriteRetypedStats(stats, to), values)
<1> DEFINE AsDouble(bound) == IF bound = 1 THEN 2 ELSE bound
           rewritten == RewriteRetypedStats(stats, to)
<1>1. Known(from, values) = Known(to, values)
  BY WideningFacts DEF Known
<1>2. PICK least, greatest, nan : stats = [min |-> least, max |-> greatest, nan |-> nan] /\ nan \in BOOLEAN
  BY DEF IsStats
<1>3. CASE to = "DOUBLE"
  <2>1. from = "FLOAT" /\ values \subseteq Values["FLOAT"]
    BY <1>3, WideningFacts DEF Floats
  <2>2. \A m \in Known(from, values) : AsDouble(Text(from, m)) = Text(to, m)
    BY <1>3, <2>1 DEF Known, Text, Values, NaN
  <2>3. AsDouble(Null) = Null
    BY DEF Null
  <2> HIDE DEF AsDouble
  <2>4. ASSUME NEW c, c = [stats EXCEPT !.min = AsDouble(@), !.max = AsDouble(@)]
        PROVE  c = [min |-> AsDouble(least), max |-> AsDouble(greatest), nan |-> nan]
    BY <1>2, <2>4
  <2>5. rewritten = [min |-> AsDouble(least), max |-> AsDouble(greatest), nan |-> nan]
    BY <1>2, <1>3, <2>4 DEF RewriteRetypedStats, AsDouble
  <2>6. /\ rewritten.min = AsDouble(least) /\ rewritten.max = AsDouble(greatest) /\ rewritten.nan = nan
        /\ stats.min = least /\ stats.max = greatest /\ stats.nan = nan
    BY <1>2, <2>5
  <2> HIDE DEF rewritten
  <2>7. IsStats(rewritten)
    BY <1>2, <2>5, <2>6 DEF IsStats
  <2>8. Tells(to, rewritten, values)
    <3>1. ASSUME rewritten.min # Null
          PROVE  \E m \in Known(to, values) : rewritten.min = Text(to, m) /\ \A v \in Known(to, values) : m <= v
      BY <1>1, <2>2, <2>3, <2>6, <3>1 DEF Tells
    <3>2. ASSUME rewritten.max # Null
          PROVE  \E m \in Known(to, values) : rewritten.max = Text(to, m) /\ \A v \in Known(to, values) : v <= m
      BY <1>1, <2>2, <2>3, <2>6, <3>2 DEF Tells
    <3>3. rewritten.nan <=> Known(to, values) # values
      BY <1>1, <2>6 DEF Tells
    <3> QED
      BY <3>1, <3>2, <3>3 DEF Tells
  <2> QED
    BY <2>7, <2>8 DEF rewritten
<1>4. CASE to # "DOUBLE"
  <2>1. ASSUME NEW c, c = [stats EXCEPT !.min = Null, !.max = Null]
        PROVE  c = [min |-> Null, max |-> Null, nan |-> nan]
    BY <1>2, <2>1
  <2>2. rewritten = [min |-> Null, max |-> Null, nan |-> nan]
    BY <1>2, <1>4, <2>1 DEF RewriteRetypedStats
  <2>3. rewritten.min = Null /\ rewritten.max = Null /\ rewritten.nan = nan /\ stats.nan = nan
    BY <1>2, <2>2
  <2> HIDE DEF rewritten
  <2>4. IsStats(rewritten)
    BY <1>2, <2>2, <2>3 DEF IsStats
  <2>5. Tells(to, rewritten, values)
    BY <1>1, <2>3 DEF Tells
  <2> QED
    BY <2>4, <2>5 DEF rewritten
<1> QED
  BY <1>3, <1>4

\* Retyped, the files' statistics are rewritten with the column; an earlier release leaves them.
LEMMA AlterStep ==
  ASSUME IInv, NEW to \in DOMAIN Values, Alter(to)
  PROVE  IInv'
<1> DEFINE Retyped(f) == [f EXCEPT !.stats = RewriteRetypedStats(@, to)]
<1>1. /\ <<type, to>> \in Widenings /\ pending = {} /\ inlined = {}
      /\ type' = to /\ types' = types \cup {to}
      /\ files' = IF old THEN files ELSE {Retyped(f) : f \in files}
      /\ UNCHANGED <<old, statsLength, inlined, pending, refused>>
  BY DEF Alter
<1>2. /\ Values[type] \subseteq Values[to]
      /\ \A t : <<t, type>> \notin Widenings /\ <<t, type>> \notin Addable
  BY <1>1, WideningFacts
<1>3. types = {type} /\ types' = {type, to}
  BY <1>1, <1>2 DEF IInv, ColumnInv
<1>4. ColumnInv' /\ RowsInv' /\ NoneRefused'
  BY <1>1, <1>3 DEF IInv, ColumnInv, RowsInv, NoneRefused
<1>5. ASSUME old, NEW f \in files PROVE FileOK(f)'
  <2>1. FileOK(f) /\ ~IsAdded(f)
    BY <1>2 DEF IInv, FilesInv, IsAdded
  <2>2. f.values \subseteq Values[to]
    BY <1>2, <2>1 DEF FileOK
  <2> QED
    BY <1>1, <1>3, <1>5, <2>1, <2>2 DEF FileOK
<1>6. ASSUME ~old, NEW f \in files, NEW g, g = Retyped(f) PROVE FileOK(g)'
  <2>1. FileOK(f)
    BY DEF IInv, FilesInv
  <2>2. g = [values |-> f.values, added |-> f.added, stats |-> RewriteRetypedStats(f.stats, to)]
    BY <1>6, <2>1 DEF FileOK
  <2>3. /\ g.values = f.values /\ g.added = f.added /\ g.stats = RewriteRetypedStats(f.stats, to)
        /\ g = [values |-> g.values, added |-> g.added, stats |-> g.stats]
    BY <2>2
  <2>4. IsStats(g.stats) /\ Tells(to, g.stats, f.values)
    BY <1>1, <1>6, <2>1, <2>3, RewrittenTells DEF FileOK
  <2>5. f.values \subseteq Values[to] /\ f.values # {} /\ f.added \in BOOLEAN
    BY <1>2, <2>1 DEF FileOK
  <2>6. old' = old
    BY <1>1
  <2> QED
    BY <1>1, <1>6, <2>3, <2>4, <2>5, <2>6 DEF FileOK
<1>7. FilesInv'
  BY <1>1, <1>5, <1>6 DEF FilesInv
<1>8. BoundInv'
  <2> DEFINE g == [f \in files |-> Retyped(f)]
  <2>1. \A T : T = {g[f] : f \in files} => IsFiniteSet(T) /\ Cardinality(T) <= Cardinality(files)
    BY ImageBound DEF IInv, BoundInv
  <2>2. {Retyped(f) : f \in files} = {g[f] : f \in files}
    OBVIOUS
  <2>3. IsFiniteSet(files) /\ IsFiniteSet(files')
    BY <1>1, <2>1, <2>2 DEF IInv, BoundInv
  <2>4. Cardinality(files') \in Nat /\ Cardinality(files) \in Nat /\ Cardinality(pending) \in Nat
    BY <2>3, FS_CardinalityType DEF IInv, BoundInv
  <2>5. Cardinality(files') <= Cardinality(files)
    BY <1>1, <2>1, <2>2, <2>4
  <2>6. MaxFiles[type] <= MaxFiles[to] /\ MaxFiles[type] \in Nat /\ MaxFiles[to] \in Nat
    BY <1>1, WideningFacts, ColumnAssumption, BoundAssumption
  <2> QED
    BY <1>1, <2>3, <2>4, <2>5, <2>6 DEF IInv, BoundInv
<1> QED
  BY <1>4, <1>7, <1>8 DEF IInv


\* Does the migration clear the bound of a file?
Distrusted(f, bound) ==
  \/ "DOUBLE" \in types /\ (types # {"DOUBLE"} \/ f.added) /\ ~IsReal(bound)
  \/ f.added /\ (IsFiner(bound) \/ "TIMESTAMP_TZ" \in types)

\* A bound of an added file that the migration leaves is one that the column reads as it is.
LEMMA TrustedIsRead ==
  ASSUME ColumnInv, NEW f, f.added, NEW from \in DOMAIN Values, <<from, type>> \in Addable,
         NEW m \in Values[from], ~Distrusted(f, Text(from, m))
  PROVE  m # 9 => AsRead(m) = m /\ Text(type, m) = Text(from, m)
<1> SUFFICES ASSUME m # 9 PROVE AsRead(m) = m /\ Text(type, m) = Text(from, m)
  OBVIOUS
<1>1. type \in types /\ type \in DOMAIN Values
  BY DEF ColumnInv
<1>2. m \in Values[type] /\ Text(type, m) = Text(from, m)
  <2>1. CASE from = "FLOAT" /\ type = "DOUBLE"
    BY <1>1, <2>1 DEF Distrusted, IsReal, Text, Values, NaN, ColumnInv, Widenings
  <2>2. CASE from = "TIMESTAMP_NS" /\ type = "TIMESTAMP"
    BY <1>1, <2>2 DEF Distrusted, IsFiner, Digits, Text, Values
  <2>3. CASE from = "TIMESTAMP" /\ type = "TIMESTAMP_MS"
    BY <1>1, <2>3 DEF Distrusted, IsFiner, Digits, Text, Values, Dates
  <2>4. CASE from = "TIMESTAMP_MS" /\ type = "TIMESTAMP_SEC"
    BY <1>1, <2>4 DEF Distrusted, IsFiner, Digits, Text, Values, Dates
  <2> QED
    BY <2>1, <2>2, <2>3, <2>4 DEF Addable
<1>3. m <= AsRead(m) /\ AsRead(m) <= m /\ AsRead(m) \in Values[type]
  BY <1>1, <1>2, ReadsOf, Places
<1>4. m \in Int /\ AsRead(m) \in Int
  BY <1>1, <1>2, <1>3, Places
<1> QED
  BY <1>2, <1>3, <1>4

\* What the migration leaves of an added file's statistics tells of the rows as the column reads them.
LEMMA AddedTells ==
  ASSUME ColumnInv, NEW f, f.added, IsAdded(f), NEW stats,
         stats.min # Null => stats.min = f.stats.min /\ ~Distrusted(f, stats.min),
         stats.max # Null => stats.max = f.stats.max /\ ~Distrusted(f, stats.max),
         stats.nan = f.stats.nan
  PROVE  Tells(type, stats, f.values)
<1>0. PICK from \in DOMAIN Values : \E values \in SUBSET Values[from] :
        /\ <<from, type>> \in Addable /\ 9 \notin values
        /\ f.values = {AsRead(v) : v \in values}
        /\ Tells(from, f.stats, values)
  BY DEF IsAdded
<1>1. PICK values \in SUBSET Values[from] :
        /\ <<from, type>> \in Addable /\ 9 \notin values
        /\ f.values = {AsRead(v) : v \in values}
        /\ Tells(from, f.stats, values)
  BY <1>0
<1>2. type \in DOMAIN Values
  BY DEF ColumnInv
<1>3. \A v \in values :
        /\ v \in Int /\ AsRead(v) \in Int /\ AsRead(v) <= v /\ AsRead(v) \in Values[type]
        /\ \A u \in Values[type] : u <= v => u <= AsRead(v)
  BY <1>1, <1>2, ReadsOf, Places
\* NaN is read as such, and nothing else is.
<1>4. \A v \in values : v \in Known(from, values) <=> AsRead(v) \in Known(type, f.values)
  <2>1. CASE from = "FLOAT" /\ type = "DOUBLE"
    <3>1. \A v \in values : v \in Values[type]
      BY <2>1 DEF Values, NaN
    <3>2. \A v \in values : v <= AsRead(v)
      BY <1>3, <3>1
    <3>3. \A v \in values : AsRead(v) = v
      BY <1>3, <3>2
    <3> QED
      BY <1>1, <2>1, <3>3 DEF Known, Floats
  <2>2. CASE from # "FLOAT"
    <3>1. from \notin Floats /\ type \notin Floats
      BY <1>1, <2>2 DEF Addable, Floats
    <3> QED
      BY <1>1, <3>1 DEF Known
  <2> QED
    BY <1>1, <2>1, <2>2 DEF Addable
<1>5. stats.nan <=> Known(type, f.values) # f.values
  <2>1. Known(from, values) \subseteq values /\ Known(type, f.values) \subseteq f.values
    BY DEF Known
  <2>2. Known(from, values) = values <=> Known(type, f.values) = f.values
    BY <1>1, <1>4, <2>1
  <2> QED
    BY <1>1, <2>2 DEF Tells
<1>6. ASSUME stats.min # Null
      PROVE  \E m \in Known(type, f.values) : stats.min = Text(type, m) /\ \A v \in Known(type, f.values) : m <= v
  <2>1. PICK m \in Known(from, values) : stats.min = Text(from, m) /\ \A v \in Known(from, values) : m <= v
    BY <1>1, <1>6 DEF Tells
  <2>2. m \in values /\ m # 9 /\ ~Distrusted(f, Text(from, m))
    BY <1>1, <1>6, <2>1 DEF Known
  <2>3. AsRead(m) = m /\ Text(type, m) = Text(from, m)
    BY <1>1, <2>2, TrustedIsRead
  <2>4. m \in Known(type, f.values)
    BY <1>4, <2>1, <2>2, <2>3
  <2>5. ASSUME NEW v \in Known(type, f.values) PROVE m <= v
    <3>1. PICK w \in values : v = AsRead(w)
      BY <1>1 DEF Known
    <3>2. m <= w
      BY <1>4, <2>1, <3>1
    <3> QED
      BY <1>3, <2>2, <2>3, <3>1, <3>2
  <2> QED
    BY <2>1, <2>3, <2>4, <2>5
<1>7. ASSUME stats.max # Null
      PROVE  \E m \in Known(type, f.values) : stats.max = Text(type, m) /\ \A v \in Known(type, f.values) : v <= m
  <2>1. PICK m \in Known(from, values) : stats.max = Text(from, m) /\ \A v \in Known(from, values) : v <= m
    BY <1>1, <1>7 DEF Tells
  <2>2. m \in values /\ m # 9 /\ ~Distrusted(f, Text(from, m))
    BY <1>1, <1>7, <2>1 DEF Known
  <2>3. AsRead(m) = m /\ Text(type, m) = Text(from, m)
    BY <1>1, <2>2, TrustedIsRead
  <2>4. m \in Known(type, f.values)
    BY <1>4, <2>1, <2>2, <2>3
  <2>5. ASSUME NEW v \in Known(type, f.values) PROVE v <= m
    <3>1. PICK w \in values : v = AsRead(w)
      BY <1>1 DEF Known
    <3>2. w <= m
      BY <1>4, <2>1, <3>1
    <3> QED
      BY <1>3, <2>2, <3>1, <3>2
  <2> QED
    BY <2>1, <2>3, <2>4, <2>5
<1> QED
  BY <1>5, <1>6, <1>7 DEF Tells

\* So does what it leaves of the statistics written for a type that the column had.
LEMMA CommittedTells ==
  ASSUME ColumnInv, NEW f, NEW t \in types, Tells(t, f.stats, f.values), ~f.added, NEW stats,
         stats.min # Null => stats.min = f.stats.min /\ ~Distrusted(f, stats.min),
         stats.max # Null => stats.max = f.stats.max /\ ~Distrusted(f, stats.max),
         stats.nan = f.stats.nan
  PROVE  Tells(type, stats, f.values)
<1>1. CASE t = type
  BY <1>1 DEF Tells
<1>2. CASE t # type
  <2>1. <<t, type>> \in Widenings /\ types = {t, type}
    <3>1. types # {type}
      BY <1>2
    <3>2. PICK from : <<from, type>> \in Widenings /\ types = {from, type}
      BY <3>1 DEF ColumnInv
    <3>3. from = t
      BY <1>2, <3>2
    <3> QED
      BY <3>2, <3>3
  <2>2. Known(t, f.values) = Known(type, f.values)
    BY <2>1, WideningFacts DEF Known
  <2>3. ASSUME NEW m, ~Distrusted(f, Text(t, m)) PROVE Text(type, m) = Text(t, m)
    <3>1. CASE t = "FLOAT"
      <4>1. type = "DOUBLE" /\ types # {"DOUBLE"} /\ "DOUBLE" \in types
        BY <2>1, <3>1 DEF Widenings
      <4> QED
        BY <2>3, <3>1, <4>1 DEF Distrusted, IsReal, Text
    <3>2. CASE t # "FLOAT"
      <4>1. type # "FLOAT"
        BY <2>1 DEF Widenings
      <4> QED
        BY <3>2, <4>1 DEF Text
    <3> QED
      BY <3>1, <3>2
  <2> QED
    BY <2>2, <2>3 DEF Tells
<1> QED
  BY <1>1, <1>2

\* Afterwards every file's statistics are those of the column's type.
LEMMA MigrateStep ==
  ASSUME IInv, MigrateToV1_1
  PROVE  IInv'
<1>1. /\ old /\ pending = {} /\ old' = FALSE
      /\ files' = {RetypedBoundsMigration(f) : f \in files}
      /\ UNCHANGED <<type, types, statsLength, inlined, pending, refused>>
  BY DEF MigrateToV1_1
<1>2. ColumnInv' /\ RowsInv' /\ NoneRefused' /\ ColumnInv
  BY <1>1 DEF IInv, ColumnInv, RowsInv, NoneRefused
<1>3. ASSUME NEW f \in files, NEW g, g = RetypedBoundsMigration(f) PROVE FileOK(g)'
  <2> DEFINE Clear(bound) == IF Distrusted(f, bound) THEN Null ELSE bound
  <2>1. FileOK(f)
    BY DEF IInv, FilesInv
  <2>2. PICK values, added, least, greatest, nan :
          /\ f = [values |-> values, added |-> added, stats |-> [min |-> least, max |-> greatest, nan |-> nan]]
          /\ nan \in BOOLEAN
    BY <2>1 DEF FileOK, IsStats
  <2>3. g = [f EXCEPT !.stats.min = Clear(@), !.stats.max = Clear(@)]
    BY <1>3 DEF RetypedBoundsMigration, Distrusted
  <2> HIDE DEF Clear
  <2>4. g = [values |-> values, added |-> added, stats |-> [min |-> Clear(least), max |-> Clear(greatest), nan |-> nan]]
    BY <2>2, <2>3
  <2>5. /\ g.values = f.values /\ g.added = f.added
        /\ g = [values |-> g.values, added |-> g.added, stats |-> g.stats]
        /\ g.stats = [min |-> Clear(least), max |-> Clear(greatest), nan |-> nan]
    BY <2>2, <2>4
  <2>6. /\ g.stats.min = Clear(f.stats.min) /\ g.stats.max = Clear(f.stats.max) /\ g.stats.nan = f.stats.nan
        /\ f.stats.nan \in BOOLEAN
    BY <2>2, <2>5
  <2>7. IsStats(g.stats)
    BY <2>2, <2>5 DEF IsStats
  <2>8. /\ g.stats.min # Null => g.stats.min = f.stats.min /\ ~Distrusted(f, g.stats.min)
        /\ g.stats.max # Null => g.stats.max = f.stats.max /\ ~Distrusted(f, g.stats.max)
    BY <2>6 DEF Clear
  <2>9. Tells(type, g.stats, f.values)
    <3>1. CASE f.added
      BY <1>1, <1>2, <2>1, <2>6, <2>8, <3>1, AddedTells DEF FileOK
    <3>2. CASE ~f.added
      BY <1>1, <1>2, <2>1, <2>6, <2>8, <3>2, CommittedTells DEF FileOK
    <3> QED
      BY <3>1, <3>2
  <2> QED
    BY <1>1, <2>1, <2>5, <2>7, <2>9 DEF FileOK
<1>4. FilesInv'
  BY <1>1, <1>3 DEF FilesInv
<1>5. BoundInv'
  <2> DEFINE g == [f \in files |-> RetypedBoundsMigration(f)]
  <2>1. \A T : T = {g[f] : f \in files} => IsFiniteSet(T) /\ Cardinality(T) <= Cardinality(files)
    BY ImageBound DEF IInv, BoundInv
  <2>2. files' = {g[f] : f \in files}
    BY <1>1
  <2>3. IsFiniteSet(files') /\ Cardinality(files') <= Cardinality(files)
    BY <2>1, <2>2
  <2>4. Cardinality(files') \in Nat /\ Cardinality(files) \in Nat /\ Cardinality(pending) \in Nat
    BY <2>3, FS_CardinalityType DEF IInv, BoundInv
  <2>5. MaxFiles[type] \in Nat
    BY ColumnAssumption DEF IInv, ColumnInv
  <2> QED
    BY <1>1, <2>3, <2>4, <2>5 DEF IInv, BoundInv
<1> QED
  BY <1>2, <1>4, <1>5 DEF IInv


\* Every step keeps the invariant.
LEMMA NextInv == IInv /\ [Next]_vars => IInv'
<1> SUFFICES ASSUME IInv, [Next]_vars PROVE IInv'
  OBVIOUS
<1>1. ASSUME NEW v \in Values[type], Inline(v) PROVE IInv'
  BY <1>1, InlineStep
<1>2. ASSUME NEW origin \in {"insert", "compaction"}, NEW values \in Contents(type), Write(origin, values) PROVE IInv'
  BY <1>2, WriteStep
<1>3. ASSUME NEW way \in Ways, Commit(way) PROVE IInv'
  BY <1>3, CommitStep
<1>4. ASSUME NEW to \in DOMAIN Values, Alter(to) PROVE IInv'
  BY <1>4, AlterStep
<1>5. ASSUME NEW from \in DOMAIN Values, NEW values \in Contents(from), Add(from, values) PROVE IInv'
  BY <1>5, AddStep
<1>6. CASE MigrateToV1_1
  BY <1>6, MigrateStep
<1>7. CASE UNCHANGED vars
  <2>1. UNCHANGED <<type, types, old, statsLength, inlined, pending, files, refused>>
    BY <1>7 DEF vars, columnVars
  <2>2. ColumnInv' /\ RowsInv' /\ BoundInv' /\ NoneRefused'
    BY <2>1 DEF IInv, ColumnInv, RowsInv, BoundInv, NoneRefused
  <2>3. \A f \in files' : FileOK(f)'
    BY <2>1, FileKept DEF IInv, FilesInv
  <2>4. Contents(type)' = Contents(type)
    BY <2>1 DEF Contents
  <2> QED
    BY <2>1, <2>2, <2>3, <2>4 DEF IInv, FilesInv
<1> QED
  BY <1>1, <1>2, <1>3, <1>4, <1>5, <1>6, <1>7 DEF Next

\* The invariant holds always.
THEOREM Invariance == Spec => []IInv
<1>1. Init => IInv
  BY InitInv
<1>2. IInv /\ [Next]_vars => IInv'
  BY NextInv
<1> QED
  BY <1>1, <1>2, PTL DEF Spec

-----------------------------------------------------------------------------
(* The theorems *)

\* Type correctness: rows and files hold values of the column's type, whatever it was, and are no more
\* than the bound.
THEOREM Typing == Spec => []TypeOK
<1>1. IInv => TypeOK
  <2> SUFFICES ASSUME IInv PROVE TypeOK
    OBVIOUS
  <2>1. type \in types /\ types \subseteq DOMAIN Values
    <3>1. CASE types = {type}
      BY <3>1 DEF IInv, ColumnInv
    <3>2. CASE \E from : <<from, type>> \in Widenings /\ types = {from, type}
      BY <3>2, WideningFacts
    <3> QED
      BY <3>1, <3>2 DEF IInv, ColumnInv
  <2>2. old \in BOOLEAN /\ statsLength \in StatsLengths \cup {0}
    BY DEF IInv, ColumnInv
  <2>3. \A r \in inlined : r.value \in Values[type] /\ r.stored \in Values[type]
    BY DEF IInv, RowsInv
  <2>4. ASSUME NEW f \in pending \cup files PROVE f.values \subseteq Values[type] /\ f.values # {}
    BY DEF IInv, FilesInv, FileOK, Contents
  <2>5. refused \subseteq Ways \cup {"literal", "base"}
    BY DEF IInv, NoneRefused
  <2> QED
    BY <2>1, <2>2, <2>3, <2>4, <2>5 DEF IInv, BoundInv, TypeOK
<1> QED
  BY <1>1, Invariance, PTL

\* The server refuses no literal that the manager rendered for the type of its column, and no statistic
\* of a commit, whichever way it goes and whatever bound the catalog puts on them.
THEOREM NoneIsRefused == Spec => []NoneRefused
<1>1. IInv => NoneRefused
  BY DEF IInv
<1> QED
  BY <1>1, Invariance, PTL


\* The texts of a type's values are in their order, and are read back as them.
LEMMA TextOrder ==
  ASSUME NEW t \in DOMAIN Values, NEW u \in Values[t], NEW w \in Values[t]
  PROVE  /\ Text(t, u) \in Int /\ Text(t, u) # Null /\ u # Null
         /\ u < w <=> Text(t, u) < Text(t, w)
         /\ u = w <=> Text(t, u) = Text(t, w)
         /\ AsTyped(t, Text(t, u)) = u
<1>1. u \in Int /\ w \in Int /\ u > -12 /\ w > -12
  BY Places
<1>2. CASE t = "FLOAT"
  <2>1. Values["FLOAT"] = {-5, 0, 2, 5, 6}
    BY DEF Values, NaN
  <2>2. \A x \in {u, w} : x <= 0 \/ x = 2 \/ x >= 5
    BY <1>2, <2>1
  <2>3. \A x \in {u, w} : Text(t, x) = IF x = 2 THEN 1 ELSE x
    BY <1>2 DEF Text
  <2>4. AsTyped(t, Text(t, u)) = u
    BY <1>1, <1>2, <2>2, <2>3 DEF AsTyped
  <2> QED
    BY <1>1, <2>2, <2>3, <2>4 DEF Null
<1>3. CASE t # "FLOAT"
  BY <1>1, <1>3 DEF Text, AsTyped, Null
<1> QED
  BY <1>2, <1>3

\* The comparisons, one by one.
LEMMA MatchesIs ==
  ASSUME NEW v, NEW c
  PROVE  /\ Matches(v, "=", c) <=> v = c
         /\ Matches(v, "<", c) <=> v < c
         /\ Matches(v, "<=", c) <=> v <= c
         /\ Matches(v, ">", c) <=> v > c
         /\ Matches(v, ">=", c) <=> v >= c
<1>1. Matches(v, "=", c) <=> v = c
  BY DEF Matches
<1>2. Matches(v, "<", c) <=> v < c
  BY DEF Matches
<1>3. Matches(v, "<=", c) <=> v <= c
  BY DEF Matches
<1>4. Matches(v, ">", c) <=> v > c
  BY DEF Matches
<1>5. Matches(v, ">=", c) <=> v >= c
  BY DEF Matches
<1> QED
  BY <1>1, <1>2, <1>3, <1>4, <1>5

\* And what each admits, of a file's bounds.
LEMMA AdmitsIs ==
  ASSUME NEW min, NEW max, NEW c
  PROVE  /\ Admits(min, max, "=", c) <=> min <= c /\ c <= max
         /\ Admits(min, max, "<", c) <=> min < c
         /\ Admits(min, max, "<=", c) <=> min <= c
         /\ Admits(min, max, ">", c) <=> max > c
         /\ Admits(min, max, ">=", c) <=> max >= c
<1>1. Admits(min, max, "=", c) <=> min <= c /\ c <= max
  BY DEF Admits
<1>2. Admits(min, max, "<", c) <=> min < c
  BY DEF Admits
<1>3. Admits(min, max, "<=", c) <=> min <= c
  BY DEF Admits
<1>4. Admits(min, max, ">", c) <=> max > c
  BY DEF Admits
<1>5. Admits(min, max, ">=", c) <=> max >= c
  BY DEF Admits
<1> QED
  BY <1>1, <1>2, <1>3, <1>4, <1>5

\* The bounds that are known lie on either side of every value but NaN.
LEMMA BoundsOf ==
  ASSUME NEW t \in DOMAIN Values, NEW values \in SUBSET Values[t], NEW stats, Tells(t, stats, values),
         NEW v \in Known(t, values)
  PROVE  /\ stats.min # Null => \E m \in Values[t] : stats.min = Text(t, m) /\ m <= v
         /\ stats.max # Null => \E m \in Values[t] : stats.max = Text(t, m) /\ v <= m
BY DEF Tells, Known

\* A NaN is told of, and nothing that it matches goes unlisted.
LEMMA NaNListed ==
  ASSUME type \in DOMAIN Values, NEW f, f.values \subseteq Values[type], Tells(type, f.stats, f.values),
         NEW op \in Comparisons, NEW c \in Values[type], NEW route,
         NEW v \in f.values, v \notin Known(type, f.values), Matches(v, op, c)
  PROVE  Listed(route, f, op, c)
<1>1. type \in Floats /\ v = NaN
  BY DEF Known
<1>2. f.stats.nan
  BY DEF Tells
<1>3. c \in Int /\ c <= 6
  BY <1>1 DEF Floats, Values, NaN
<1>4. op \in {">", ">="} \/ c = NaN
  BY <1>1, <1>3, MatchesIs DEF Comparisons, NaN
<1> QED
  BY <1>2, <1>4 DEF Listed

\* DuckDB's own file list leaves out no file with a row that matches.
LEMMA CatalogLists ==
  ASSUME type \in DOMAIN Values, NEW f, f.values \subseteq Values[type], Tells(type, f.stats, f.values),
         NEW op \in Comparisons, NEW c \in Values[type], NEW v \in f.values, Matches(v, op, c)
  PROVE  Listed("catalog", f, op, c)
<1>1. CASE v \notin Known(type, f.values)
  BY <1>1, NaNListed
<1>2. CASE v \in Known(type, f.values)
  <2> DEFINE min == AsTyped(type, f.stats.min)
             max == AsTyped(type, f.stats.max)
  <2>1. v \in Int /\ c \in Int /\ v \in Values[type]
    BY Places
  <2>2. f.stats.min # Null => min \in Int /\ min <= v
    <3>1. SUFFICES ASSUME f.stats.min # Null PROVE min \in Int /\ min <= v
      OBVIOUS
    <3>2. PICK m \in Values[type] : f.stats.min = Text(type, m) /\ m <= v
      BY <1>2, <3>1, BoundsOf
    <3> QED
      BY <3>2, TextOrder, Places
  <2>3. f.stats.max # Null => max \in Int /\ v <= max
    <3>1. SUFFICES ASSUME f.stats.max # Null PROVE max \in Int /\ v <= max
      OBVIOUS
    <3>2. PICK m \in Values[type] : f.stats.max = Text(type, m) /\ v <= m
      BY <1>2, <3>1, BoundsOf
    <3> QED
      BY <3>2, TextOrder, Places
  <2> HIDE DEF min, max
  <2>4. Unknown(f.stats, op) \/ Admits(min, max, op, c)
    BY <2>1, <2>2, <2>3, MatchesIs, AdmitsIs DEF Unknown, Comparisons
  <2> QED
    BY <2>4 DEF Listed, min, max
<1> QED
  BY <1>1, <1>2

\* Nor does the one that the server makes, but for a constant it does not read, and one where the stand-in
\* of a bound ends that it could not read.
LEMMA ServerLists ==
  ASSUME type \in DOMAIN Values, NEW f, f.values \subseteq Values[type], Tells(type, f.stats, f.values),
         NEW op \in Comparisons, NEW c \in Values[type], NEW v \in f.values, Matches(v, op, c)
  PROVE  Listed("server", f, op, c) \/ Fails(type, c) \/ PastStandIn(f, op, c)
<1>1. CASE v \notin Known(type, f.values)
  BY <1>1, NaNListed
<1>2. CASE CastValueToTarget(type, c) = Null
  BY <1>2 DEF Listed
<1>3. CASE v \in Known(type, f.values) /\ CastValueToTarget(type, c) # Null
  <2> DEFINE min == CastStatsToTarget(type, f.stats.min, "min")
             max == CastStatsToTarget(type, f.stats.max, "max")
             text == Text(type, c)
             lowest == StatsTypeFor(type).lowest
             highest == StatsTypeFor(type).highest
  <2>1. CastValueToTarget(type, c) = text
    BY <1>3 DEF CastValueToTarget
  <2>2. v \in Values[type] /\ text \in Int /\ Text(type, v) \in Int /\ v \in Int /\ c \in Int
    BY TextOrder, Places
  <2>3. Matches(Text(type, v), op, text)
    BY <2>2, TextOrder, MatchesIs DEF Comparisons
  <2>4. ASSUME f.stats.min # Null, ComparedAsText(type) \/ Read(type, f.stats.min) # Null
        PROVE  min \in Int /\ min <= Text(type, v)
    <3>1. PICK m \in Values[type] : f.stats.min = Text(type, m) /\ m <= v
      BY <1>3, <2>4, BoundsOf
    <3>2. min = Text(type, m)
      BY <2>4, <3>1 DEF CastStatsToTarget
    <3>3. m \in Int /\ Text(type, m) \in Int
      BY TextOrder, Places
    <3>4. Text(type, m) <= Text(type, v)
      BY <2>2, <3>1, <3>3, TextOrder
    <3> QED
      BY <3>2, <3>3, <3>4
  <2>5. ASSUME f.stats.max # Null, ComparedAsText(type) \/ Read(type, f.stats.max) # Null
        PROVE  max \in Int /\ Text(type, v) <= max
    <3>1. PICK m \in Values[type] : f.stats.max = Text(type, m) /\ v <= m
      BY <1>3, <2>5, BoundsOf
    <3>2. max = Text(type, m)
      BY <2>5, <3>1 DEF CastStatsToTarget
    <3>3. m \in Int /\ Text(type, m) \in Int
      BY TextOrder, Places
    <3>4. Text(type, v) <= Text(type, m)
      BY <2>2, <3>1, <3>3, TextOrder
    <3> QED
      BY <3>2, <3>3, <3>4
  \* What stands in for a bound is compared with the constant as the bound would be.
  <2>6. /\ lowest \in Int /\ highest \in Int
        /\ c > lowest => text > lowest
        /\ c >= lowest => text >= lowest
        /\ c < highest => text < highest
        /\ c <= highest => text <= highest
    <3>1. CASE type = "FLOAT" /\ c = 2
      BY <3>1 DEF StatsTypeFor, Text, Integral, Wide, Floats
    <3>2. CASE ~(type = "FLOAT" /\ c = 2)
      BY <2>2, <3>2 DEF StatsTypeFor, NoType, Null, Text
    <3> QED
      BY <3>1, <3>2
  <2>7. ASSUME f.stats.min # Null, ~(ComparedAsText(type) \/ Read(type, f.stats.min) # Null)
        PROVE  min = lowest /\ Read(type, f.stats.min) = Null
    BY <2>7 DEF CastStatsToTarget
  <2>8. ASSUME f.stats.max # Null, ~(ComparedAsText(type) \/ Read(type, f.stats.max) # Null)
        PROVE  max = highest /\ Read(type, f.stats.max) = Null
    BY <2>8 DEF CastStatsToTarget
  <2> HIDE DEF min, max, text
  <2>9. Unknown(f.stats, op) \/ Admits(min, max, op, text) \/ PastStandIn(f, op, c)
    <3> DEFINE readMin == ComparedAsText(type) \/ Read(type, f.stats.min) # Null
               readMax == ComparedAsText(type) \/ Read(type, f.stats.max) # Null
    <3>1. ASSUME op \in {"=", "<", "<="}, f.stats.min # Null
          PROVE  PastStandIn(f, op, c) \/ (IF op = "<" THEN min < text ELSE min <= text)
      <4>1. CASE readMin
        BY <2>2, <2>3, <2>4, <3>1, <4>1, MatchesIs
      <4>2. CASE ~readMin
        BY <2>2, <2>6, <2>7, <3>1, <4>2 DEF PastStandIn
      <4> QED
        BY <4>1, <4>2
    <3>2. ASSUME op \in {"=", ">", ">="}, f.stats.max # Null
          PROVE  PastStandIn(f, op, c) \/ (IF op = ">" THEN max > text ELSE max >= text)
      <4>1. CASE readMax
        BY <2>2, <2>3, <2>5, <3>2, <4>1, MatchesIs
      <4>2. CASE ~readMax
        BY <2>2, <2>6, <2>8, <3>2, <4>2 DEF PastStandIn
      <4> QED
        BY <4>1, <4>2
    <3>3. (max >= text) => (text <= max)
      BY DEF text
    <3> QED
      BY <3>1, <3>2, <3>3, AdmitsIs DEF Unknown, Comparisons
  <2> QED
    BY <2>1, <2>9 DEF Listed, min, max
<1> QED
  BY <1>1, <1>2, <1>3

\* A reader finds what it looks for: an inlined row compares as it was written, and a file with a row
\* that matches a filter is in both file lists, with the two exceptions the server makes - after an
\* ALTER ... TYPE, with bounds cut off, and in an earlier release's catalog once it is migrated.
THEOREM FilesAreFound == Spec => []FiltersFindTheRows
<1>1. IInv => FiltersFindTheRows
  <2> SUFFICES ASSUME IInv, ~old, NEW op \in Comparisons, NEW c \in Values[type]
               PROVE  /\ \A r \in inlined : Matches(r.value, op, c) = Matches(r.stored, op, c)
                      /\ \A f \in files : (\E v \in f.values : Matches(v, op, c)) =>
                           /\ Listed("catalog", f, op, c)
                           /\ Listed("server", f, op, c) \/ Fails(type, c) \/ PastStandIn(f, op, c)
    BY DEF FiltersFindTheRows
  <2>1. \A r \in inlined : Matches(r.value, op, c) = Matches(r.stored, op, c)
    BY DEF IInv, RowsInv
  <2>2. ASSUME NEW f \in files, NEW v \in f.values, Matches(v, op, c)
        PROVE  /\ Listed("catalog", f, op, c)
               /\ Listed("server", f, op, c) \/ Fails(type, c) \/ PastStandIn(f, op, c)
    <3>1. type \in DOMAIN Values /\ f.values \subseteq Values[type] /\ Tells(type, f.stats, f.values)
      BY DEF IInv, ColumnInv, FilesInv, FileOK
    <3> QED
      BY <2>2, <3>1, CatalogLists, ServerLists
  <2> QED
    BY <2>1, <2>2
<1> QED
  BY <1>1, Invariance, PTL
=============================================================================
