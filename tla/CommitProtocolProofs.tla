------------------------ MODULE CommitProtocolProofs ------------------------
(***************************************************************************)
(* Proofs about CommitProtocol, for any tables, writers, works and bounds. *)
(*                                                                         *)
(* The inductive invariant says of each writer what its reads are worth:   *)
(* a snapshot it has read is the last one or an older one, and as long as  *)
(* it is the last one, the totals it read since are the stored ones and no *)
(* table it writes is gone.  That is what the primary key of the snapshots *)
(* and the lock of the last one make of a stale read.                      *)
(*                                                                         *)
(* What the ids of a lake rest on is proved first, of the serial lake that *)
(* the commits implement: the arithmetic of row ids, and that no id is     *)
(* given twice.                                                            *)
(***************************************************************************)
EXTENDS CommitProtocol, FiniteSetTheorems, WellFoundedInduction, TLAPS

Tx == [pc : Phase, work : Work \cup {<<>>}, drop : SUBSET Table,
       base : Snapshot, seen : Snapshot, met : BOOLEAN, asks : SUBSET Part,
       stats : [Table -> Totals], todo : SUBSET Table]

\* s is the last snapshot, or was.
Past(s) == s.id <= snapshot.id /\ (s.id = snapshot.id => s = snapshot)

Touched(q) == Lake!TablesOf(q.work) \cup q.drop

DroppedSince(q) == \E t \in Table : dropAt[t] > q.base.id

\* A table that it touches was dropped since it began.
Overtaken(q) == \E t \in Touched(q) : dropAt[t] > q.base.id

\* A transaction adds files or drops one table.
WorkInv(q) ==
  \/ q.pc = "idle" /\ q.work = <<>> /\ q.drop = {}
  \/ q.pc # "idle" /\ q.work \in Work /\ q.drop = {}
  \/ q.pc # "idle" /\ q.work = <<>> /\ \E t \in Table : q.drop = {t}

\* It knows the lake as it was where it began: the schema has moved since if and only if a table
\* was dropped, and what it writes was there.
BaseInv(q) ==
  /\ Past(q.base)
  /\ q.base.schema <= snapshot.schema
  /\ q.base.schema < snapshot.schema <=> DroppedSince(q)
  /\ \A t \in Touched(q) : dropAt[t] # 0 => dropAt[t] > q.base.id

\* The snapshot it read is the last one under the lock, and the totals it read since are the stored
\* ones while it is; the conflict check reads its snapshot before anything else.
ReadInv(q) ==
  /\ Past(q.seen)
  /\ q.pc = "merge" => q.seen = snapshot
  /\ q.pc = "batch" => q.todo = {}
  /\ q.pc = "check" =>
       /\ "snapshot" \in q.asks => /\ "changes" \in q.asks /\ "totals" \in q.asks
                                   /\ Lake!TablesOf(q.work) \subseteq q.todo
       /\ "changes" \in q.asks => "totals" \in q.asks
       /\ "totals" \notin q.asks => q.todo = {}
  /\ q.pc \in {"stats", "batch", "check", "merge"} /\ q.seen.id = snapshot.id =>
       \A t \in Lake!TablesOf(q.work) \ q.todo : q.stats[t] = totals[t]

\* A batch built on the last snapshot writes no table that is gone, and one that met a conflict met
\* a drop.
ConflictInv(q) ==
  /\ (q.pc \in {"stats", "batch"} \/ (q.pc = "check" /\ "changes" \notin q.asks /\ ~q.met)) =>
       (q.seen.id = snapshot.id => \A t \in Touched(q) : dropAt[t] = 0)
  /\ q.pc = "check" /\ "changes" \notin q.asks /\ q.met => Overtaken(q)
  /\ q.pc = "conflict" => DroppedSince(q)

TxInv(q) == WorkInv(q) /\ BaseInv(q) /\ ReadInv(q) /\ ConflictInv(q)

\* The path of a writer whose record is q, by what it commits: TakesApply.
AppliesAs(w, q) ==
  /\ w \in Armed
  /\ IsDataFilesOnlyCommit(q)
  /\ Len(q.work) >= MinFiles \/ w \in Skipping

\* It stays on its path, and on the loop's it gives up only what another dropped.
PathInv(w, q) ==
  /\ q.pc \in {"stats", "batch", "check"} => ~AppliesAs(w, q)
  /\ q.pc \in {"lock", "merge", "lost"} => AppliesAs(w, q)
  /\ q.pc = "conflict" => AppliesAs(w, q) \/ Overtaken(q)

\* No table was dropped at a snapshot to come.
DropsPast == \A t \in Table : dropAt[t] <= snapshot.id

IInv == TypeOK /\ IdsUnique /\ DropsPast /\ \A w \in Writer : TxInv(tx[w]) /\ PathInv(w, tx[w])

-----------------------------------------------------------------------------
(* The ids of a lake, whoever commits to it *)

\* A work is a sequence of files.
File == [table : Table, records : Nat]

\* A work has a length, and its entries are files.
LEMMA WorkFacts ==
  ASSUME NEW work \in Seq(File)
  PROVE  /\ Len(work) \in Nat /\ DOMAIN work = 1..Len(work)
         /\ \A i \in 1..Len(work) : /\ work[i] \in File
                                   /\ work[i].table \in Table /\ work[i].records \in Nat
  <1>1. Len(work) \in Nat /\ DOMAIN work = 1..Len(work)
    OBVIOUS
  <1>2. \A i \in 1..Len(work) : work[i] \in File
    OBVIOUS
  <1>3. \A f \in File : f.table \in Table /\ f.records \in Nat
    BY DEF File
  <1> QED BY <1>1, <1>2, <1>3

\* What the i-th file of work adds to t.
RowsAt(work, t, i) == IF work[i].table = t THEN work[i].records ELSE 0

-----------------------------------------------------------------------------
(* Row counts *)

\* A set of naturals has a least element: the form of induction that the proofs below use.
LEMMA LeastNatural ==
  ASSUME NEW T, T \subseteq Nat, T # {}
  PROVE  \E x \in T : \A y \in T : x <= y
  <1> DEFINE R == {ss \in Nat \X Nat : ss[1] < ss[2]}
  <1>1. IsWellFoundedOn(R, Nat)
    BY NatLessThanWellFounded DEF OpToRel
  <1>2. PICK x \in T : \A y \in T : ~ (<<y, x>> \in R)
    <2> HIDE DEF R
    <2> QED BY <1>1, WFMin
  <1>3. \A a, b \in Nat : a < b => <<a, b>> \in R
    OBVIOUS
  <1>4. \A y \in T : x <= y
    <2> HIDE DEF R
    <2> TAKE y \in T
    <2>1. x \in Nat /\ y \in Nat
      OBVIOUS
    <2>2. ~(y < x)
      BY <1>2, <1>3, <2>1
    <2> QED BY <2>1, <2>2
  <1> QED BY <1>4

\* The recursive count of rows is a function: it is 0 before the first file and grows by each
\* file's records, file after file.
LEMMA RowsUpToEquations ==
  ASSUME NEW work \in Seq(File), NEW t
  PROVE  /\ Lake!RowsUpTo(work, t, 0) = 0
         /\ \A i \in 1..Len(work) : Lake!RowsUpTo(work, t, i) = Lake!RowsUpTo(work, t, i - 1) + RowsAt(work, t, i)
  <1> DEFINE Sum(g, k) == [n \in 0..k |-> IF n = 0 THEN 0 ELSE g[n - 1] + RowsAt(work, t, n)]
             Missing == {k \in 0..Len(work) : ~ \E g : g = Sum(g, k)}
  <1>1. Len(work) \in Nat
    OBVIOUS
  <1>2. Missing = {}
    <2> SUFFICES ASSUME Missing # {} PROVE FALSE
      OBVIOUS
    <2>1. PICK k \in Missing : \A j \in Missing : k <= j
      <3>1. Missing \subseteq Nat
        OBVIOUS
      <3> HIDE DEF Missing
      <3> QED BY <3>1, LeastNatural
    <2>2. CASE k = 0
      <3> DEFINE g == [n \in 0..k |-> 0]
      <3>1. g = Sum(g, k)
        BY <2>2
      <3> QED BY <3>1
    <2>3. CASE k # 0
      <3>0. k \in 0..Len(work) /\ k \in Nat /\ k - 1 \in 0..Len(work) /\ ~(k <= k - 1)
        BY <2>3, <1>1
      <3>1. k - 1 \in 0..Len(work) /\ k - 1 \notin Missing
        <4> HIDE DEF Missing
        <4> QED BY <2>1, <3>0
      <3>2. PICK g : g = Sum(g, k - 1)
        BY <3>1
      <3> DEFINE h == [n \in 0..k |-> IF n = k THEN g[k - 1] + RowsAt(work, t, k) ELSE g[n]]
      <3>3. \A n \in 0..k : h[n] = Sum(h, k)[n]
        <4> SUFFICES ASSUME NEW n \in 0..k PROVE h[n] = Sum(h, k)[n]
          OBVIOUS
        <4>1. CASE n = k
          BY <4>1, <2>3, <3>1
        <4>2. CASE n # k
          <5>1. n \in 0..(k - 1)
            BY <4>2, <3>1
          <5>2. g[n] = IF n = 0 THEN 0 ELSE g[n - 1] + RowsAt(work, t, n)
            BY <3>2, <5>1, Zenon
          <5>3. n # 0 => n - 1 \in 0..k /\ n - 1 # k
            BY <5>1, <3>1
          <5> QED BY <5>1, <5>2, <5>3, <4>2
        <4> QED BY <4>1, <4>2
      <3>4. h = Sum(h, k)
        BY <3>3
      <3> QED BY <3>4
    <2> QED BY <2>2, <2>3
  <1>3. PICK g : g = Sum(g, Len(work))
    BY <1>1, <1>2
  <1> DEFINE sum == CHOOSE s : s = Sum(s, Len(work))
  <1>4. sum = Sum(sum, Len(work))
    BY <1>3
  <1>5. \A i : Lake!RowsUpTo(work, t, i) = sum[i]
    BY DEF Lake!RowsUpTo, RowsAt
  <1> HIDE DEF sum
  <1>6. sum[0] = 0
    BY <1>1, <1>4
  <1>7. \A i \in 1..Len(work) : sum[i] = sum[i - 1] + RowsAt(work, t, i)
    BY <1>1, <1>4
  <1> QED BY <1>5, <1>6, <1>7

\* It is a natural number, and never falls from a file to a later one.
LEMMA RowsUpToGrows ==
  ASSUME NEW work \in Seq(File), NEW t
  PROVE  /\ \A i \in 0..Len(work) : Lake!RowsUpTo(work, t, i) \in Nat
         /\ \A i, j \in 0..Len(work) : i <= j => Lake!RowsUpTo(work, t, i) <= Lake!RowsUpTo(work, t, j)
  <1> DEFINE sum(i) == Lake!RowsUpTo(work, t, i)
  <1>1. /\ sum(0) = 0
        /\ \A i \in 1..Len(work) : sum(i) = sum(i - 1) + RowsAt(work, t, i)
    BY RowsUpToEquations
  <1>2. Len(work) \in Nat /\ \A i \in 1..Len(work) : RowsAt(work, t, i) \in Nat
    BY WorkFacts DEF RowsAt
  <1> HIDE DEF sum
  <1>3. \A i \in 0..Len(work) : sum(i) \in Nat
    <2> DEFINE Bad == {i \in 0..Len(work) : sum(i) \notin Nat}
    <2> SUFFICES ASSUME Bad # {} PROVE FALSE
      OBVIOUS
    <2>1. PICK k \in Bad : \A j \in Bad : k <= j
      <3>1. Bad \subseteq Nat
        OBVIOUS
      <3> HIDE DEF Bad
      <3> QED BY <3>1, LeastNatural
    <2>2. k # 0
      BY <1>1
    <2>3. k \in 1..Len(work) /\ k - 1 \in 0..Len(work) /\ k - 1 \notin Bad
      BY <2>1, <2>2, <1>2
    <2> QED BY <2>3, <1>1, <1>2
  <1>4. ASSUME NEW i \in 0..Len(work)
        PROVE  \A j \in 0..Len(work) : i <= j => sum(i) <= sum(j)
    <2> DEFINE Bad == {j \in 0..Len(work) : i <= j /\ ~(sum(i) <= sum(j))}
    <2> SUFFICES ASSUME Bad # {} PROVE FALSE
      OBVIOUS
    <2>1. PICK k \in Bad : \A j \in Bad : k <= j
      <3>1. Bad \subseteq Nat
        OBVIOUS
      <3> HIDE DEF Bad
      <3> QED BY <3>1, LeastNatural
    <2>2. k # i
      BY <1>3
    <2>3. k \in 1..Len(work) /\ k - 1 \in 0..Len(work) /\ i <= k - 1
      BY <2>2, <1>2
    <2>4. k - 1 \notin Bad
      BY <2>1, <2>3
    <2>5. sum(i) <= sum(k - 1) /\ sum(k) = sum(k - 1) + RowsAt(work, t, k)
      BY <2>3, <2>4, <1>1
    <2> QED BY <2>3, <2>5, <1>2, <1>3
  <1> QED BY <1>3, <1>4 DEF sum

\* A table that no file of work is for gets no rows.
LEMMA RowsUpToElsewhere ==
  ASSUME NEW work \in Seq(File), NEW t, t \notin Lake!TablesOf(work)
  PROVE  Lake!RowsUpTo(work, t, Len(work)) = 0
  <1> DEFINE sum(i) == Lake!RowsUpTo(work, t, i)
             Bad == {i \in 0..Len(work) : sum(i) # 0}
  <1>1. /\ sum(0) = 0
        /\ \A i \in 1..Len(work) : sum(i) = sum(i - 1) + RowsAt(work, t, i)
    BY RowsUpToEquations
  <1>2. Len(work) \in Nat /\ \A i \in 1..Len(work) : RowsAt(work, t, i) = 0
    BY DEF RowsAt, Lake!TablesOf
  <1> HIDE DEF sum
  <1>3. Bad = {}
    <2> SUFFICES ASSUME Bad # {} PROVE FALSE
      OBVIOUS
    <2>1. PICK k \in Bad : \A j \in Bad : k <= j
      <3>1. Bad \subseteq Nat
        OBVIOUS
      <3> HIDE DEF Bad
      <3> QED BY <3>1, LeastNatural
    <2>2. k # 0
      BY <1>1
    <2>3. k \in 1..Len(work) /\ k - 1 \in 0..Len(work) /\ k - 1 \notin Bad
      BY <2>1, <2>2, <1>2
    <2> QED BY <2>3, <1>1, <1>2
  <1> QED BY <1>2, <1>3 DEF sum

-----------------------------------------------------------------------------
(* The ids of a lake *)

LakeTypeOK ==
  /\ snapshot.id \in Nat /\ snapshot.nextFile \in Nat
  /\ totals \in [Table -> [records : Nat, nextRow : Nat]]
  /\ files \subseteq [id : Nat, table : Table, begin : Nat, records : Nat, row : Nat]

LakeInv == LakeTypeOK /\ Lake!RowIdsDisjoint /\ Lake!FileIdsUnique

\* What an insert does, whether or not its tables are gone.
Added(work) ==
  /\ snapshot'.id = snapshot.id + 1
  /\ snapshot'.nextFile = snapshot.nextFile + Len(work)
  /\ files' = files \cup Lake!Placed(work, snapshot.id + 1, snapshot.nextFile, [t \in Table |-> totals[t].nextRow])
  /\ totals' = [t \in Table |-> [records |-> totals[t].records + Lake!RowsUpTo(work, t, Len(work)),
                                 nextRow |-> totals[t].nextRow + Lake!RowsUpTo(work, t, Len(work))]]

\* The files of an insert have ids from the next file id on, one each, and lie one after another in
\* the row ids from their table's next one up to its new one.
LEMMA PlacedIds ==
  ASSUME NEW work \in Seq(File), NEW s \in Nat, NEW first \in Nat, NEW next \in [Table -> Nat]
  PROVE  /\ Lake!Placed(work, s, first, next)
              \subseteq [id : Nat, table : Table, begin : Nat, records : Nat, row : Nat]
         /\ \A f \in Lake!Placed(work, s, first, next) :
              /\ first <= f.id /\ f.id < first + Len(work)
              /\ next[f.table] <= f.row
              /\ f.row + f.records <= next[f.table] + Lake!RowsUpTo(work, f.table, Len(work))
         /\ \A f, g \in Lake!Placed(work, s, first, next) : f.id = g.id => f = g
         /\ \A f, g \in Lake!Placed(work, s, first, next) : f.table = g.table /\ f # g =>
              f.row + f.records <= g.row \/ g.row + g.records <= f.row
  <1> DEFINE sum(t, i) == Lake!RowsUpTo(work, t, i)
             F(i) == [id |-> first + i - 1, table |-> work[i].table, begin |-> s,
                      records |-> work[i].records,
                      row |-> next[work[i].table] + sum(work[i].table, i - 1)]
  <1>1. Len(work) \in Nat /\ DOMAIN work = 1..Len(work)
        /\ \A i \in 1..Len(work) : work[i].table \in Table /\ work[i].records \in Nat
    BY WorkFacts
  <1>2. \A t : /\ \A i \in 0..Len(work) : sum(t, i) \in Nat
               /\ \A i, j \in 0..Len(work) : i <= j => sum(t, i) <= sum(t, j)
    BY RowsUpToGrows
  <1>3. \A i \in 1..Len(work) : sum(work[i].table, i) = sum(work[i].table, i - 1) + work[i].records
    BY RowsUpToEquations DEF RowsAt
  <1>4. Lake!Placed(work, s, first, next) = {F(i) : i \in 1..Len(work)}
    BY <1>1 DEF Lake!Placed
  <1> HIDE DEF sum
  <1>5. ASSUME NEW i \in 1..Len(work)
        PROVE  /\ F(i) \in [id : Nat, table : Table, begin : Nat, records : Nat, row : Nat]
               /\ first <= F(i).id /\ F(i).id < first + Len(work)
               /\ next[F(i).table] <= F(i).row
               /\ F(i).row + F(i).records = next[F(i).table] + sum(F(i).table, i)
               /\ sum(F(i).table, i) <= sum(F(i).table, Len(work))
    <2>1. i - 1 \in 0..Len(work) /\ i \in 0..Len(work) /\ Len(work) \in 0..Len(work)
      BY <1>1
    <2>2. sum(work[i].table, i - 1) \in Nat /\ next[work[i].table] \in Nat
      BY <1>1, <1>2, <2>1
    <2>3. first + i - 1 \in Nat
      BY <1>1
    <2>4. next[work[i].table] + sum(work[i].table, i - 1) \in Nat
      BY <2>2
    <2>5. sum(work[i].table, i) <= sum(work[i].table, Len(work))
      BY <1>1, <1>2, <2>1
    <2> QED BY <1>1, <1>3, <2>2, <2>3, <2>4, <2>5
  <1>6. ASSUME NEW i \in 1..Len(work), NEW j \in 1..Len(work)
        PROVE  /\ F(i).id = F(j).id => F(i) = F(j)
               /\ F(i).table = F(j).table /\ F(i) # F(j) =>
                    F(i).row + F(i).records <= F(j).row \/ F(j).row + F(j).records <= F(i).row
    <2>1. F(i).id = F(j).id => i = j
      BY <1>1
    <2>2. ASSUME NEW a \in 1..Len(work), NEW b \in 1..Len(work), a < b, F(a).table = F(b).table
          PROVE  F(a).row + F(a).records <= F(b).row
      <3>1. F(a).row + F(a).records = next[F(a).table] + sum(F(a).table, a)
        BY <1>5
      <3>2. a \in 0..Len(work) /\ b - 1 \in 0..Len(work) /\ a <= b - 1
        BY <1>1, <2>2
      <3>3. sum(F(a).table, a) <= sum(F(a).table, b - 1)
            /\ sum(F(a).table, a) \in Nat /\ sum(F(a).table, b - 1) \in Nat
        BY <3>2, <1>2
      <3>4. F(b).row = next[F(a).table] + sum(F(a).table, b - 1)
        BY <2>2
      <3>5. next[F(a).table] \in Nat
        BY <1>1
      <3> HIDE DEF F
      <3> QED BY <3>1, <3>3, <3>4, <3>5
    <2>3. i < j \/ j < i \/ i = j
      BY <1>1
    <2> HIDE DEF F
    <2> QED BY <2>1, <2>2, <2>3
  <1>7. \A t \in Table : next[t] \in Nat /\ sum(t, Len(work)) \in Nat
    <2>1. Len(work) \in 0..Len(work)
      BY <1>1
    <2>2. \A t : sum(t, Len(work)) \in Nat
      BY <1>2, <2>1
    <2> QED BY <2>2
  <1> HIDE DEF F
  <1>8. ASSUME NEW i \in 1..Len(work)
        PROVE F(i).row + F(i).records <= next[F(i).table] + sum(F(i).table, Len(work))
    <2>1. F(i).table \in Table /\ sum(F(i).table, i) \in Nat
      BY <1>5, <1>1, <1>2
    <2> QED BY <1>5, <1>7, <2>1
  <1> QED BY <1>4, <1>5, <1>6, <1>8 DEF sum

\* An insert keeps the ids of a lake unique: its files lie beyond every id and every row id handed
\* out before, and apart from each other.
LEMMA AddedKeepsIds ==
  ASSUME LakeInv, NEW work \in Seq(File), Added(work)
  PROVE  LakeInv'
  <1> DEFINE next == [t \in Table |-> totals[t].nextRow]
             new == Lake!Placed(work, snapshot.id + 1, snapshot.nextFile, next)
             sum(t) == Lake!RowsUpTo(work, t, Len(work))
  <1>1. /\ snapshot.id \in Nat /\ snapshot.nextFile \in Nat
        /\ totals \in [Table -> [records : Nat, nextRow : Nat]]
        /\ next \in [Table -> Nat] /\ \A t \in Table : next[t] = totals[t].nextRow
        /\ files \subseteq [id : Nat, table : Table, begin : Nat, records : Nat, row : Nat]
    BY DEF LakeInv, LakeTypeOK
  <1>2. Len(work) \in Nat /\ \A t : sum(t) \in Nat
    <2>1. Len(work) \in 0..Len(work) /\ Len(work) \in Nat
      BY WorkFacts
    <2> QED BY <2>1, RowsUpToGrows
  <1>3. /\ snapshot'.id = snapshot.id + 1 /\ snapshot'.nextFile = snapshot.nextFile + Len(work)
        /\ files' = files \cup new
        /\ totals' = [t \in Table |-> [records |-> totals[t].records + sum(t),
                                      nextRow |-> totals[t].nextRow + sum(t)]]
    BY DEF Added
  <1>4. /\ new \subseteq [id : Nat, table : Table, begin : Nat, records : Nat, row : Nat]
        /\ \A f \in new :
             /\ snapshot.nextFile <= f.id /\ f.id < snapshot.nextFile + Len(work)
             /\ next[f.table] <= f.row
             /\ f.row + f.records <= next[f.table] + sum(f.table)
        /\ \A f, g \in new : f.id = g.id => f = g
        /\ \A f, g \in new : f.table = g.table /\ f # g =>
                                f.row + f.records <= g.row \/ g.row + g.records <= f.row
    <2>1. snapshot.id + 1 \in Nat /\ snapshot.nextFile \in Nat /\ next \in [Table -> Nat]
      BY <1>1
    <2> HIDE DEF next
    <2>2. \A n \in [Table -> Nat] :
            LET placed == Lake!Placed(work, snapshot.id + 1, snapshot.nextFile, n)
            IN  /\ placed \subseteq [id : Nat, table : Table, begin : Nat, records : Nat, row : Nat]
                /\ \A f \in placed :
                     /\ snapshot.nextFile <= f.id /\ f.id < snapshot.nextFile + Len(work)
                     /\ n[f.table] <= f.row
                     /\ f.row + f.records <= n[f.table] + Lake!RowsUpTo(work, f.table, Len(work))
                /\ \A f, g \in placed : f.id = g.id => f = g
                /\ \A f, g \in placed : f.table = g.table /\ f # g =>
                     f.row + f.records <= g.row \/ g.row + g.records <= f.row
      BY <2>1, PlacedIds
    <2> QED BY <2>1, <2>2
  <1> HIDE DEF new, next, sum
  <1>11. ASSUME NEW f \in new, NEW g \in new
         PROVE  /\ f.id = g.id => f = g
                /\ f.table = g.table /\ f # g =>
                     f.row + f.records <= g.row \/ g.row + g.records <= f.row
    BY <1>4
  <1>5. LakeTypeOK'
    <2>1. ASSUME NEW t \in Table
          PROVE  totals[t].records + sum(t) \in Nat /\ totals[t].nextRow + sum(t) \in Nat
      BY <1>1, <1>2
    <2>2. snapshot'.id \in Nat /\ snapshot'.nextFile \in Nat
      BY <1>1, <1>2, <1>3
    <2>3. totals' \in [Table -> [records : Nat, nextRow : Nat]]
      BY <1>3, <2>1
    <2>4. files' \subseteq [id : Nat, table : Table, begin : Nat, records : Nat, row : Nat]
      BY <1>1, <1>3, <1>4
    <2> QED BY <2>2, <2>3, <2>4 DEF LakeTypeOK
  <1>6. \A t \in Table : totals'[t].nextRow = next[t] + sum(t) /\ next[t] \in Nat
    BY <1>1, <1>3
  <1>7. \A f \in files \cup new : f.row \in Nat /\ f.records \in Nat /\ f.id \in Nat /\ f.table \in Table
    BY <1>1, <1>4
  <1>8. \A f \in files : /\ f.id < snapshot.nextFile /\ f.row + f.records <= next[f.table]
                        /\ \A g \in files :
                             /\ f.id = g.id => f = g
                             /\ f.table = g.table /\ f # g =>
                                  f.row + f.records <= g.row \/ g.row + g.records <= f.row
    BY <1>1 DEF LakeInv, Lake!RowIdsDisjoint, Lake!FileIdsUnique
  <1>9. Lake!RowIdsDisjoint'
    <2>1. ASSUME NEW f \in files \cup new
          PROVE  f.row + f.records <= totals'[f.table].nextRow
      <3>1. f.row + f.records <= next[f.table] + sum(f.table)
        BY <1>4, <1>6, <1>7, <1>8, <1>2
      <3> QED BY <3>1, <1>6, <1>7
    <2>2. ASSUME NEW f \in files, NEW g \in new, f.table = g.table
          PROVE  f.row + f.records <= g.row
      BY <2>2, <1>4, <1>6, <1>7, <1>8
    <2>3. ASSUME NEW f \in files \cup new, NEW g \in files \cup new, f.table = g.table, f # g
          PROVE  f.row + f.records <= g.row \/ g.row + g.records <= f.row
      <3>1. CASE f \in files /\ g \in files
        BY <3>1, <2>3, <1>8
      <3>2. CASE f \in files /\ g \in new
        BY <3>2, <2>3, <2>2
      <3>3. CASE f \in new /\ g \in files
        BY <3>3, <2>3, <2>2
      <3>4. CASE f \in new /\ g \in new
        <4>1. f.table = g.table /\ f # g => f.row + f.records <= g.row \/ g.row + g.records <= f.row
          BY <3>4, <1>11
        <4> QED BY <4>1, <2>3
      <3> QED BY <3>1, <3>2, <3>3, <3>4
    <2> QED BY <2>1, <2>3, <1>3 DEF Lake!RowIdsDisjoint
  <1>10. Lake!FileIdsUnique'
    <2>1. \A f \in files \cup new : f.id < snapshot.nextFile + Len(work)
      BY <1>1, <1>2, <1>4, <1>7, <1>8
    <2>2. \A f \in files, g \in new : f.id < g.id
      BY <1>1, <1>4, <1>7, <1>8
    <2>3. ASSUME NEW f \in files \cup new, NEW g \in files \cup new, f.id = g.id
          PROVE  f = g
      <3>1. CASE f \in files /\ g \in files
        BY <3>1, <2>3, <1>8
      <3>2. CASE f \in new /\ g \in new
        BY <3>2, <2>3, <1>11
      <3>3. CASE (f \in files /\ g \in new) \/ (f \in new /\ g \in files)
        BY <3>3, <2>3, <2>2, <1>7
      <3> QED BY <3>1, <3>2, <3>3
    <2> QED BY <2>1, <2>3, <1>3 DEF Lake!FileIdsUnique
  <1> QED BY <1>5, <1>9, <1>10 DEF LakeInv

\* Whatever commits to a serial lake, the rows of one table have ids of their own, below the stored
\* next_row_id, and so have its files.
THEOREM SerialIds == Lake!Spec => []LakeInv
  <1>1. Lake!Init => LakeInv
    BY DEF Lake!Init, LakeInv, LakeTypeOK, Lake!RowIdsDisjoint, Lake!FileIdsUnique
  <1>2. LakeInv /\ [Lake!Next]_(Lake!vars) => LakeInv'
    <2> SUFFICES ASSUME LakeInv, [Lake!Next]_(Lake!vars) PROVE LakeInv'
      OBVIOUS
    <2>1. ASSUME NEW work \in Work, Lake!Insert(work) PROVE LakeInv'
      BY <2>1, WorkType, AddedKeepsIds DEF File, Lake!Insert, Added
    <2>2. ASSUME NEW t \in Table, Lake!DropTable(t) PROVE LakeInv'
      BY <2>2 DEF Lake!DropTable, LakeInv, LakeTypeOK, Lake!RowIdsDisjoint, Lake!FileIdsUnique
    <2>3. CASE UNCHANGED Lake!vars
      BY <2>3 DEF Lake!vars, LakeInv, LakeTypeOK, Lake!RowIdsDisjoint, Lake!FileIdsUnique
    <2> QED BY <2>1, <2>2, <2>3 DEF Lake!Next
  <1> QED BY <1>1, <1>2, PTL DEF Lake!Spec

-----------------------------------------------------------------------------
(* Lemmas *)

\* What the types say.
LEMMA TypeFacts ==
  ASSUME TypeOK
  PROVE  /\ snapshot \in Snapshot /\ snapshot.id \in Nat /\ snapshot.schema \in Nat /\ snapshot.nextFile \in Nat
         /\ totals \in [Table -> Totals] /\ dropAt \in [Table -> Nat]
         /\ \A t \in Table : dropAt[t] \in Nat
         /\ tx \in [Writer -> Tx]
         /\ \A w \in Writer : lock = w <=> tx[w].pc = "merge"
  BY DEF TypeOK, Snapshot, Tx

\* A work is a sequence of files of tables there are.
LEMMA WorkTables ==
  ASSUME NEW work \in Work \cup {<<>>}
  PROVE  /\ work \in Seq(File)
         /\ Lake!TablesOf(work) \subseteq Table
         /\ Lake!TablesOf(<<>>) = {}
  <1>1. work \in Seq(File)
    <2>1. <<>> \in Seq(File)
      OBVIOUS
    <2>2. Work \subseteq Seq(File)
      BY WorkType DEF File
    <2> QED BY <2>1, <2>2
  <1>2. \A i \in DOMAIN work : work[i].table \in Table
    BY <1>1, WorkFacts
  <1> QED BY <1>1, <1>2 DEF Lake!TablesOf

\* So is what a writer touches.
LEMMA TouchedTables ==
  ASSUME NEW q \in Tx
  PROVE  Touched(q) \subseteq Table /\ Lake!TablesOf(q.work) \subseteq Table
  BY WorkTables DEF Touched, Tx

\* The path of a writer depends on its work alone.
LEMMA SamePath ==
  ASSUME NEW w, NEW q, NEW r, PathInv(w, q), r.work = q.work, r.drop = q.drop, r.pc # "conflict",
         r.pc \in {"stats", "batch", "check"} => q.pc \in {"stats", "batch", "check"},
         r.pc \in {"lock", "merge", "lost"} => q.pc \in {"lock", "merge", "lost"}
  PROVE  PathInv(w, r)
  BY DEF PathInv, AppliesAs, IsDataFilesOnlyCommit

\* A commit leaves a snapshot behind: what another writer knows stays true of the past.
LEMMA TxInvAfterCommit ==
  ASSUME TypeOK, DropsPast, NEW q \in Tx, TxInv(q), q.pc # "merge",
         NEW drop \in SUBSET Table, drop = {} \/ \E t \in Table : drop = {t},
         snapshot' \in Snapshot, snapshot'.id = snapshot.id + 1,
         snapshot'.schema = snapshot.schema + (IF drop = {} THEN 0 ELSE 1),
         dropAt' = [t \in Table |-> IF t \in drop THEN snapshot.id + 1 ELSE dropAt[t]]
  PROVE  TxInv(q)' /\ \A v \in Writer : PathInv(v, q) => PathInv(v, q)'
  <1>1. /\ snapshot.id \in Nat /\ snapshot.schema \in Nat
        /\ snapshot'.id \in Nat /\ snapshot'.schema \in Nat
        /\ q.base.id \in Nat /\ q.base.schema \in Nat /\ q.seen.id \in Nat
        /\ \A t \in Table : dropAt[t] \in Nat /\ dropAt[t] <= snapshot.id
    BY TypeFacts DEF Tx, Snapshot, DropsPast
  <1>2. \A t \in Table : dropAt'[t] = IF t \in drop THEN snapshot.id + 1 ELSE dropAt[t]
    OBVIOUS
  <1>3. Touched(q) \subseteq Table
    BY TouchedTables
  <1>4. q.base.id <= snapshot.id /\ q.seen.id <= snapshot.id
    BY DEF TxInv, BaseInv, ReadInv, Past
  <1>5. Past(q.base)' /\ Past(q.seen)'
    BY <1>1, <1>4 DEF Past
  <1>6. DroppedSince(q)' <=> (DroppedSince(q) \/ drop # {})
    <2>1. ASSUME NEW t \in Table, dropAt[t] > q.base.id PROVE dropAt'[t] > q.base.id
      BY <2>1, <1>1, <1>2, <1>4
    <2>2. ASSUME NEW t \in Table, dropAt'[t] > q.base.id, drop = {} PROVE dropAt[t] > q.base.id
      BY <2>2, <1>2
    <2>3. ASSUME NEW t \in Table, drop = {t} PROVE dropAt'[t] > q.base.id
      BY <2>3, <1>1, <1>2, <1>4
    <2> QED BY <2>1, <2>2, <2>3 DEF DroppedSince
  <1>11. Overtaken(q) => Overtaken(q)'
    BY <1>1, <1>2, <1>3, <1>4 DEF Overtaken, Touched
  <1>7. BaseInv(q)'
    <2>1. /\ q.base.schema <= snapshot.schema
          /\ q.base.schema < snapshot.schema <=> DroppedSince(q)
          /\ \A t \in Touched(q) : dropAt[t] # 0 => dropAt[t] > q.base.id
      BY DEF TxInv, BaseInv
    <2>2. /\ q.base.schema <= snapshot'.schema
          /\ q.base.schema < snapshot'.schema <=> DroppedSince(q)'
      BY <2>1, <1>1, <1>6
    <2>3. \A t \in Touched(q) : dropAt'[t] # 0 => dropAt'[t] > q.base.id
      BY <2>1, <1>1, <1>2, <1>3, <1>4
    <2> QED BY <1>5, <2>2, <2>3 DEF BaseInv, Touched
  <1>8. q.seen.id # snapshot'.id
    BY <1>1, <1>4
  <1>9. ReadInv(q)'
    BY <1>5, <1>8 DEF TxInv, ReadInv
  <1>10. ConflictInv(q)'
    BY <1>6, <1>8, <1>11 DEF TxInv, ConflictInv
  <1>12. ASSUME NEW v \in Writer, PathInv(v, q) PROVE PathInv(v, q)'
    BY <1>12, <1>11 DEF PathInv, AppliesAs, IsDataFilesOnlyCommit
  <1> QED BY <1>7, <1>9, <1>10, <1>12 DEF TxInv, WorkInv

\* A step of one writer that writes nothing on the server.
LEMMA LocalStep ==
  ASSUME IInv, NEW w \in Writer, NEW r \in Tx, TxInv(r), PathInv(w, r), Step(w, r),
         UNCHANGED <<snapshot, totals, files, dropAt>>,
         lock' \in Writer \cup {NoOne}, deadlocks' \in 0..Deadlocks,
         \A v \in Writer : lock' = v <=> (IF v = w THEN r ELSE tx[v]).pc = "merge"
  PROVE  IInv' /\ UNCHANGED Lake!vars
  <1>1. tx \in [Writer -> Tx] /\ TypeOK /\ IdsUnique /\ DropsPast
    BY TypeFacts DEF IInv
  <1>2. tx' \in [Writer -> Tx] /\ \A v \in Writer : tx'[v] = IF v = w THEN r ELSE tx[v]
    BY <1>1 DEF Step
  <1>3. TypeOK'
    <2>1. \A v \in Writer : lock' = v <=> tx'[v].pc = "merge"
      BY <1>2
    <2>2. tx' \in [Writer -> Tx]
      BY <1>2
    <2> QED BY <1>1, <2>1, <2>2 DEF TypeOK, Tx
  <1>4. IdsUnique' /\ DropsPast' /\ UNCHANGED Lake!vars
    BY <1>1 DEF IdsUnique, DropsPast, Lake!RowIdsDisjoint, Lake!FileIdsUnique, Lake!vars
  <1>6. \A v \in Writer : TxInv(tx'[v]) /\ PathInv(v, tx'[v])
    BY <1>2 DEF IInv
  <1>7. ASSUME NEW v \in Writer PROVE TxInv(tx[v])' /\ PathInv(v, tx[v])'
    <2>1. TxInv(tx[v])'
      BY <1>6 DEF TxInv, WorkInv, BaseInv, ReadInv, ConflictInv, Past, Touched, DroppedSince, Overtaken
    <2>2. PathInv(v, tx[v])'
      BY <1>6 DEF PathInv, AppliesAs, IsDataFilesOnlyCommit, Touched, Overtaken
    <2> QED BY <2>1, <2>2
  <1> QED BY <1>3, <1>4, <1>7 DEF IInv

\* What is committed on top of the last snapshot with its totals is numbered as a serial lake
\* numbers it.
LEMMA WrittenIsAdded ==
  ASSUME TypeOK, NEW q \in Tx, NEW rows \in [Table -> Nat], NEW stats \in [Table -> Totals],
         \A t \in Lake!TablesOf(q.work) : stats[t] = totals[t] /\ rows[t] = totals[t].nextRow,
         Written(q, snapshot, rows, stats)
  PROVE  Added(q.work)
  <1> DEFINE work == q.work
             next == [t \in Table |-> totals[t].nextRow]
             sum(t) == Lake!RowsUpTo(work, t, Len(work))
  <1>1. work \in Seq(File) /\ Lake!TablesOf(work) \subseteq Table
    BY WorkTables DEF Tx
  <1>2. totals \in [Table -> Totals]
    BY TypeFacts
  <1>3. Lake!Placed(work, snapshot.id + 1, snapshot.nextFile, rows)
          = Lake!Placed(work, snapshot.id + 1, snapshot.nextFile, next)
    <2>1. \A i \in DOMAIN work : rows[work[i].table] = next[work[i].table]
      <3>1. \A i \in DOMAIN work : work[i].table \in Lake!TablesOf(work)
        BY DEF Lake!TablesOf
      <3> QED BY <1>1, <3>1
    <2> HIDE DEF next, work
    <2> QED BY <2>1 DEF Lake!Placed
  <1>4. totals' = [t \in Table |-> [records |-> totals[t].records + sum(t),
                                    nextRow |-> totals[t].nextRow + sum(t)]]
    <2>1. totals' = [t \in Table |->
             IF t \notin Lake!TablesOf(work) THEN totals[t]
             ELSE [records |-> stats[t].records + sum(t), nextRow |-> stats[t].nextRow + sum(t)]]
      BY DEF Written
    <2>2. ASSUME NEW t \in Table, t \notin Lake!TablesOf(work)
          PROVE  totals[t] = [records |-> totals[t].records + sum(t), nextRow |-> totals[t].nextRow + sum(t)]
      <3>1. sum(t) = 0
        BY <2>2, <1>1, RowsUpToElsewhere
      <3> QED BY <3>1, <1>2 DEF Totals
    <2>3. \A t \in Lake!TablesOf(work) : stats[t] = totals[t]
      OBVIOUS
    <2> HIDE DEF sum, work
    <2>4. \A t \in Table :
            (IF t \notin Lake!TablesOf(work) THEN totals[t]
             ELSE [records |-> stats[t].records + sum(t), nextRow |-> stats[t].nextRow + sum(t)])
             = [records |-> totals[t].records + sum(t), nextRow |-> totals[t].nextRow + sum(t)]
      BY <2>2, <2>3
    <2> QED BY <2>1, <2>4
  <1>5. /\ snapshot'.id = snapshot.id + 1 /\ snapshot'.nextFile = snapshot.nextFile + Len(work)
        /\ files' = files \cup Lake!Placed(work, snapshot.id + 1, snapshot.nextFile, rows)
    BY DEF Written
  <1> QED BY <1>3, <1>4, <1>5 DEF Added

\* What is claimed of the ids of the lake is what is proved of a serial lake's.
LEMMA IdsOfLake ==
  ASSUME TypeOK
  PROVE  IdsUnique <=> LakeInv
  <1>1. LakeTypeOK
    BY TypeFacts DEF TypeOK, LakeTypeOK, Totals
  <1> QED BY <1>1 DEF IdsUnique, LakeInv

\* A commit on top of the last snapshot, with its totals, keeps the invariant, and is a step of the
\* serial lake if no table it touches is gone.
LEMMA CommitStep ==
  ASSUME IInv, NEW w \in Writer, tx[w].pc # "idle",
         NEW rows \in [Table -> Nat], NEW stats \in [Table -> Totals],
         \A t \in Lake!TablesOf(tx[w].work) : stats[t] = totals[t] /\ rows[t] = totals[t].nextRow,
         Written(tx[w], snapshot, rows, stats),
         Step(w, [tx[w] EXCEPT !.pc = "committed"]),
         \A v \in Writer : v # w => tx[v].pc # "merge",
         lock' = NoOne, deadlocks' = deadlocks
  PROVE  /\ IInv'
         /\ (\A t \in Touched(tx[w]) : dropAt[t] = 0) => Lake!Next
  <1> DEFINE q == tx[w]
             r == [q EXCEPT !.pc = "committed"]
  <1>1. TypeOK /\ IdsUnique /\ DropsPast /\ TxInv(q) /\ q \in Tx
    BY TypeFacts DEF IInv
  <1>2. Added(q.work)
    BY <1>1, WrittenIsAdded
  <1>3. q.work \in Seq(File) /\ Len(q.work) \in Nat
    <2>1. q.work \in Seq(File)
      BY <1>1, WorkTables DEF Tx
    <2> QED BY <2>1, WorkFacts
  <1>4. LakeInv'
    BY <1>1, <1>2, <1>3, IdsOfLake, AddedKeepsIds
  <1>5. /\ snapshot' = [id |-> snapshot.id + 1, schema |-> snapshot.schema + Cardinality(q.drop),
                        nextFile |-> snapshot.nextFile + Len(q.work)]
        /\ dropAt' = [t \in Table |-> IF t \in q.drop THEN snapshot.id + 1 ELSE dropAt[t]]
    BY DEF Written
  <1>6. (q.drop = {} /\ q.work \in Work) \/ (q.work = <<>> /\ \E t \in Table : q.drop = {t})
    BY <1>1 DEF TxInv, WorkInv
  <1>7. Cardinality(q.drop) = (IF q.drop = {} THEN 0 ELSE 1)
    <2>1. CASE q.drop = {}
      BY <2>1, FS_EmptySet
    <2>2. ASSUME NEW t \in Table, q.drop = {t}
          PROVE  Cardinality(q.drop) = (IF q.drop = {} THEN 0 ELSE 1)
      <3>1. Cardinality({t}) = 1
        BY FS_Singleton
      <3> QED BY <3>1, <2>2
    <2> QED BY <2>1, <2>2, <1>6
  <1>8. /\ snapshot' \in Snapshot /\ snapshot'.id = snapshot.id + 1
        /\ snapshot'.schema = snapshot.schema + (IF q.drop = {} THEN 0 ELSE 1)
    <2>1. snapshot.id \in Nat /\ snapshot.schema \in Nat /\ snapshot.nextFile \in Nat
      BY <1>1, TypeFacts
    <2> QED BY <2>1, <1>3, <1>5, <1>7 DEF Snapshot
  <1>9. r \in Tx /\ r.pc = "committed" /\ r.work = q.work /\ r.drop = q.drop /\ r.base = q.base
        /\ r.seen = q.seen
    BY <1>1 DEF Tx, Phase
  <1>10. tx' \in [Writer -> Tx] /\ \A v \in Writer : tx'[v] = IF v = w THEN r ELSE tx[v]
    <2>1. tx \in [Writer -> Tx]
      BY <1>1, TypeFacts
    <2> QED BY <2>1, <1>9 DEF Step
  <1> HIDE DEF r
  <1>11. TxInv(r)
    BY <1>1, <1>9, q.pc # "idle" DEF TxInv, WorkInv, BaseInv, ReadInv, ConflictInv, Touched, DroppedSince
  <1>18. PathInv(w, r)
    BY <1>9 DEF PathInv
  <1>12. ASSUME NEW c \in Tx, TxInv(c), c.pc # "merge"
         PROVE  TxInv(c)' /\ \A v \in Writer : PathInv(v, c) => PathInv(v, c)'
    <2>1. q.drop \in SUBSET Table /\ (q.drop = {} \/ \E t \in Table : q.drop = {t})
      BY <1>1, <1>6 DEF Tx
    <2> HIDE DEF q
    <2> QED BY <1>1, <1>5, <1>8, <1>12, <2>1, TxInvAfterCommit
  <1>13. ASSUME NEW v \in Writer PROVE TxInv(tx[v])' /\ PathInv(v, tx[v])'
    <2> DEFINE c == IF v = w THEN r ELSE tx[v]
    <2>1. c \in Tx /\ TxInv(c) /\ PathInv(v, c) /\ c.pc # "merge" /\ tx'[v] = c
      BY <1>9, <1>10, <1>11, <1>18, TypeFacts, <1>1 DEF IInv
    <2> HIDE DEF c
    <2>2. PICK k : k = c
      OBVIOUS
    <2>3. TxInv(k)' /\ PathInv(v, k)'
      BY <2>1, <2>2, <1>12
    <2>4. tx'[v] = k
      BY <2>1, <2>2
    <2>5. TxInv(tx[v])'
      BY <2>3, <2>4 DEF TxInv, WorkInv, BaseInv, ReadInv, ConflictInv, Past, Touched, DroppedSince, Overtaken
    <2>6. PathInv(v, tx[v])'
      BY <2>3, <2>4 DEF PathInv, AppliesAs, IsDataFilesOnlyCommit, Touched, Overtaken
    <2> QED BY <2>5, <2>6
  <1>14. TypeOK'
    <2>1. totals' \in [Table -> Totals]
          /\ files' \subseteq [id : Nat, table : Table, begin : Nat, records : Nat, row : Nat]
      BY <1>4 DEF LakeInv, LakeTypeOK, Totals
    <2>2. dropAt' \in [Table -> Nat]
      BY <1>1, <1>5, TypeFacts
    <2>3. \A v \in Writer : tx'[v].pc # "merge" /\ lock' # v
      BY <1>9, <1>10, NoOneIsNoWriter
    <2> QED BY <1>8, <1>10, <2>1, <2>2, <2>3, <1>1 DEF TypeOK, Tx
  <1>15. DropsPast'
    <2> SUFFICES ASSUME NEW t \in Table PROVE dropAt'[t] <= snapshot'.id
      BY DEF DropsPast
    <2>1. dropAt[t] \in Nat /\ snapshot.id \in Nat /\ dropAt[t] <= snapshot.id
      BY <1>1, TypeFacts DEF DropsPast
    <2> QED BY <2>1, <1>5, <1>8
  <1>16. IInv'
    <2>1. IdsUnique'
      BY <1>4 DEF IdsUnique, LakeInv
    <2> QED BY <2>1, <1>13, <1>14, <1>15 DEF IInv
  <1>17. ASSUME \A t \in Touched(q) : dropAt[t] = 0
         PROVE  Lake!Next
    <2>1. CASE q.drop = {} /\ q.work \in Work
      <3>1. dropAt' = dropAt
        BY <2>1, <1>1, <1>5, TypeFacts
      <3>2. Lake!TablesOf(q.work) \cap {t \in Table : dropAt[t] # 0} = {}
        BY <1>17 DEF Touched
      <3>3. Lake!Insert(q.work)
        BY <1>2, <3>1, <3>2 DEF Added, Lake!Insert
      <3> QED BY <2>1, <3>3 DEF Lake!Next
    <2>2. ASSUME NEW t \in Table, q.work = <<>>, q.drop = {t}
          PROVE  Lake!Next
      <3>1. t \in Touched(q)
        BY <2>2 DEF Touched
      <3>2. snapshot.id \in Nat /\ snapshot.nextFile \in Nat /\ dropAt \in [Table -> Nat]
            /\ totals \in [Table -> Totals]
        BY <1>1, TypeFacts
      <3>3. Lake!TablesOf(q.work) = {} /\ DOMAIN q.work = {} /\ Len(q.work) = 0
        BY <2>2 DEF Lake!TablesOf
      <3>4. files' = files
        BY <3>3, <2>2 DEF Written, Lake!Placed
      <3>5. totals' = totals
        BY <3>2, <3>3 DEF Written
      <3>6. snapshot'.id = snapshot.id + 1 /\ snapshot'.nextFile = snapshot.nextFile
        BY <1>5, <3>2, <3>3
      <3>7. {s \in Table : dropAt'[s] # 0} = {s \in Table : dropAt[s] # 0} \cup {t}
        BY <1>5, <2>2, <3>2
      <3>8. Lake!DropTable(t)
        BY <1>17, <3>1, <3>4, <3>5, <3>6, <3>7 DEF Lake!DropTable
      <3> QED BY <3>8 DEF Lake!Next
    <2> QED BY <1>6, <2>1, <2>2
  <1> QED BY <1>16, <1>17

-----------------------------------------------------------------------------
(* The steps *)

\* What a step does to the lake, when no writer skips the fetch of its snapshot.
Serially == Skipping = {} => [Lake!Next]_(Lake!vars)

\* What the invariant says of one writer.
LEMMA WriterFacts ==
  ASSUME IInv, NEW w \in Writer
  PROVE  /\ tx[w] \in Tx /\ TxInv(tx[w]) /\ PathInv(w, tx[w])
         /\ lock \in Writer \cup {NoOne} /\ deadlocks \in 0..Deadlocks
         /\ \A v \in Writer : lock = v <=> tx[v].pc = "merge"
         /\ TypeOK
  BY TypeFacts DEF IInv, TypeOK

\* A step that only moves w's record on, and not to or from the lock.
LEMMA QuietStep ==
  ASSUME IInv, NEW w \in Writer, NEW r \in Tx, TxInv(r), PathInv(w, r), Step(w, r), UNCHANGED serverVars,
         r.pc = "merge" <=> tx[w].pc = "merge"
  PROVE  IInv' /\ Serially
  <1>1. /\ lock' \in Writer \cup {NoOne} /\ deadlocks' \in 0..Deadlocks
        /\ \A v \in Writer : lock' = v <=> (IF v = w THEN r ELSE tx[v]).pc = "merge"
    BY WriterFacts DEF serverVars
  <1>2. UNCHANGED <<snapshot, totals, files, dropAt>>
    BY DEF serverVars
  <1> QED BY <1>1, <1>2, LocalStep DEF Serially

\* A writer knows the snapshot that it begins with.
LEMMA BeginStep ==
  ASSUME IInv, NEW w \in Writer, Begin(w)
  PROVE  IInv' /\ Serially
  <1> DEFINE q == tx[w]
  <1>1. q \in Tx /\ TxInv(q) /\ TypeOK /\ DropsPast /\ q.pc = "idle" /\ UNCHANGED serverVars
    BY WriterFacts DEF Begin, IInv
  <1>2. q.work = <<>> /\ q.drop = {}
    BY <1>1 DEF TxInv, WorkInv
  <1>3. snapshot \in Snapshot /\ snapshot.id \in Nat /\ snapshot.schema \in Nat
        /\ \A t \in Table : dropAt[t] \in Nat /\ dropAt[t] <= snapshot.id
    BY <1>1, TypeFacts DEF DropsPast
  <1>4. ASSUME NEW r \in Tx, r.pc = "open", r.base = snapshot, r.seen = q.seen, WorkInv(r),
               \A t \in Touched(r) : dropAt[t] = 0
        PROVE  TxInv(r) /\ PathInv(w, r)
    <2>1. BaseInv(r)
      BY <1>3, <1>4 DEF BaseInv, Past, DroppedSince
    <2>2. ReadInv(r) /\ ConflictInv(r)
      BY <1>1, <1>4 DEF TxInv, ReadInv, ConflictInv
    <2>3. PathInv(w, r)
      BY <1>4 DEF PathInv
    <2> QED BY <1>4, <2>1, <2>2, <2>3 DEF TxInv
  <1>5. ASSUME NEW work \in Work, Lake!TablesOf(work) \cap Dropped = {},
               Step(w, [q EXCEPT !.pc = "open", !.work = work, !.base = snapshot])
        PROVE  IInv' /\ Serially
    <2> DEFINE r == [q EXCEPT !.pc = "open", !.work = work, !.base = snapshot]
    <2>1. r \in Tx /\ r.pc = "open" /\ r.work = work /\ r.drop = {} /\ r.base = snapshot /\ r.seen = q.seen
      BY <1>1, <1>2, <1>3 DEF Tx, Phase
    <2> HIDE DEF r
    <2>2. \A t \in Touched(r) : dropAt[t] = 0
      <3>1. Lake!TablesOf(work) \subseteq Table
        BY WorkTables
      <3> QED BY <1>5, <2>1, <3>1 DEF Touched, Dropped
    <2>3. TxInv(r) /\ PathInv(w, r)
      BY <1>4, <2>1, <2>2 DEF WorkInv
    <2>4. Step(w, r)
      BY <1>5 DEF r
    <2> QED BY <1>1, <2>1, <2>3, <2>4, QuietStep
  <1>6. ASSUME NEW t \in Table \ Dropped, Step(w, [q EXCEPT !.pc = "open", !.drop = {t}, !.base = snapshot])
        PROVE  IInv' /\ Serially
    <2> DEFINE r == [q EXCEPT !.pc = "open", !.drop = {t}, !.base = snapshot]
    <2>1. r \in Tx /\ r.pc = "open" /\ r.work = <<>> /\ r.drop = {t} /\ r.base = snapshot /\ r.seen = q.seen
      BY <1>1, <1>2, <1>3 DEF Tx, Phase
    <2> HIDE DEF r
    <2>2. \A u \in Touched(r) : dropAt[u] = 0
      BY <2>1, WorkTables DEF Touched, Dropped
    <2>3. TxInv(r) /\ PathInv(w, r)
      BY <1>4, <2>1, <2>2 DEF WorkInv
    <2>4. Step(w, r)
      BY <1>6 DEF r
    <2> QED BY <1>1, <2>1, <2>3, <2>4, QuietStep
  <1> QED BY <1>5, <1>6 DEF Begin

\* Whichever way it takes, it has its totals still to read.
LEMMA FlushStep ==
  ASSUME IInv, NEW w \in Writer, FlushChangesServerSide(w)
  PROVE  IInv' /\ Serially
  <1> DEFINE q == tx[w]
  <1>1. q \in Tx /\ TxInv(q) /\ TypeOK /\ DropsPast /\ q.pc = "open" /\ UNCHANGED serverVars
    BY WriterFacts DEF FlushChangesServerSide, IInv
  <1>2. \A t \in Table : dropAt[t] \in Nat /\ dropAt[t] <= snapshot.id
    BY <1>1, TypeFacts DEF DropsPast
  <1>3. CASE TakesApply(w)
    <2> DEFINE r == [q EXCEPT !.pc = "lock"]
    <2>1. r \in Tx /\ r.pc = "lock" /\ r.work = q.work /\ r.drop = q.drop /\ r.base = q.base /\ r.seen = q.seen
      BY <1>1 DEF Tx, Phase
    <2>2. Step(w, r)
      BY <1>3 DEF FlushChangesServerSide
    <2> HIDE DEF r
    <2>3. TxInv(r)
      BY <1>1, <2>1 DEF TxInv, WorkInv, BaseInv, ReadInv, ConflictInv, Touched, DroppedSince
    <2>4. PathInv(w, r)
      BY <1>3, <2>1 DEF PathInv, AppliesAs, TakesApply, IsDataFilesOnlyCommit
    <2> QED BY <1>1, <2>1, <2>2, <2>3, <2>4, QuietStep
  <1>4. CASE ~TakesApply(w)
    <2> DEFINE r == [q EXCEPT !.pc = "stats", !.seen = q.base, !.todo = Lake!TablesOf(q.work)]
    <2>1. r \in Tx /\ r.pc = "stats" /\ r.work = q.work /\ r.drop = q.drop /\ r.base = q.base
          /\ r.seen = q.base /\ r.todo = Lake!TablesOf(q.work)
      BY <1>1, TouchedTables DEF Tx, Phase
    <2>2. Step(w, r)
      BY <1>4 DEF FlushChangesServerSide
    <2> HIDE DEF r
    <2>3. WorkInv(r) /\ BaseInv(r) /\ ReadInv(r)
      BY <1>1, <2>1 DEF TxInv, WorkInv, BaseInv, ReadInv, Touched, DroppedSince
    <2>4. ConflictInv(r)
      <3>1. ASSUME NEW t \in Touched(q), q.base.id = snapshot.id PROVE dropAt[t] = 0
        BY <1>1, <1>2, <3>1, TouchedTables, TypeFacts DEF TxInv, BaseInv
      <3> QED BY <2>1, <3>1 DEF ConflictInv, Touched
    <2>5. PathInv(w, r)
      BY <1>4, <2>1 DEF PathInv, AppliesAs, TakesApply, IsDataFilesOnlyCommit
    <2> QED BY <1>1, <2>1, <2>2, <2>3, <2>4, <2>5, QuietStep DEF TxInv
  <1> QED BY <1>3, <1>4

\* Copying the stored totals of one more table.
LEMMA CopiedInv ==
  ASSUME TypeOK, NEW q \in Tx, TxInv(q), NEW t \in q.todo, NEW w, PathInv(w, q),
         q.pc \in {"stats", "merge"} \/ (q.pc = "check" /\ "snapshot" \notin q.asks)
  PROVE  /\ Copied(q, t) \in Tx /\ TxInv(Copied(q, t)) /\ Copied(q, t).pc = q.pc
         /\ PathInv(w, Copied(q, t))
  <1> DEFINE r == Copied(q, t)
  <1>1. q.stats \in [Table -> Totals] /\ t \in Table /\ totals[t] \in Totals
    BY TypeFacts DEF Tx
  <1>2. r \in Tx
    BY <1>1 DEF Copied, Tx
  <1>3. /\ r.pc = q.pc /\ r.work = q.work /\ r.drop = q.drop /\ r.base = q.base /\ r.seen = q.seen
        /\ r.met = q.met /\ r.asks = q.asks
        /\ r.todo = q.todo \ {t} /\ r.stats = [q.stats EXCEPT ![t] = totals[t]]
    BY DEF Copied, Tx
  <1> HIDE DEF r
  <1>4. WorkInv(r) /\ BaseInv(r) /\ ConflictInv(r)
    BY <1>3 DEF TxInv, WorkInv, BaseInv, ConflictInv, Touched, DroppedSince, Overtaken
  <1>6. PathInv(w, r)
    BY <1>3, SamePath
  <1>5. ReadInv(r)
    <2>1. ASSUME q.seen.id = snapshot.id, q.pc \in {"stats", "batch", "check", "merge"},
                 NEW u \in Lake!TablesOf(q.work) \ r.todo
          PROVE  r.stats[u] = totals[u]
      <3>1. u \in Table
        BY TouchedTables
      <3>2. CASE u = t
        BY <3>1, <3>2, <1>1, <1>3
      <3>3. CASE u # t
        <4>1. u \in Lake!TablesOf(q.work) \ q.todo
          BY <3>3, <1>3
        <4>2. q.stats[u] = totals[u]
          BY <4>1, <2>1 DEF TxInv, ReadInv
        <4> QED BY <3>1, <3>3, <4>2, <1>1, <1>3
      <3> QED BY <3>2, <3>3
    <2>2. ReadInv(q)
      BY DEF TxInv
    <2> QED BY <1>3, <2>1, <2>2 DEF ReadInv
  <1> QED BY <1>2, <1>3, <1>4, <1>5, <1>6 DEF TxInv, r

\* The totals it copies are the stored ones, as long as the snapshot it saw is the last.
LEMMA ReadStatsStep ==
  ASSUME IInv, NEW w \in Writer, NEW t \in Table, ReadStats(w, t) \/ MergeStats(w, t)
  PROVE  IInv' /\ Serially
  <1>1. tx[w] \in Tx /\ TxInv(tx[w]) /\ PathInv(w, tx[w]) /\ TypeOK
    BY WriterFacts
  <1>2. t \in tx[w].todo /\ tx[w].pc \in {"stats", "merge"} /\ Step(w, Copied(tx[w], t))
        /\ UNCHANGED serverVars
    BY DEF ReadStats, MergeStats
  <1>3. /\ Copied(tx[w], t) \in Tx /\ TxInv(Copied(tx[w], t)) /\ Copied(tx[w], t).pc = tx[w].pc
        /\ PathInv(w, Copied(tx[w], t))
    BY <1>1, <1>2, CopiedInv
  <1> QED BY <1>2, <1>3, QuietStep

\* The batch is built of what was read.
LEMMA StartBatchStep ==
  ASSUME IInv, NEW w \in Writer, StartBatch(w)
  PROVE  IInv' /\ Serially
  <1> DEFINE q == tx[w]
             r == [q EXCEPT !.pc = "batch"]
  <1>1. q \in Tx /\ TxInv(q) /\ q.pc = "stats" /\ q.todo = {} /\ Step(w, r) /\ UNCHANGED serverVars
    BY WriterFacts DEF StartBatch
  <1>2. r \in Tx /\ r.pc = "batch" /\ r.work = q.work /\ r.drop = q.drop /\ r.base = q.base
        /\ r.seen = q.seen /\ r.todo = q.todo /\ r.stats = q.stats
    BY <1>1 DEF Tx, Phase
  <1> HIDE DEF r
  <1>3. TxInv(r)
    BY <1>1, <1>2 DEF TxInv, WorkInv, BaseInv, ReadInv, ConflictInv, Touched, DroppedSince
  <1>4. PathInv(w, r)
    BY <1>1, <1>2, WriterFacts, SamePath
  <1> QED BY <1>1, <1>2, <1>3, <1>4, QuietStep

\* Asking the conflict check forgets what was read.
LEMMA AskingInv ==
  ASSUME TypeOK, NEW q \in Tx, TxInv(q), q.pc = "batch", NEW w, PathInv(w, q)
  PROVE  /\ Asking(q) \in Tx /\ TxInv(Asking(q)) /\ Asking(q).pc = "check"
         /\ PathInv(w, Asking(q))
  <1> DEFINE r == Asking(q)
  <1>1. r \in Tx /\ r.pc = "check" /\ r.work = q.work /\ r.drop = q.drop /\ r.base = q.base
        /\ r.seen = q.seen /\ r.asks = Part /\ r.met = FALSE /\ r.todo = Lake!TablesOf(q.work)
    BY TouchedTables DEF Asking, Tx, Phase
  <1> HIDE DEF r
  <1>2. WorkInv(r) /\ BaseInv(r)
    BY <1>1 DEF TxInv, WorkInv, BaseInv, Touched, DroppedSince
  <1>3. ReadInv(r) /\ ConflictInv(r)
    BY <1>1 DEF TxInv, ReadInv, ConflictInv, Part
  <1>4. PathInv(w, r)
    BY <1>1, SamePath
  <1> QED BY <1>1, <1>2, <1>3, <1>4 DEF TxInv, r

\* It commits only where nobody took its number: on what it read.
LEMMA CommitBatchStep ==
  ASSUME IInv, NEW w \in Writer, CommitBatch(w)
  PROVE  IInv' /\ Serially
  <1> DEFINE q == tx[w]
  <1>1. q \in Tx /\ TxInv(q) /\ TypeOK /\ q.pc = "batch" /\ lock = NoOne
        /\ \A v \in Writer : tx[v].pc # "merge"
    BY WriterFacts, NoOneIsNoWriter DEF CommitBatch
  <1>2. CASE q.seen.id = snapshot.id
    <2>1. q.seen = snapshot
      BY <1>1, <1>2 DEF TxInv, ReadInv, Past
    <2>2. /\ \A t \in Lake!TablesOf(q.work) : q.stats[t] = totals[t]
          /\ \A t \in Touched(q) : dropAt[t] = 0
      BY <1>1, <1>2 DEF TxInv, ReadInv, ConflictInv
    <2>3. q.stats \in [Table -> Totals] /\ NextRows(q.stats) \in [Table -> Nat]
          /\ \A t \in Table : NextRows(q.stats)[t] = q.stats[t].nextRow
      BY <1>1 DEF Tx, NextRows, Totals
    <2>4. \A t \in Lake!TablesOf(q.work) : q.stats[t] = totals[t] /\ NextRows(q.stats)[t] = totals[t].nextRow
      BY <2>2, <2>3, <1>1, TouchedTables
    <2>5. /\ Written(q, snapshot, NextRows(q.stats), q.stats)
          /\ Step(w, [q EXCEPT !.pc = "committed"])
          /\ lock' = NoOne /\ deadlocks' = deadlocks
      BY <1>1, <1>2, <2>1 DEF CommitBatch
    <2>6. q.pc # "idle"
      BY <1>1
    <2> HIDE DEF q
    <2>7. IInv' /\ ((\A t \in Touched(q) : dropAt[t] = 0) => Lake!Next)
      BY <1>1, <2>3, <2>4, <2>5, <2>6, CommitStep DEF q
    <2> QED BY <2>2, <2>7 DEF Serially
  <1>3. CASE q.seen.id # snapshot.id
    <2>1. Asking(q) \in Tx /\ TxInv(Asking(q)) /\ Asking(q).pc = "check" /\ PathInv(w, Asking(q))
      BY <1>1, AskingInv, WriterFacts
    <2>2. Step(w, Asking(q)) /\ UNCHANGED serverVars
      BY <1>3 DEF CommitBatch
    <2> QED BY <1>1, <2>1, <2>2, QuietStep
  <1> QED BY <1>2, <1>3

\* A part of the conflict check is true of the snapshot it was read at, or that is no longer the last.
LEMMA CheckStep ==
  ASSUME IInv, NEW w \in Writer, CheckSnapshot(w) \/ CheckChanges(w) \/ CheckTotals(w)
  PROVE  IInv' /\ Serially
  <1> DEFINE q == tx[w]
  <1>1. q \in Tx /\ TxInv(q) /\ TypeOK /\ DropsPast /\ q.pc = "check" /\ UNCHANGED serverVars
    BY WriterFacts DEF CheckSnapshot, CheckChanges, CheckTotals, Reads, IInv
  <1>2. WorkInv(q) /\ BaseInv(q) /\ ReadInv(q) /\ ConflictInv(q) /\ PathInv(w, q)
    BY <1>1, WriterFacts DEF TxInv
  <1>3. ASSUME CheckSnapshot(w) PROVE IInv' /\ Serially
    <2> DEFINE r == [Answered(q, "snapshot") EXCEPT !.seen = snapshot]
    <2>1. "snapshot" \in q.asks /\ Step(w, r)
      BY <1>3 DEF CheckSnapshot, Reads
    <2>2. r \in Tx /\ r.pc = "check" /\ r.work = q.work /\ r.drop = q.drop /\ r.base = q.base
          /\ r.seen = snapshot /\ r.asks = q.asks \ {"snapshot"} /\ r.todo = q.todo
      BY <1>1, TypeFacts DEF Tx, Answered
    <2> HIDE DEF r
    <2>3. WorkInv(r) /\ BaseInv(r)
      BY <1>1, <1>2, <2>2 DEF WorkInv, BaseInv, Touched, DroppedSince
    <2>4. ReadInv(r)
      <3>1. snapshot.id \in Nat /\ Past(snapshot)
        BY <1>1, TypeFacts DEF Past
      <3> QED BY <1>1, <1>2, <2>1, <2>2, <3>1 DEF ReadInv
    <2>5. ConflictInv(r)
      BY <1>1, <1>2, <2>1, <2>2 DEF ReadInv, ConflictInv
    <2>6. PathInv(w, r)
      BY <1>1, <1>2, <2>2, SamePath
    <2> QED BY <1>1, <2>1, <2>2, <2>3, <2>4, <2>5, <2>6, QuietStep DEF TxInv
  <1>4. ASSUME CheckChanges(w) PROVE IInv' /\ Serially
    <2> DEFINE r == [Answered(q, "changes") EXCEPT !.met = ConflictsWithChanges(q)]
    <2>1. "changes" \in q.asks /\ "snapshot" \notin q.asks /\ Step(w, r)
      BY <1>4 DEF CheckChanges, Reads, ReadBefore
    <2>2. r \in Tx /\ r.pc = "check" /\ r.work = q.work /\ r.drop = q.drop /\ r.base = q.base
          /\ r.seen = q.seen /\ r.asks = q.asks \ {"changes"} /\ r.todo = q.todo /\ r.stats = q.stats
          /\ r.met = ConflictsWithChanges(q)
      BY <1>1 DEF Tx, Answered, ConflictsWithChanges
    <2> HIDE DEF r
    <2>3. WorkInv(r) /\ BaseInv(r)
      BY <1>1, <1>2, <2>2 DEF WorkInv, BaseInv, Touched, DroppedSince
    <2>4. ReadInv(r)
      BY <1>1, <1>2, <2>1, <2>2 DEF ReadInv
    <2>5. ConflictInv(r)
      <3>1. Touched(q) \subseteq Table /\ q.base.id \in Nat /\ \A t \in Table : dropAt[t] \in Nat
        BY <1>1, TouchedTables, TypeFacts DEF Tx, Snapshot
      <3>2. ~ConflictsWithChanges(q) => \A t \in Touched(q) : dropAt[t] = 0
        BY <1>2, <3>1 DEF BaseInv, ConflictsWithChanges, Touched
      <3>3. ConflictsWithChanges(q) => Overtaken(q)
        BY DEF ConflictsWithChanges, Overtaken, Touched
      <3> QED BY <2>2, <3>2, <3>3 DEF ConflictInv, Touched, Overtaken
    <2>6. PathInv(w, r)
      BY <1>1, <1>2, <2>2, SamePath
    <2> QED BY <1>1, <2>1, <2>2, <2>3, <2>4, <2>5, <2>6, QuietStep DEF TxInv
  <1>5. ASSUME CheckTotals(w) PROVE IInv' /\ Serially
    <2>1. "totals" \in q.asks /\ "snapshot" \notin q.asks /\ "changes" \notin q.asks
      BY <1>5 DEF CheckTotals, Reads, ReadBefore
    <2>2. CASE q.todo = {} /\ Step(w, Answered(q, "totals"))
      <3> DEFINE r == Answered(q, "totals")
      <3>1. r \in Tx /\ r.pc = "check" /\ r.work = q.work /\ r.drop = q.drop /\ r.base = q.base
            /\ r.seen = q.seen /\ r.asks = q.asks \ {"totals"} /\ r.todo = q.todo /\ r.stats = q.stats
            /\ r.met = q.met
        BY <1>1 DEF Tx, Answered
      <3> HIDE DEF r
      <3>2. WorkInv(r) /\ BaseInv(r)
        BY <1>1, <1>2, <3>1 DEF WorkInv, BaseInv, Touched, DroppedSince
      <3>3. ReadInv(r)
        BY <1>1, <1>2, <2>1, <2>2, <3>1 DEF ReadInv
      <3>4. ConflictInv(r)
        BY <1>1, <1>2, <2>1, <3>1 DEF ConflictInv, Touched, Overtaken
      <3>5. Step(w, r)
        BY <2>2 DEF r
      <3>6. PathInv(w, r)
        BY <1>1, <1>2, <3>1, SamePath
      <3> QED BY <1>1, <3>1, <3>2, <3>3, <3>4, <3>5, <3>6, QuietStep DEF TxInv
    <2>3. ASSUME NEW t \in q.todo, Step(w, Copied(q, t)) PROVE IInv' /\ Serially
      <3>1. /\ Copied(q, t) \in Tx /\ TxInv(Copied(q, t)) /\ Copied(q, t).pc = q.pc
            /\ PathInv(w, Copied(q, t))
        BY <1>1, <1>2, <2>1, CopiedInv
      <3> QED BY <1>1, <2>3, <3>1, QuietStep
    <2> QED BY <1>5, <2>2, <2>3 DEF CheckTotals
  <1> QED BY <1>3, <1>4, <1>5

\* A writer that finds its table dropped gives up, and no other.
LEMMA CheckForConflictsStep ==
  ASSUME IInv, NEW w \in Writer, CheckForConflicts(w)
  PROVE  IInv' /\ Serially
  <1> DEFINE q == tx[w]
             r == [q EXCEPT !.pc = IF q.met THEN "conflict" ELSE "batch"]
  <1>1. q \in Tx /\ TxInv(q) /\ q.pc = "check" /\ q.asks = {} /\ Step(w, r) /\ UNCHANGED serverVars
    BY WriterFacts DEF CheckForConflicts
  <1>2. r \in Tx /\ r.pc = (IF q.met THEN "conflict" ELSE "batch") /\ r.work = q.work /\ r.drop = q.drop
        /\ r.base = q.base /\ r.seen = q.seen /\ r.todo = q.todo /\ r.stats = q.stats
    BY <1>1 DEF Tx, Phase
  <1> HIDE DEF r
  <1>3. q.met => Overtaken(q)
    BY <1>1 DEF TxInv, ConflictInv
  <1>4. q.met => DroppedSince(q)
    BY <1>1, <1>3, TouchedTables DEF Overtaken, DroppedSince
  <1>5. WorkInv(r) /\ BaseInv(r) /\ ReadInv(r)
    BY <1>1, <1>2 DEF TxInv, WorkInv, BaseInv, ReadInv, Touched, DroppedSince
  <1>6. ConflictInv(r)
    BY <1>1, <1>2, <1>4 DEF TxInv, ConflictInv, Touched, DroppedSince
  <1>7. PathInv(w, r)
    <2>1. PathInv(w, q)
      BY WriterFacts
    <2>2. Overtaken(r) <=> Overtaken(q)
      BY <1>2 DEF Overtaken, Touched
    <2> QED BY <1>1, <1>2, <1>3, <2>1, <2>2 DEF PathInv, AppliesAs, IsDataFilesOnlyCommit
  <1> QED BY <1>1, <1>2, <1>5, <1>6, <1>7, QuietStep DEF TxInv

\* A writer that is rolled back for good leaves its lock.
LEMMA RolledBackStep ==
  ASSUME IInv, NEW w \in Writer, NEW r \in Tx, r = [tx[w] EXCEPT !.pc = r.pc], Step(w, r),
         tx[w].pc \in {"batch", "merge"}, r.pc = "failed" \/ (r.pc = "lost" /\ tx[w].pc = "merge"),
         lock' = Unlocked(w), deadlocks' \in 0..Deadlocks,
         UNCHANGED <<snapshot, totals, files, dropAt>>
  PROVE  IInv' /\ Serially
  <1> DEFINE q == tx[w]
  <1>1. q \in Tx /\ TxInv(q) /\ PathInv(w, q) /\ TypeOK /\ lock \in Writer \cup {NoOne}
    BY WriterFacts
  <1>2. r.work = q.work /\ r.drop = q.drop /\ r.base = q.base /\ r.seen = q.seen
    BY <1>1 DEF Tx
  <1>3. TxInv(r)
    BY <1>1, <1>2 DEF TxInv, WorkInv, BaseInv, ReadInv, ConflictInv, Touched, DroppedSince
  <1>4. PathInv(w, r)
    BY <1>1, <1>2, SamePath
  <1>5. lock' \in Writer \cup {NoOne}
    BY <1>1 DEF Unlocked
  <1>6. \A v \in Writer : lock' = v <=> (IF v = w THEN r ELSE tx[v]).pc = "merge"
    BY WriterFacts, NoOneIsNoWriter DEF Unlocked
  <1> QED BY <1>3, <1>4, <1>5, <1>6, LocalStep DEF Serially

\* A victim starts again, if it is the loop's, or is done with, if it applies.
LEMMA DeadlockStep ==
  ASSUME IInv, NEW w \in Writer, NEW other \in Writer, Deadlock(w, other)
  PROVE  IInv' /\ Serially
  <1> DEFINE q == tx[w]
  <1>1. q \in Tx /\ TxInv(q) /\ PathInv(w, q) /\ TypeOK
    BY WriterFacts
  <1>2. q.pc \in {"batch", "merge"}
    <2>1. /\ q.pc \in {"batch", "check", "merge"} /\ tx[other].pc \in {"batch", "check", "merge"}
          /\ q.pc # "check" \/ tx[other].pc # "check"
          /\ Priority(q.pc) <= Priority(tx[other].pc)
      BY DEF Deadlock
    <2> QED BY <2>1 DEF Priority
  <1>3. /\ Step(w, IF q.pc = "batch" THEN Asking(q) ELSE [q EXCEPT !.pc = "lost"])
        /\ deadlocks' = deadlocks + 1 /\ deadlocks < Deadlocks
        /\ UNCHANGED <<snapshot, totals, files, dropAt>> /\ lock' = Unlocked(w)
    BY DEF Deadlock, Retryable
  <1>4. lock \in Writer \cup {NoOne} /\ deadlocks' \in 0..Deadlocks
    BY <1>3, WriterFacts, BoundTypes
  <1>5. CASE q.pc = "batch"
    <2>1. Asking(q) \in Tx /\ TxInv(Asking(q)) /\ Asking(q).pc = "check" /\ PathInv(w, Asking(q))
      BY <1>1, <1>5, AskingInv
    <2>2. lock' = lock
      BY <1>3, <1>5, WriterFacts DEF Unlocked
    <2>3. \A v \in Writer : lock' = v <=> (IF v = w THEN Asking(q) ELSE tx[v]).pc = "merge"
      BY <1>5, <2>1, <2>2, WriterFacts
    <2> QED BY <1>3, <1>4, <1>5, <2>1, <2>2, <2>3, LocalStep DEF Serially
  <1>6. CASE q.pc = "merge"
    <2> DEFINE r == [q EXCEPT !.pc = "lost"]
    <2>1. r \in Tx /\ r.pc = "lost" /\ r = [q EXCEPT !.pc = r.pc] /\ Step(w, r)
      BY <1>1, <1>3, <1>6 DEF Tx, Phase
    <2> HIDE DEF r
    <2> QED BY <1>3, <1>4, <1>6, <2>1, RolledBackStep
  <1> QED BY <1>2, <1>5, <1>6

\* So is one that meets any other error.
LEMMA FailsStep ==
  ASSUME IInv, NEW w \in Writer, Fails(w)
  PROVE  IInv' /\ Serially
  <1> DEFINE r == [tx[w] EXCEPT !.pc = "failed"]
  <1>1. tx[w] \in Tx /\ deadlocks \in 0..Deadlocks
    BY WriterFacts
  <1>2. /\ tx[w].pc \in {"batch", "merge"} /\ Step(w, r) /\ lock' = Unlocked(w)
        /\ deadlocks' = deadlocks /\ UNCHANGED <<snapshot, totals, files, dropAt>>
    BY DEF Fails
  <1>3. r \in Tx /\ r.pc = "failed" /\ r = [tx[w] EXCEPT !.pc = r.pc]
    BY <1>1 DEF Tx, Phase
  <1> HIDE DEF r
  <1> QED BY <1>1, <1>2, <1>3, RolledBackStep

\* Under the lock the last snapshot stays the last.
LEMMA LockCatalogStep ==
  ASSUME IInv, NEW w \in Writer, LockCatalog(w)
  PROVE  IInv' /\ Serially
  <1> DEFINE q == tx[w]
             r == [q EXCEPT !.pc = "merge", !.seen = snapshot, !.todo = Lake!TablesOf(q.work)]
  <1>1. q \in Tx /\ TxInv(q) /\ TypeOK /\ q.pc = "lock" /\ lock = NoOne /\ lock' = w /\ Step(w, r)
        /\ UNCHANGED <<snapshot, totals, files, dropAt>> /\ deadlocks' = deadlocks
    BY WriterFacts DEF LockCatalog, Locks
  <1>2. r \in Tx /\ r.pc = "merge" /\ r.work = q.work /\ r.drop = q.drop
        /\ r.base = q.base /\ r.seen = snapshot /\ r.todo = Lake!TablesOf(q.work)
    BY <1>1, TypeFacts, TouchedTables DEF Tx, Phase
  <1> HIDE DEF r
  <1>3. TxInv(r)
    <2>1. Past(snapshot)
      BY <1>1, TypeFacts DEF Past
    <2> QED BY <1>1, <1>2, <2>1 DEF TxInv, WorkInv, BaseInv, ReadInv, ConflictInv, Touched, DroppedSince
  <1>4. \A v \in Writer : lock' = v <=> (IF v = w THEN r ELSE tx[v]).pc = "merge"
    BY <1>1, <1>2, WriterFacts, NoOneIsNoWriter
  <1>5. lock' \in Writer \cup {NoOne} /\ deadlocks' \in 0..Deadlocks
    BY <1>1, WriterFacts
  <1>6. PathInv(w, r)
    BY <1>1, <1>2, WriterFacts, SamePath
  <1> QED BY <1>1, <1>2, <1>3, <1>4, <1>5, <1>6, LocalStep DEF Serially

\* The schema that has not moved is what tells a writer that skipped nothing that its tables are
\* still there.
LEMMA ApplyStep ==
  ASSUME IInv, NEW w \in Writer, Apply(w)
  PROVE  IInv' /\ Serially
  <1> DEFINE q == tx[w]
  <1>1. q \in Tx /\ TxInv(q) /\ TypeOK /\ q.pc = "merge" /\ q.todo = {} /\ lock' = NoOne
        /\ deadlocks' = deadlocks
    BY WriterFacts DEF Apply, LockAfter
  <1>2. \A v \in Writer : v # w => tx[v].pc # "merge"
    BY <1>1, WriterFacts
  <1>3. /\ q.base.schema \in Nat /\ q.base.id \in Nat /\ snapshot.schema \in Nat
        /\ \A t \in Table : dropAt[t] \in Nat
        /\ Touched(q) \subseteq Table
    BY <1>1, TypeFacts, TouchedTables DEF Tx, Snapshot
  <1>4. CASE SchemaMoved(w)
    <2> DEFINE r == [q EXCEPT !.pc = "conflict"]
    <2>1. Step(w, r) /\ UNCHANGED <<snapshot, totals, files, dropAt>>
      BY <1>4 DEF Apply
    <2>2. r \in Tx /\ r.pc = "conflict" /\ r.work = q.work /\ r.drop = q.drop
          /\ r.base = q.base /\ r.seen = q.seen
      BY <1>1 DEF Tx, Phase
    <2> HIDE DEF r
    <2>3. DroppedSince(q)
      BY <1>1, <1>3, <1>4 DEF SchemaMoved, TxInv, BaseInv
    <2>4. TxInv(r)
      BY <1>1, <2>2, <2>3 DEF TxInv, WorkInv, BaseInv, ReadInv, ConflictInv, Touched, DroppedSince
    <2>5. lock' \in Writer \cup {NoOne} /\ deadlocks' \in 0..Deadlocks
      BY <1>1, WriterFacts
    <2>6. \A v \in Writer : lock' = v <=> (IF v = w THEN r ELSE tx[v]).pc = "merge"
      BY <1>1, <1>2, <2>2, NoOneIsNoWriter
    <2>7. PathInv(w, r)
      <3>1. PathInv(w, q)
        BY WriterFacts
      <3> QED BY <1>1, <2>2, <3>1 DEF PathInv, AppliesAs, IsDataFilesOnlyCommit
    <2> QED BY <2>1, <2>2, <2>4, <2>5, <2>6, <2>7, LocalStep DEF Serially
  <1>5. CASE ~SchemaMoved(w)
    <2>1. Written(q, snapshot, NextRows(totals), q.stats) /\ Step(w, [q EXCEPT !.pc = "committed"])
      BY <1>5 DEF Apply
    <2>2. \A t \in Lake!TablesOf(q.work) : q.stats[t] = totals[t]
      BY <1>1 DEF TxInv, ReadInv
    <2>3. q.stats \in [Table -> Totals] /\ NextRows(totals) \in [Table -> Nat]
          /\ \A t \in Table : NextRows(totals)[t] = totals[t].nextRow
      BY <1>1, TypeFacts DEF Tx, NextRows, Totals
    <2>4. \A t \in Lake!TablesOf(q.work) : q.stats[t] = totals[t] /\ NextRows(totals)[t] = totals[t].nextRow
      BY <2>2, <2>3, <1>1, TouchedTables
    <2>5. q.pc # "idle"
      BY <1>1
    <2>6. ASSUME Skipping = {} PROVE \A t \in Touched(q) : dropAt[t] = 0
      <3>1. q.base.schema = snapshot.schema /\ ~DroppedSince(q)
        BY <1>1, <1>3, <1>5, <2>6 DEF SchemaMoved, TxInv, BaseInv
      <3> QED BY <1>1, <1>3, <3>1 DEF TxInv, BaseInv, DroppedSince
    <2> HIDE DEF q
    <2>7. IInv' /\ ((\A t \in Touched(q) : dropAt[t] = 0) => Lake!Next)
      BY <1>1, <1>2, <2>1, <2>3, <2>4, <2>5, CommitStep DEF q
    <2> QED BY <2>6, <2>7 DEF Serially
  <1> QED BY <1>4, <1>5

-----------------------------------------------------------------------------
(* Theorems *)

\* At the start nobody has read a thing, and the lake is empty.
LEMMA InitInv == Init => IInv /\ Lake!Init
  <1> SUFFICES ASSUME Init PROVE IInv /\ Lake!Init
    OBVIOUS
  <1>1. snapshot = [id |-> 0, schema |-> 0, nextFile |-> 0] /\ snapshot \in Snapshot
        /\ snapshot.id = 0 /\ snapshot.nextFile = 0
    BY DEF Init, Snapshot
  <1>2. NoTotals \in [Table -> Totals] /\ totals = NoTotals /\ files = {}
        /\ dropAt = [t \in Table |-> 0]
    BY DEF Init, NoTotals, Totals
  <1>3. ASSUME NEW w \in Writer
        PROVE  /\ tx[w] = [pc |-> "idle", work |-> <<>>, drop |-> {}, base |-> snapshot,
                           seen |-> snapshot, met |-> FALSE, asks |-> {},
                           stats |-> NoTotals, todo |-> {}]
               /\ tx[w] \in Tx
    BY <1>1, <1>2 DEF Init, Tx, Phase
  <1>4. TypeOK
    <2>1. tx \in [Writer -> Tx]
      BY <1>3 DEF Init
    <2>2. lock = NoOne /\ deadlocks \in 0..Deadlocks
      BY BoundTypes DEF Init
    <2>3. \A w \in Writer : lock = w <=> tx[w].pc = "merge"
      BY <1>3, <2>2, NoOneIsNoWriter
    <2>4. files \subseteq [id : Nat, table : Table, begin : Nat, records : Nat, row : Nat]
          /\ dropAt \in [Table -> Nat]
      BY <1>2
    <2> QED BY <1>1, <1>2, <2>1, <2>2, <2>3, <2>4 DEF TypeOK, Tx
  <1>5. IdsUnique /\ DropsPast
    BY <1>1, <1>2 DEF IdsUnique, DropsPast, Lake!RowIdsDisjoint, Lake!FileIdsUnique
  <1>6. ASSUME NEW w \in Writer PROVE TxInv(tx[w]) /\ PathInv(w, tx[w])
    <2> DEFINE q == tx[w]
    <2>1. q.pc = "idle" /\ q.work = <<>> /\ q.drop = {} /\ q.base = snapshot /\ q.seen = snapshot
      BY <1>3
    <2> HIDE DEF q
    <2>2. Touched(q) = {}
      BY <2>1 DEF Touched, Lake!TablesOf
    <2> QED BY <1>1, <1>2, <2>1, <2>2
            DEF TxInv, WorkInv, BaseInv, ReadInv, ConflictInv, PathInv, Past, DroppedSince, q
  <1>7. Lake!Init
    BY <1>1, <1>2 DEF Lake!Init, NoTotals
  <1> QED BY <1>4, <1>5, <1>6, <1>7 DEF IInv

\* Every step keeps the invariant and is a step of the serial lake, or none.
LEMMA NextInv == IInv /\ [Next]_vars => IInv' /\ Serially
  <1> SUFFICES ASSUME IInv, [Next]_vars PROVE IInv' /\ Serially
    OBVIOUS
  <1>1. CASE UNCHANGED vars
    <2>1. UNCHANGED Lake!vars
      BY <1>1 DEF vars, Lake!vars
    <2>2. IInv'
      BY <1>1 DEF vars, IInv, TypeOK, IdsUnique, DropsPast, TxInv, WorkInv, BaseInv, ReadInv, ConflictInv,
                  PathInv, AppliesAs, IsDataFilesOnlyCommit, Past, Touched, DroppedSince, Overtaken, Lake!RowIdsDisjoint, Lake!FileIdsUnique
    <2> QED BY <2>1, <2>2 DEF Serially
  <1>2. ASSUME NEW w \in Writer, Begin(w) PROVE IInv' /\ Serially
    BY <1>2, BeginStep
  <1>3. ASSUME NEW w \in Writer, Advance(w) PROVE IInv' /\ Serially
    <2>1. CASE FlushChangesServerSide(w)
      BY <2>1, FlushStep
    <2>2. CASE StartBatch(w)
      BY <2>2, StartBatchStep
    <2>3. CASE CommitBatch(w)
      BY <2>3, CommitBatchStep
    <2>4. CASE CheckSnapshot(w) \/ CheckChanges(w) \/ CheckTotals(w)
      BY <2>4, CheckStep
    <2>5. CASE CheckForConflicts(w)
      BY <2>5, CheckForConflictsStep
    <2>6. CASE LockCatalog(w)
      BY <2>6, LockCatalogStep
    <2>7. CASE Apply(w)
      BY <2>7, ApplyStep
    <2>8. ASSUME NEW t \in Table, ReadStats(w, t) \/ MergeStats(w, t) PROVE IInv' /\ Serially
      BY <2>8, ReadStatsStep
    <2> QED BY <1>3, <2>1, <2>2, <2>3, <2>4, <2>5, <2>6, <2>7, <2>8 DEF Advance
  <1>4. ASSUME NEW w \in Writer, NEW other \in Writer, Deadlock(w, other) PROVE IInv' /\ Serially
    BY <1>4, DeadlockStep
  <1>5. CASE Done
    BY <1>5, <1>1 DEF Done
  <1>6. ASSUME NEW w \in Writer, Fails(w) PROVE IInv' /\ Serially
    BY <1>6, FailsStep
  <1> QED BY <1>1, <1>2, <1>3, <1>4, <1>5, <1>6 DEF Next

\* The inductive invariant holds, for any writers and works.
THEOREM Invariance == Spec => []IInv
  BY InitInv, NextInv, PTL DEF Spec

\* Every variable keeps its type, and the lock is held exactly while a server-side apply merges.
THEOREM Typing == Spec => []TypeOK
  <1>1. IInv => TypeOK
    BY DEF IInv
  <1> QED BY <1>1, Invariance, PTL

\* However many writers there are, the client loop loses none of them to the others: no deadlock
\* fails one for good, and one that gives up met another's drop of the table it writes.  An apply is
\* lost to a deadlock or to a schema that moved, and to nothing else but an error.
THEOREM LoopLosesNone == Spec => []LoopLosesNoWriter
  <1>1. IInv => LoopLosesNoWriter
    <2> SUFFICES ASSUME IInv, NEW w \in Writer
                 PROVE  /\ tx[w].pc = "lost" => TakesApply(w)
                        /\ tx[w].pc = "conflict" => IF TakesApply(w) THEN DroppedSince(tx[w]) ELSE Overtaken(tx[w])
      BY DEF LoopLosesNoWriter, DroppedSince, Overtaken, Touched
    <2>1. TxInv(tx[w]) /\ PathInv(w, tx[w]) /\ (TakesApply(w) <=> AppliesAs(w, tx[w]))
      BY WriterFacts DEF TakesApply, AppliesAs
    <2> QED BY <2>1 DEF TxInv, ConflictInv, PathInv
  <1> QED BY <1>1, Invariance, PTL

\* Whichever path handed them out, row ids of a table and file ids are given once, below the stored
\* next ones - even if some writers skip the fetch of their snapshot.
THEOREM IdsGivenOnce == Spec => []IdsUnique
  <1>1. IInv => IdsUnique
    BY DEF IInv
  <1> QED BY <1>1, Invariance, PTL

\* The two paths implement the serial lake, if no writer skips the fetch of its snapshot: each
\* commit is one step that numbers its files and rows from exactly what the one before it left, and
\* writes no table that is gone.
THEOREM Serializable ==
  ASSUME Skipping = {}
  PROVE  Spec => CommitsSerially
  <1>1. IInv /\ [Next]_vars => [Lake!Next]_(Lake!vars)
    BY NextInv DEF Serially
  <1>2. Init => Lake!Init
    BY InitInv
  <1> QED BY <1>1, <1>2, Invariance, PTL DEF Spec, Lake!Spec, CommitsSerially
=============================================================================
