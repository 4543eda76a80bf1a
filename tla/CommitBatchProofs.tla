------------------------- MODULE CommitBatchProofs -------------------------
(***************************************************************************)
(* Proofs about CommitBatch, for any statements DuckLake may send, any     *)
(* limit of a run and whatever calls fail.                                 *)
(***************************************************************************)
EXTENDS CommitBatch, FunctionTheorems, WellFoundedInduction, TLAPS

\* Every statement that some input has.
Statements == UNION {{i[n] : n \in 1 .. Len(i)} : i \in Inputs}

\* What the assumption on the inputs says of one statement.
StatementOK(s) ==
    /\ s.kind = "refresh" => s \in [kind : {"refresh"}, column : Column,
                                  exactness : BOOLEAN, value : Nat, exact : Nat]
    /\ s.kind = "retyped" => s.column \in Column

Bounds == [value : Nat, exact : Nat]

\* A state of the server.
IsDb(d) ==
    /\ d = [stats |-> d.stats, written |-> d.written]
    /\ d.stats \in [Column -> Bounds]

-----------------------------------------------------------------------------
(* Statements one after another *)

\* A set of naturals has a least element: the form of induction that the proofs below use.
LEMMA LeastNatural ==
  ASSUME NEW T, T \subseteq Nat, T # {}
  PROVE  \E x \in T : \A y \in T : x <= y
<1> DEFINE R == {ss \in Nat \X Nat : ss[1] < ss[2]}
<1>1. IsWellFoundedOn(R, Nat) BY NatLessThanWellFounded DEF OpToRel
<1>2. PICK x \in T : \A y \in T : ~ (<<y, x>> \in R)
  <2> HIDE DEF R
  <2> QED BY <1>1, WFMin
<1>3. \A a, b \in Nat : a < b => <<a, b>> \in R OBVIOUS
<1>4. \A y \in T : x <= y
  <2> HIDE DEF R
  <2> TAKE y \in T
  <2>1. x \in Nat /\ y \in Nat OBVIOUS
  <2>2. ~(y < x) BY <1>2, <1>3, <2>1
  <2> QED BY <2>1, <2>2
<1> QED BY <1>4

\* What n statements leave is what the last of them makes of what those before it leave.
LEMMA ReferenceSteps ==
  ASSUME NEW db, NEW ss, Len(ss) \in Nat
  PROVE  /\ Reference(db, ss, 0) = db
         /\ \A n \in 1 .. Len(ss) : Reference(db, ss, n) = Apply(Reference(db, ss, n - 1), ss[n])
<1> DEFINE Fold(g, k) == [n \in 0 .. k |-> IF n = 0 THEN db ELSE Apply(g[n - 1], ss[n])]
           Missing == {k \in 0 .. Len(ss) : ~ \E g : g = Fold(g, k)}
<1>1. Missing = {}
  <2> SUFFICES ASSUME Missing # {} PROVE FALSE OBVIOUS
  <2>1. PICK k \in Missing : \A j \in Missing : k <= j
    <3>1. Missing \subseteq Nat OBVIOUS
    <3> HIDE DEF Missing
    <3> QED BY <3>1, LeastNatural
  <2>2. CASE k = 0
    <3> DEFINE g == [n \in 0 .. k |-> db]
    <3>1. g = Fold(g, k) BY <2>2
    <3> QED BY <3>1
  <2>3. CASE k # 0
    <3>1. k \in 0 .. Len(ss) /\ k \in Nat /\ k - 1 \in 0 .. Len(ss) /\ ~(k <= k - 1) BY <2>3
    <3>2. k - 1 \in 0 .. Len(ss) /\ k - 1 \notin Missing
      <4> HIDE DEF Missing
      <4> QED BY <2>1, <3>1
    <3>3. PICK g : g = Fold(g, k - 1) BY <3>2
    <3> DEFINE h == [n \in 0 .. k |-> IF n = k THEN Apply(g[k - 1], ss[k]) ELSE g[n]]
    <3>4. \A n \in 0 .. k : h[n] = Fold(h, k)[n]
      <4> SUFFICES ASSUME NEW n \in 0 .. k PROVE h[n] = Fold(h, k)[n] OBVIOUS
      <4>1. CASE n = k BY <4>1, <2>3, <3>2
      <4>2. CASE n # k
        <5>1. n \in 0 .. (k - 1) BY <4>2, <3>2
        <5>2. g[n] = IF n = 0 THEN db ELSE Apply(g[n - 1], ss[n]) BY <3>3, <5>1, Zenon
        <5>3. n # 0 => n - 1 \in 0 .. k /\ n - 1 # k BY <5>1, <3>2
        <5> QED BY <5>1, <5>2, <5>3, <4>2
      <4> QED BY <4>1, <4>2
    <3>5. h = Fold(h, k) BY <3>4
    <3> QED BY <3>5
  <2> QED BY <2>2, <2>3
<1>2. PICK g : g = Fold(g, Len(ss)) BY <1>1
<1> DEFINE after == CHOOSE f : f = Fold(f, Len(ss))
<1>3. after = Fold(after, Len(ss)) BY <1>2
<1>4. \A i : Reference(db, ss, i) = after[i] BY DEF Reference
<1> HIDE DEF after
<1>5. after[0] = db BY <1>3
<1>6. \A n \in 1 .. Len(ss) : after[n] = Apply(after[n - 1], ss[n]) BY <1>3
<1> QED BY <1>4, <1>5, <1>6

\* What the n-th piece makes of any state of a set.
Results(created, run, dbs, i) == UNION {Outcomes(dd, created, run[i]) : dd \in dbs}

\* The states that the first n pieces of a run may leave.
RunPrefix(db, created, run, n) ==
    LET after[k \in 0 .. Len(run)] ==
          IF k = 0 THEN {db} ELSE UNION {Outcomes(d, created, run[k]) : d \in after[k - 1]}
    IN after[n]

\* What the server makes of a run, it makes of its pieces in turn.
LEMMA RunSteps ==
  ASSUME NEW db, NEW created, NEW run, Len(run) \in Nat
  PROVE  /\ RunPrefix(db, created, run, 0) = {db}
         /\ \A n \in 1 .. Len(run) :
              \A x : x \in RunPrefix(db, created, run, n)
                    <=> \E d \in RunPrefix(db, created, run, n - 1) : x \in Outcomes(d, created, run[n])
         /\ RunOutcomes(db, created, run) = RunPrefix(db, created, run, Len(run))
<1> DEFINE Fold(g, k) == [n \in 0 .. k |-> IF n = 0 THEN {db} ELSE Results(created, run, g[n - 1], n)]
           Missing == {k \in 0 .. Len(run) : ~ \E g : g = Fold(g, k)}
<1>1. Missing = {}
  <2> SUFFICES ASSUME Missing # {} PROVE FALSE OBVIOUS
  <2>1. PICK k \in Missing : \A j \in Missing : k <= j
    <3>1. Missing \subseteq Nat OBVIOUS
    <3> HIDE DEF Missing
    <3> QED BY <3>1, LeastNatural
  <2>2. CASE k = 0
    <3> DEFINE g == [n \in 0 .. k |-> {db}]
    <3>1. g = Fold(g, k) BY <2>2
    <3> QED BY <3>1
  <2>3. CASE k # 0
    <3>1. k \in 0 .. Len(run) /\ k \in Nat /\ k - 1 \in 0 .. Len(run) /\ ~(k <= k - 1) BY <2>3
    <3>2. k - 1 \in 0 .. Len(run) /\ k - 1 \notin Missing
      <4> HIDE DEF Missing
      <4> QED BY <2>1, <3>1
    <3>3. PICK g : g = Fold(g, k - 1) BY <3>2
    <3> DEFINE h == [n \in 0 .. k |-> IF n = k THEN Results(created, run, g[k - 1], k) ELSE g[n]]
    <3>4. \A n \in 0 .. k : h[n] = Fold(h, k)[n]
      <4> SUFFICES ASSUME NEW n \in 0 .. k PROVE h[n] = Fold(h, k)[n] OBVIOUS
      <4>1. CASE n = k BY <4>1, <2>3, <3>2
      <4>2. CASE n # k
        <5>1. n \in 0 .. (k - 1) BY <4>2, <3>2
        <5>2. g[n] = IF n = 0 THEN {db} ELSE Results(created, run, g[n - 1], n) BY <3>3, <5>1, Zenon
        <5>3. n # 0 => n - 1 \in 0 .. k /\ n - 1 # k BY <5>1, <3>2
        <5> QED BY <5>1, <5>2, <5>3, <4>2
      <4> QED BY <4>1, <4>2
    <3>5. h = Fold(h, k) BY <3>4
    <3> QED BY <3>5
  <2> QED BY <2>2, <2>3
<1>2. PICK g : g = Fold(g, Len(run))
  <2>1. Len(run) \in 0 .. Len(run) OBVIOUS
  <2> HIDE DEF Fold
  <2> QED BY <1>1, <2>1
<1> DEFINE after == CHOOSE f : f = Fold(f, Len(run))
<1>3. after = Fold(after, Len(run)) BY <1>2
<1>4. \A i : RunPrefix(db, created, run, i) = after[i] BY DEF RunPrefix, Results
<1> HIDE DEF after
<1>5. after[0] = {db} BY <1>3
<1>6. \A n \in 1 .. Len(run) : after[n] = Results(created, run, after[n - 1], n)
  <2> SUFFICES ASSUME NEW n \in 1 .. Len(run)
               PROVE  after[n] = Results(created, run, after[n - 1], n)
    OBVIOUS
  <2>1. n \in 0 .. Len(run) /\ n # 0 OBVIOUS
  <2>2. after[n] = IF n = 0 THEN {db} ELSE Results(created, run, after[n - 1], n)
    BY <1>3, <2>1, Zenon
  <2> QED BY <2>1, <2>2
<1>7. RunOutcomes(db, created, run) = RunPrefix(db, created, run, Len(run))
  BY DEF RunOutcomes, RunPrefix
<1>8. ASSUME NEW n \in 1 .. Len(run), NEW x
      PROVE  x \in after[n] <=> \E d \in after[n - 1] : x \in Outcomes(d, created, run[n])
  <2>1. after[n] = UNION {Outcomes(d, created, run[n]) : d \in after[n - 1]} BY <1>6 DEF Results
  <2> QED BY <2>1
<1> QED BY <1>4, <1>5, <1>7, <1>8

-----------------------------------------------------------------------------
(* A statement, and a piece of a run *)

\* A bound that is cut is still a bound.
LEMMA BoundedType == ASSUME NEW s, s.kind = "refresh", StatementOK(s)
                     PROVE  Bounded(s).value \in Nat /\ Bounded(s).exact \in Nat
<1>1. s \in [kind : {"refresh"}, column : Column, exactness : BOOLEAN, value : Nat, exact : Nat]
  BY DEF StatementOK
<1>2. ASSUME s.value > StatsLength PROVE Bounded(s).value \in Nat /\ Bounded(s).exact \in Nat
  <2>1. Bounded(s) = [s EXCEPT !.value = Unknown, !.exact = Unknown] BY <1>2 DEF Bounded
  <2> QED BY <1>1, <2>1 DEF Unknown
<1> QED BY <1>1, <1>2 DEF Bounded

\* The statistics after a refresh of one column.
Refreshed(stats, s) ==
    [c \in Column |->
        IF c = s.column
        THEN [value |-> Bounded(s).value,
              exact |-> IF s.exactness THEN Bounded(s).exact ELSE stats[c].exact]
        ELSE stats[c]]

\* A refresh rewrites one column, and writes nothing else.
LEMMA ApplyRefresh ==
  ASSUME NEW d, IsDb(d), NEW s, StatementOK(s), s.kind = "refresh"
  PROVE  /\ Apply(d, s) = [stats |-> Refreshed(d.stats, s), written |-> d.written]
         /\ IsDb(Apply(d, s))
<1> DEFINE new == [value |-> Bounded(s).value,
                   exact |-> IF s.exactness THEN Bounded(s).exact ELSE d.stats[s.column].exact]
<1>1. s.column \in Column /\ d.stats \in [Column -> Bounds] BY DEF StatementOK, IsDb
<1>2. new \in Bounds
  <2>1. d.stats[s.column].exact \in Nat BY <1>1 DEF Bounds
  <2> QED BY <2>1, BoundedType DEF Bounds
<1>3. Apply(d, s) = [d EXCEPT !.stats[s.column] = new] BY DEF Apply
<1>4. Refreshed(d.stats, s) = [d.stats EXCEPT ![s.column] = new] BY <1>1 DEF Refreshed
<1> HIDE DEF new
<1>5. [d.stats EXCEPT ![s.column] = new] \in [Column -> Bounds] BY <1>1, <1>2
<1>6. Apply(d, s) = [stats |-> [d.stats EXCEPT ![s.column] = new], written |-> d.written]
  BY <1>3 DEF IsDb
<1> QED BY <1>4, <1>5, <1>6 DEF IsDb

\* A retyped column keeps its row.
LEMMA ApplyRetyped ==
  ASSUME NEW d, IsDb(d), NEW s, StatementOK(s), s.kind = "retyped" PROVE IsDb(Apply(d, s))
<1> DEFINE new == [d.stats[s.column] EXCEPT !.value = Unknown]
           stats == [d.stats EXCEPT ![s.column] = new]
<1>1. s.column \in Column /\ d.stats \in [Column -> Bounds] BY DEF StatementOK, IsDb
<1>2. new \in Bounds BY <1>1 DEF Bounds, Unknown
<1>3. Apply(d, s) = [d EXCEPT !.stats[s.column].value = Unknown, !.written = Append(@, s)]
  BY DEF Apply
<1> HIDE DEF new
<1>4. stats \in [Column -> Bounds] BY <1>1, <1>2
<1>5. Apply(d, s) = [d EXCEPT !.stats = stats, !.written = Append(@, s)] BY <1>3 DEF new
<1> HIDE DEF stats
<1>6. Apply(d, s) = [stats |-> stats, written |-> Append(d.written, s)] BY <1>5 DEF IsDb
<1> QED BY <1>4, <1>6 DEF IsDb

\* Every statement leaves a state of the server.
LEMMA ApplyDb == ASSUME NEW d, IsDb(d), NEW s, StatementOK(s) PROVE IsDb(Apply(d, s))
<1>1. CASE s.kind = "refresh" BY <1>1, ApplyRefresh
<1>2. CASE s.kind = "retyped" BY <1>2, ApplyRetyped
<1>3. CASE s.kind = "ddl" BY <1>3 DEF Apply
<1>4. CASE s.kind \notin {"refresh", "retyped", "ddl"}
  <2>1. Apply(d, s) = [d EXCEPT !.written = Append(@, s)] BY <1>4 DEF Apply
  <2>2. Apply(d, s) = [stats |-> d.stats, written |-> Append(d.written, s)] BY <2>1 DEF IsDb
  <2> QED BY <2>2 DEF IsDb
<1> QED BY <1>1, <1>2, <1>3, <1>4

\* Refreshes that can go as one: of one table, of one width, a column once.
Coherent(p) ==
    /\ p \in Seq(Statements) /\ p # << >>
    /\ \A s \in Range(p) : /\ s.kind = "refresh" /\ StatementOK(s)
                           /\ s.column[1] = Head(p).column[1] /\ s.exactness = Head(p).exactness
    /\ \A r, s \in Range(p) : r.column = s.column => r = s

ColumnsOf(p) == {s.column : s \in Range(p)}
RefreshOf(p, c) == CHOOSE s \in Range(p) : s.column = c

\* The statistics after a piece of refreshes.
JointStats(stats, p) ==
    [c \in Column |->
        IF c \notin ColumnsOf(p) THEN stats[c]
        ELSE [value |-> Bounded(RefreshOf(p, c)).value,
              exact |-> IF Head(p).exactness THEN Bounded(RefreshOf(p, c)).exact
                                             ELSE stats[c].exact]]

\* The first of the statements that are left.
LEMMA HeadFacts ==
  ASSUME NEW p \in Seq(Statements), p # << >>
  PROVE  Head(p) = p[1] /\ Head(p) \in Range(p) /\ Len(p) \in Nat \ {0}
<1>1. Len(p) \in Nat \ {0} /\ 1 \in DOMAIN p OBVIOUS
<1>2. Head(p) = p[1] OBVIOUS
<1> QED BY <1>1, <1>2 DEF Range

\* Of a coherent piece each column's value is the one its refresh has, and the UPDATE has one result.
LEMMA CoherentOutcome ==
  ASSUME NEW p, Coherent(p), NEW d, IsDb(d), NEW created
  PROVE  Outcomes(d, created, p) = {[stats |-> JointStats(d.stats, p), written |-> d.written]}
<1> DEFINE sole == [c \in ColumnsOf(p) |-> RefreshOf(p, c)]
<1>1. /\ Head(p) \in Range(p) /\ Head(p).kind = "refresh"
      /\ \A s \in Range(p) : s.exactness = Head(p).exactness
  BY HeadFacts DEF Coherent
<1>2. ASSUME NEW s \in Range(p) PROVE Target(p, s) = s.column /\ s.column \in Column
  <2>1. s.column \in Column /\ s.column[1] = Head(p).column[1] BY DEF Coherent, StatementOK
  <2>2. s.column = <<s.column[1], s.column[2]>> BY <2>1, BatchAssumption
  <2> QED BY <2>1, <2>2 DEF Target
<1>3. {Target(p, s) : s \in Range(p)} = ColumnsOf(p) BY <1>2 DEF ColumnsOf
<1>4. ASSUME NEW c \in ColumnsOf(p)
      PROVE  /\ RefreshOf(p, c) \in Range(p) /\ RefreshOf(p, c).column = c
             /\ \A s \in Range(p) : s.column = c => s = RefreshOf(p, c)
  BY DEF ColumnsOf, RefreshOf, Coherent
<1>5. sole \in [ColumnsOf(p) -> Range(p)] /\ \A c \in ColumnsOf(p) : Target(p, sole[c]) = c
  BY <1>2, <1>4
<1>6. ASSUME NEW f \in [ColumnsOf(p) -> Range(p)],
             \A c \in ColumnsOf(p) : Target(p, f[c]) = c
      PROVE  f = sole
  <2>1. ASSUME NEW c \in ColumnsOf(p) PROVE f[c] = sole[c]
    <3>1. f[c] \in Range(p) /\ f[c].column = c BY <1>2, <1>6
    <3> QED BY <1>4, <3>1
  <2> QED BY <2>1
<1>7. Chosen(p) = {sole}
  <2>1. Chosen(p) = {f \in [ColumnsOf(p) -> Range(p)] : \A c \in ColumnsOf(p) : Target(p, f[c]) = c}
    BY <1>3, Zenon DEF Chosen
  <2> HIDE DEF sole
  <2> QED BY <1>5, <1>6, <2>1
<1>8. Outcomes(d, created, p) = {Update(d, p, sole)}
  <2> HIDE DEF sole
  <2>1. Outcomes(d, created, p) = {Update(d, p, f) : f \in Chosen(p)}
    BY <1>1 DEF Outcomes, Joined
  <2> QED BY <1>7, <2>1
<1>9. DOMAIN sole = ColumnsOf(p) /\ \A c \in ColumnsOf(p) : sole[c] = RefreshOf(p, c) OBVIOUS
<1> HIDE DEF sole
<1> DEFINE new == [c \in Column |->
        IF c \notin DOMAIN sole THEN d.stats[c]
        ELSE [value |-> Bounded(sole[c]).value,
              exact |-> IF Head(p).exactness THEN Bounded(sole[c]).exact ELSE d.stats[c].exact]]
<1>10. Update(d, p, sole) = [d EXCEPT !.stats = new] BY DEF Update
<1>11. new = JointStats(d.stats, p)
  <2>1. \A c \in Column : new[c] = JointStats(d.stats, p)[c] BY <1>9 DEF JointStats
  <2> QED BY <2>1 DEF JointStats
<1> HIDE DEF new
<1>12. Update(d, p, sole) = [stats |-> new, written |-> d.written] BY <1>10 DEF IsDb
<1> QED BY <1>8, <1>11, <1>12

\* A refresh by itself is a coherent piece, and its outcome is what the statement does.
LEMMA OneRefresh ==
  ASSUME NEW s \in Statements, StatementOK(s), s.kind = "refresh", NEW d, IsDb(d), NEW created
  PROVE  Coherent(<<s>>) /\ Outcomes(d, created, <<s>>) = {Apply(d, s)}
<1> DEFINE p == <<s>>
<1>1. p \in Seq(Statements) /\ p # << >> /\ Range(p) = {s} /\ Head(p) = s BY DEF Range
<1> HIDE DEF p
<1>2. Coherent(p) BY <1>1 DEF Coherent
<1>3. ColumnsOf(p) = {s.column} /\ RefreshOf(p, s.column) = s BY <1>1 DEF ColumnsOf, RefreshOf
<1>4. \A c \in Column : JointStats(d.stats, p)[c] = Refreshed(d.stats, s)[c]
  BY <1>1, <1>3 DEF JointStats, Refreshed
<1>5. JointStats(d.stats, p) = Refreshed(d.stats, s) BY <1>4 DEF JointStats, Refreshed
<1>6. Outcomes(d, created, p) = {Apply(d, s)} BY <1>2, <1>5, CoherentOutcome, ApplyRefresh
<1> QED BY <1>2, <1>6 DEF p

\* A refresh that joins leaves what it would leave after the others (Execute's three conditions).
LEMMA JoiningIsAfter ==
  ASSUME NEW p, Coherent(p), NEW s \in Statements, StatementOK(s), s.kind = "refresh", Joins(p, s),
         NEW d, IsDb(d), NEW created, NEW e \in Outcomes(d, created, p)
  PROVE  /\ Coherent(Append(p, s)) /\ IsDb(e)
         /\ Outcomes(d, created, Append(p, s)) = {Apply(e, s)}
<1> DEFINE q == Append(p, s)
<1>1. p \in Seq(Statements) /\ p # << >> BY DEF Coherent
<1>2. q \in Seq(Statements) /\ q # << >> /\ Head(q) = Head(p) /\ Range(q) = Range(p) \cup {s}
  <2>1. q \in Seq(Statements) /\ Len(q) = Len(p) + 1 /\ Len(p) \in Nat \ {0} BY <1>1
  <2>2. \A i \in 1 .. Len(q) : q[i] = IF i = Len(p) + 1 THEN s ELSE p[i] BY <1>1
  <2>3. DOMAIN q = 1 .. Len(p) + 1 /\ DOMAIN p = 1 .. Len(p) BY <1>1, <2>1
  <2>4. Range(q) = Range(p) \cup {s}
    <3> HIDE DEF q
    <3>1. \A x \in Range(q) : x \in Range(p) \cup {s} BY <2>1, <2>2, <2>3 DEF Range
    <3>2. \A x \in Range(p) : x \in Range(q) BY <2>1, <2>2, <2>3 DEF Range
    <3>3. s \in Range(q)
      <4>1. Len(p) + 1 \in DOMAIN q /\ q[Len(p) + 1] = s BY <2>1, <2>2, <2>3
      <4> QED BY <4>1 DEF Range
    <3> QED BY <3>1, <3>2, <3>3
  <2>5. Head(q) = q[1] /\ Head(p) = p[1] /\ q[1] = p[1] BY <1>1, <2>1, <2>2
  <2> QED BY <2>1, <2>4, <2>5
<1> HIDE DEF q
<1>3. /\ Head(p).column[1] = s.column[1] /\ Head(p).exactness = s.exactness
      /\ \A r \in Range(p) : r.column # s.column
  BY DEF Joins
<1>4. Coherent(q) BY <1>2, <1>3 DEF Coherent
<1>5. e = [stats |-> JointStats(d.stats, p), written |-> d.written] BY CoherentOutcome
<1>6. ColumnsOf(q) = ColumnsOf(p) \cup {s.column} /\ s.column \notin ColumnsOf(p)
  BY <1>2, <1>3 DEF ColumnsOf
<1>7. ASSUME NEW c \in ColumnsOf(p) PROVE RefreshOf(q, c) = RefreshOf(p, c)
  <2>1. RefreshOf(p, c) \in Range(p) /\ RefreshOf(p, c).column = c BY DEF ColumnsOf, RefreshOf
  <2>2. RefreshOf(q, c) \in Range(q) /\ RefreshOf(q, c).column = c
    BY <1>2, <2>1 DEF RefreshOf
  <2> QED BY <1>2, <1>4, <2>1, <2>2 DEF Coherent
<1>8. RefreshOf(q, s.column) = s BY <1>2, <1>3 DEF RefreshOf
<1>9. IsDb(e)
  <2>1. d.stats \in [Column -> Bounds] BY DEF IsDb
  <2>2. ASSUME NEW c \in ColumnsOf(p)
        PROVE  Bounded(RefreshOf(p, c)).value \in Nat /\ Bounded(RefreshOf(p, c)).exact \in Nat
    <3>1. RefreshOf(p, c) \in Range(p) BY DEF ColumnsOf, RefreshOf
    <3> QED BY <3>1, BoundedType DEF Coherent
  <2>3. \A c \in Column : d.stats[c] \in Bounds /\ d.stats[c].exact \in Nat BY <2>1 DEF Bounds
  <2>4. JointStats(d.stats, p) \in [Column -> Bounds] BY <2>2, <2>3 DEF JointStats, Bounds
  <2> QED BY <1>5, <2>4 DEF IsDb
<1>10. \A c \in Column : JointStats(d.stats, q)[c] = Refreshed(JointStats(d.stats, p), s)[c]
  <2> TAKE c \in Column
  <2>1. CASE c = s.column BY <1>2, <1>3, <1>6, <1>8, <2>1 DEF JointStats, Refreshed
  <2>2. CASE c # s.column /\ c \in ColumnsOf(p)
    BY <1>2, <1>6, <1>7, <2>2 DEF JointStats, Refreshed
  <2>3. CASE c # s.column /\ c \notin ColumnsOf(p)
    BY <1>6, <2>3 DEF JointStats, Refreshed
  <2> QED BY <2>1, <2>2, <2>3
<1>11. JointStats(d.stats, q) = Refreshed(JointStats(d.stats, p), s)
  BY <1>10 DEF JointStats, Refreshed
<1>12. Outcomes(d, created, q) = {[stats |-> JointStats(d.stats, q), written |-> d.written]}
  BY <1>4, CoherentOutcome
<1>13. Apply(e, s) = [stats |-> Refreshed(JointStats(d.stats, p), s), written |-> d.written]
  BY <1>5, <1>9, ApplyRefresh
<1> QED BY <1>4, <1>9, <1>11, <1>12, <1>13 DEF q

-----------------------------------------------------------------------------
(* A run *)

\* The server takes the piece: it is T-SQL, and the table it writes to is there.
PieceOK(created, p) ==
    /\ p \in Seq(Statements) /\ p # << >>
    /\ \/ Head(p).kind = "refresh" /\ Coherent(p)
       \/ /\ Head(p).kind \notin {"refresh", "unknown", "read"} /\ StatementOK(Head(p))
          /\ Head(p).kind = "deletes" => Head(p).table \in created

RunOK(created, run) ==
    run \in Seq(Seq(Statements)) /\ \A i \in 1 .. Len(run) : PieceOK(created, run[i])

\* A piece the server takes leaves one state, whatever else is created meanwhile.
LEMMA PieceOutcome ==
  ASSUME NEW created, NEW p, PieceOK(created, p), NEW d, IsDb(d)
  PROVE  /\ \E e : IsDb(e) /\ Outcomes(d, created, p) = {e}
         /\ \A more : created \subseteq more =>
              PieceOK(more, p) /\ Outcomes(d, more, p) = Outcomes(d, created, p)
<1>1. CASE Head(p).kind = "refresh" /\ Coherent(p)
  <2>1. \A c : Outcomes(d, c, p) = {[stats |-> JointStats(d.stats, p), written |-> d.written]}
    BY <1>1, CoherentOutcome
  <2>2. JointStats(d.stats, p) \in [Column -> Bounds]
    <3>1. \A c \in Column : d.stats[c] \in Bounds /\ d.stats[c].exact \in Nat
      BY DEF IsDb, Bounds
    <3>2. ASSUME NEW c \in ColumnsOf(p)
          PROVE  Bounded(RefreshOf(p, c)).value \in Nat /\ Bounded(RefreshOf(p, c)).exact \in Nat
      <4>1. RefreshOf(p, c) \in Range(p) BY DEF ColumnsOf, RefreshOf
      <4> QED BY <1>1, <4>1, BoundedType DEF Coherent
    <3> QED BY <3>1, <3>2 DEF JointStats, Bounds
  <2>3. IsDb([stats |-> JointStats(d.stats, p), written |-> d.written]) BY <2>2 DEF IsDb
  <2> QED BY <1>1, <2>1, <2>3 DEF PieceOK
<1>2. CASE /\ Head(p).kind \notin {"refresh", "unknown", "read"} /\ StatementOK(Head(p))
           /\ Head(p).kind = "deletes" => Head(p).table \in created
  <2>1. Outcomes(d, created, p) = {Apply(d, Head(p))} BY <1>2 DEF Outcomes, Joined
  <2>2. \A more : created \subseteq more => Outcomes(d, more, p) = {Apply(d, Head(p))}
    BY <1>2 DEF Outcomes, Joined
  <2>3. IsDb(Apply(d, Head(p))) BY <1>2, ApplyDb
  <2>4. \A more : created \subseteq more => PieceOK(more, p) BY <1>2 DEF PieceOK
  <2> QED BY <2>1, <2>2, <2>3, <2>4
<1> QED BY <1>1, <1>2 DEF PieceOK

\* A piece of one statement does what the statement does.
LEMMA OnePiece ==
  ASSUME NEW created, NEW s \in Statements, StatementOK(s), s.kind \notin {"unknown", "read"},
         s.kind = "deletes" => s.table \in created, NEW d, IsDb(d)
  PROVE  /\ PieceOK(created, <<s>>) /\ IsDb(Apply(d, s))
         /\ Outcomes(d, created, <<s>>) = {Apply(d, s)}
<1>1. <<s>> \in Seq(Statements) /\ <<s>> # << >> /\ Head(<<s>>) = s OBVIOUS
<1>2. IsDb(Apply(d, s)) BY ApplyDb
<1>3. CASE s.kind = "refresh" BY <1>1, <1>2, <1>3, OneRefresh DEF PieceOK
<1>4. CASE s.kind # "refresh"
  <2>1. PieceOK(created, <<s>>) BY <1>1, <1>4 DEF PieceOK
  <2>2. Outcomes(d, created, <<s>>) = {Apply(d, s)} BY <1>1, <1>4 DEF Outcomes, Joined
  <2> QED BY <1>2, <2>1, <2>2
<1> QED BY <1>3, <1>4

\* Two runs that begin with pieces of the same effect leave the same so far.
LEMMA PrefixesAgree ==
  ASSUME NEW db, NEW c1, NEW c2, NEW r1, NEW r2, Len(r1) \in Nat, Len(r2) \in Nat,
         NEW n \in Nat, n <= Len(r1), n <= Len(r2),
         \A i \in 1 .. n : \A d \in RunPrefix(db, c1, r1, i - 1) :
            Outcomes(d, c1, r1[i]) = Outcomes(d, c2, r2[i])
  PROVE  \A k \in 0 .. n : RunPrefix(db, c1, r1, k) = RunPrefix(db, c2, r2, k)
<1> DEFINE A(k) == RunPrefix(db, c1, r1, k)
           B(k) == RunPrefix(db, c2, r2, k)
           Bad == {k \in 0 .. n : A(k) # B(k)}
<1>1. A(0) = {db} /\ B(0) = {db} BY RunSteps
<1>2. ASSUME NEW i \in 1 .. n, NEW x
      PROVE  /\ x \in A(i) <=> \E d \in A(i - 1) : x \in Outcomes(d, c1, r1[i])
             /\ x \in B(i) <=> \E d \in B(i - 1) : x \in Outcomes(d, c2, r2[i])
  <2>1. i \in 1 .. Len(r1) /\ i \in 1 .. Len(r2) OBVIOUS
  <2> QED BY <2>1, RunSteps
<1>3. \A i \in 1 .. n : \A d \in A(i - 1) : Outcomes(d, c1, r1[i]) = Outcomes(d, c2, r2[i])
  OBVIOUS
<1> SUFFICES ASSUME Bad # {} PROVE FALSE OBVIOUS
<1> HIDE DEF A, B
<1>4. PICK k \in Bad : \A j \in Bad : k <= j
  <2>1. Bad \subseteq Nat OBVIOUS
  <2> HIDE DEF Bad
  <2> QED BY <2>1, LeastNatural
<1>5. k # 0 BY <1>1
<1>6. k \in 1 .. n /\ k - 1 \in 0 .. n /\ ~(k <= k - 1) BY <1>5
<1>7. A(k - 1) = B(k - 1)
  <2>1. k - 1 \notin Bad
    <3> HIDE DEF Bad
    <3> QED BY <1>4, <1>6
  <2> QED BY <1>6, <2>1
<1>8. \A d \in A(k - 1) : Outcomes(d, c1, r1[k]) = Outcomes(d, c2, r2[k]) BY <1>3, <1>6
<1>9. \A x : x \in A(k) <=> x \in B(k) BY <1>2, <1>6, <1>7, <1>8
<1>10. A(k) = B(k) BY <1>9
<1> QED BY <1>10

\* So does a run the server takes leave one state, after each of its pieces.
LEMMA RunDeterminate ==
  ASSUME NEW db, IsDb(db), NEW created, NEW run, RunOK(created, run)
  PROVE  \A k \in 0 .. Len(run) : \E e : IsDb(e) /\ RunPrefix(db, created, run, k) = {e}
<1> DEFINE A(k) == RunPrefix(db, created, run, k)
           Good(k) == \E e : IsDb(e) /\ A(k) = {e}
           Bad == {k \in 0 .. Len(run) : ~Good(k)}
<1>1. Len(run) \in Nat BY DEF RunOK
<1>2. A(0) = {db} BY <1>1, RunSteps
<1>3. ASSUME NEW i \in 1 .. Len(run), NEW u, A(i - 1) = {u}
      PROVE  A(i) = Outcomes(u, created, run[i])
  <2>1. \A x : x \in A(i) <=> \E d \in A(i - 1) : x \in Outcomes(d, created, run[i])
    BY <1>1, RunSteps DEF A
  <2> QED BY <1>3, <2>1
<1> SUFFICES ASSUME Bad # {} PROVE FALSE OBVIOUS
<1> HIDE DEF A
<1>4. ASSUME NEW i \in 1 .. Len(run), Good(i - 1) PROVE Good(i)
  <2>1. PICK u : IsDb(u) /\ A(i - 1) = {u} BY <1>4
  <2>2. A(i) = Outcomes(u, created, run[i]) BY <1>3, <2>1
  <2>3. PieceOK(created, run[i]) BY DEF RunOK
  <2>4. PICK e : IsDb(e) /\ Outcomes(u, created, run[i]) = {e} BY <2>1, <2>3, PieceOutcome
  <2>5. A(i) = {e} BY <2>2, <2>4
  <2> QED BY <2>4, <2>5
<1>5. Good(0) BY <1>2
<1> HIDE DEF Good
<1>6. PICK k \in Bad : \A j \in Bad : k <= j
  <2>1. Bad \subseteq Nat BY <1>1
  <2> HIDE DEF Bad
  <2> QED BY <2>1, LeastNatural
<1>7. k # 0 BY <1>5
<1>8. k \in 1 .. Len(run) /\ k - 1 \in 0 .. Len(run) /\ ~(k <= k - 1) BY <1>1, <1>7
<1>9. k - 1 \notin Bad
  <2> HIDE DEF Bad
  <2> QED BY <1>6, <1>8
<1> QED BY <1>4, <1>8, <1>9

\* What a run leaves, and that nothing else does.
LEMMA RunLeaves ==
  ASSUME NEW db, IsDb(db), NEW created, NEW run, RunOK(created, run)
  PROVE  \E e : IsDb(e) /\ RunOutcomes(db, created, run) = {e}
<1>1. Len(run) \in Nat /\ Len(run) \in 0 .. Len(run) BY DEF RunOK
<1> QED BY <1>1, RunDeterminate, RunSteps

\* A run of nothing changes nothing.
LEMMA EmptyRun == ASSUME NEW db, NEW created PROVE RunOutcomes(db, created, << >>) = {db}
<1>1. Len(<< >>) = 0 OBVIOUS
<1> QED BY <1>1, RunSteps

\* A piece more leaves what the piece makes of what the run leaves.
LEMMA RunAppend ==
  ASSUME NEW db, NEW created, NEW run, RunOK(created, run), NEW p \in Seq(Statements),
         NEW u, RunOutcomes(db, created, run) = {u}
  PROVE  RunOutcomes(db, created, Append(run, p)) = Outcomes(u, created, p)
<1> DEFINE q == Append(run, p)
           n == Len(run)
<1>1. /\ n \in Nat /\ Len(q) = n + 1 /\ q[n + 1] = p /\ n + 1 \in 1 .. Len(q)
      /\ \A i \in 1 .. n : q[i] = run[i]
  BY DEF RunOK
<1> HIDE DEF q, n
<1>2. \A k \in 0 .. n : RunPrefix(db, created, run, k) = RunPrefix(db, created, q, k)
  <2>1. \A i \in 1 .. n : \A d \in RunPrefix(db, created, run, i - 1) :
           Outcomes(d, created, run[i]) = Outcomes(d, created, q[i])
    BY <1>1
  <2>2. n <= Len(run) /\ n <= Len(q) /\ Len(run) \in Nat /\ Len(q) \in Nat BY <1>1 DEF n
  <2> QED BY <1>1, <2>1, <2>2, PrefixesAgree
<1>3. RunPrefix(db, created, q, n) = {u}
  <2>1. RunPrefix(db, created, run, n) = {u} BY <1>1, RunSteps DEF n
  <2> QED BY <1>1, <1>2, <2>1
<1>4. Len(q) \in Nat /\ n + 1 - 1 = n BY <1>1
<1>5. RunPrefix(db, created, q, n + 1) = Outcomes(u, created, p)
  <2>1. RunPrefix(db, created, q, n + 1 - 1) = {u} BY <1>3, <1>4
  <2>2. RunPrefix(db, created, q, n + 1) = Outcomes(u, created, q[n + 1])
    <3>1. \A x : x \in RunPrefix(db, created, q, n + 1)
                 <=> \E d \in RunPrefix(db, created, q, n + 1 - 1) : x \in Outcomes(d, created, q[n + 1])
      BY <1>1, <1>4, RunSteps
    <3> QED BY <2>1, <3>1
  <2> QED BY <1>1, <2>2
<1>6. RunOutcomes(db, created, q) = RunPrefix(db, created, q, n + 1) BY <1>1, <1>4, RunSteps
<1> QED BY <1>5, <1>6 DEF q

\* A table created meanwhile changes nothing for a run the server took already.
LEMMA RunGrows ==
  ASSUME NEW db, IsDb(db), NEW created, NEW more, created \subseteq more,
         NEW run, RunOK(created, run)
  PROVE  /\ RunOK(more, run)
         /\ \A x : x \in RunOutcomes(db, more, run) <=> x \in RunOutcomes(db, created, run)
<1>1. Len(run) \in Nat /\ Len(run) \in 0 .. Len(run) BY DEF RunOK
<1>2. ASSUME NEW i \in 1 .. Len(run), NEW d \in RunPrefix(db, created, run, i - 1)
      PROVE  Outcomes(d, created, run[i]) = Outcomes(d, more, run[i])
  <2>1. i - 1 \in 0 .. Len(run) BY <1>1
  <2>2. IsDb(d) BY <2>1, RunDeterminate
  <2>3. PieceOK(created, run[i]) BY DEF RunOK
  <2> QED BY <2>2, <2>3, PieceOutcome
<1>3. RunPrefix(db, created, run, Len(run)) = RunPrefix(db, more, run, Len(run))
  BY <1>1, <1>2, PrefixesAgree
<1>4. RunOutcomes(db, more, run) = RunOutcomes(db, created, run) BY <1>1, <1>3, RunSteps
<1>5. \A i \in 1 .. Len(run) : PieceOK(more, run[i]) BY PieceOutcome DEF RunOK
<1> QED BY <1>4, <1>5 DEF RunOK


-----------------------------------------------------------------------------
(* A batch *)

IsBatch(b) ==
    /\ b = [run |-> b.run, refreshes |-> b.refreshes, dropped |-> b.dropped, failed |-> b.failed,
            refused |-> b.refused, db |-> b.db, created |-> b.created, cached |-> b.cached,
            stale |-> b.stale]
    /\ b.failed \in BOOLEAN /\ ~b.refused /\ IsDb(b.db)
    /\ b.cached \subseteq b.created

\* A batch that a call ended, for a reason of the call's own.
Ended(b) == IsBatch(b) /\ b.failed /\ b.run = << >>

\* A batch whose run leaves the state u.
Carries(b, u) ==
    /\ IsBatch(b) /\ ~b.failed /\ IsDb(u)
    /\ RunOK(b.created, b.run) /\ Len(b.run) <= RunLimit
    /\ RunOutcomes(b.db, b.created, b.run) = {u}

\* What the run drops is recorded, but for some tables, and what it dropped is gone from the cache.
TidyBut(b, some) == Drops(b.run) \subseteq b.dropped \cup some /\ b.stale = {}
Tidy(b) == TidyBut(b, {})

\* The piece p makes e of u.
Makes(created, p, u, e) == PieceOK(created, p) /\ Outcomes(u, created, p) = {e}

\* The refreshes gathered make e of u.
Pending(created, refreshes, u, e) ==
    IF refreshes = << >> THEN u = e ELSE Coherent(refreshes) /\ Makes(created, refreshes, u, e)

\* The tables that are there and those the cache names, and the refreshes, are the same.
SameTables(b, c) == c.created = b.created /\ c.cached = b.cached

\* A call sends all of the run or fails.
LEMMA FlushedLeaves ==
  ASSUME NEW b, NEW u, Carries(b, u), Tidy(b), NEW c \in Flushed(b)
  PROVE  /\ SameTables(b, c) /\ c.refreshes = b.refreshes
         /\ (Ended(c) \/ (Carries(c, u) /\ Tidy(c) /\ c.run = << >>))
<1>1. CASE b.run = << >> BY <1>1 DEF Flushed, SameTables
<1>2. CASE c \in Sent(b)
  <2>1. c = [b EXCEPT !.run = << >>, !.dropped = {}, !.db = u,
                      !.stale = (b.stale \cup Drops(b.run)) \ b.dropped]
    BY <1>2 DEF Sent, Carries
  <2>2. (b.stale \cup Drops(b.run)) \ b.dropped = {} BY DEF Tidy, TidyBut
  <2>3. c = [run |-> << >>, refreshes |-> b.refreshes, dropped |-> {}, failed |-> b.failed,
             refused |-> b.refused, db |-> u, created |-> b.created, cached |-> b.cached,
             stale |-> {}]
    BY <2>1, <2>2 DEF Carries, IsBatch
  <2>4. RunOutcomes(u, b.created, << >>) = {u} BY EmptyRun
  <2>5. RunOK(b.created, << >>) /\ Len(<< >>) <= RunLimit BY BatchAssumption DEF RunOK
  <2>6. Carries(c, u) BY <2>3, <2>4, <2>5 DEF Carries, IsBatch
  <2>7. Drops(<< >>) = {}
    <3>1. Range(<< >>) = {} BY DEF Range
    <3> QED BY <3>1 DEF Drops
  <2> QED BY <2>3, <2>6, <2>7 DEF Tidy, TidyBut, SameTables
<1>3. CASE c \in Failed(b)
  <2>1. RunOutcomes(b.db, b.created, b.run) # {} BY DEF Carries
  <2>2. c = [b EXCEPT !.run = << >>, !.failed = TRUE, !.refused = FALSE]
    BY <1>3, <2>1 DEF Failed
  <2>3. c = [run |-> << >>, refreshes |-> b.refreshes, dropped |-> b.dropped, failed |-> TRUE,
             refused |-> FALSE, db |-> b.db, created |-> b.created, cached |-> b.cached,
             stale |-> b.stale]
    BY <2>2 DEF Carries, IsBatch
  <2>4. /\ c.failed = TRUE /\ c.refused = FALSE /\ c.run = << >> /\ c.db = b.db /\ IsDb(b.db)
        /\ c.cached \subseteq c.created
    BY <2>3 DEF Carries, IsBatch
  <2>5. c.created = b.created /\ c.cached = b.cached /\ c.refreshes = b.refreshes BY <2>3
  <2>6. c = [run |-> c.run, refreshes |-> c.refreshes, dropped |-> c.dropped, failed |-> c.failed,
             refused |-> c.refused, db |-> c.db, created |-> c.created, cached |-> c.cached,
             stale |-> c.stale]
    BY <2>3
  <2>7. c.failed \in BOOLEAN /\ ~c.refused /\ c.failed /\ IsDb(c.db) /\ c.cached \subseteq c.created
    BY <2>4
  <2>8. IsBatch(c) /\ Ended(c) BY <2>4, <2>6, <2>7, Zenon DEF IsBatch, Ended
  <2> QED BY <2>5, <2>8, Zenon DEF SameTables
<1> QED BY <1>1, <1>2, <1>3 DEF Flushed

\* A piece goes to the end of the run, in one call with it or in the next.
LEMMA AppendedLeaves ==
  ASSUME NEW b, NEW u, Carries(b, u), Tidy(b), NEW p, NEW e, Makes(b.created, p, u, e),
         NEW c \in Appended(b, p)
  PROVE  /\ SameTables(b, c) /\ c.refreshes = b.refreshes
         /\ (Ended(c) \/ (Carries(c, e) /\ TidyBut(c, Drops(<<p>>))))
<1> DEFINE room == IF Len(b.run) >= RunLimit THEN Flushed(b) ELSE {b}
<1>1. PICK d \in room : c = IF d.failed THEN d ELSE [d EXCEPT !.run = Append(@, p)]
  BY DEF Appended
<1>2. Len(b.run) \in Nat /\ RunLimit \in Nat \ {0} BY BatchAssumption DEF Carries, RunOK
<1>3. /\ SameTables(b, d) /\ d.refreshes = b.refreshes
      /\ (Ended(d) \/ (Carries(d, u) /\ Tidy(d) /\ Len(d.run) < RunLimit))
  <2>1. CASE Len(b.run) >= RunLimit
    <3>1. d \in Flushed(b) BY <2>1
    <3>2. Len(<< >>) = 0 OBVIOUS
    <3> QED BY <1>2, <3>1, <3>2, FlushedLeaves
  <2>2. CASE ~(Len(b.run) >= RunLimit)
    <3>1. d = b BY <2>2
    <3> QED BY <1>2, <2>2, <3>1 DEF SameTables
  <2> QED BY <2>1, <2>2
<1>4. CASE Ended(d)
  <2>1. c = d BY <1>1, <1>4, Zenon DEF Ended
  <2> QED BY <1>3, <1>4, <2>1, Zenon
<1>5. CASE Carries(d, u) /\ Tidy(d) /\ Len(d.run) < RunLimit
  <2>1. c = [run |-> Append(d.run, p), refreshes |-> d.refreshes, dropped |-> d.dropped,
             failed |-> d.failed, refused |-> d.refused, db |-> d.db, created |-> d.created,
             cached |-> d.cached, stale |-> d.stale]
    BY <1>1, <1>5 DEF Carries, IsBatch
  <2>2. PieceOK(d.created, p) /\ Outcomes(u, d.created, p) = {e} /\ p \in Seq(Statements)
    BY <1>3 DEF Makes, SameTables, PieceOK
  <2>3. d.run \in Seq(Seq(Statements)) /\ \A i \in 1 .. Len(d.run) : PieceOK(d.created, d.run[i])
    BY <1>5 DEF Carries, RunOK
  <2>4. RunOK(d.created, Append(d.run, p)) /\ Len(Append(d.run, p)) <= RunLimit
    BY <1>2, <1>5, <2>2, <2>3 DEF RunOK
  <2>5. RunOutcomes(d.db, d.created, Append(d.run, p)) = {e}
    BY <1>5, <2>2, RunAppend DEF Carries
  <2>6. IsDb(e)
    <3>1. PICK x : IsDb(x) /\ Outcomes(u, d.created, p) = {x}
      BY <1>5, <2>2, PieceOutcome DEF Carries
    <3> QED BY <2>2, <3>1
  <2>7. Carries(c, e) BY <1>5, <2>1, <2>4, <2>5, <2>6 DEF Carries, IsBatch
  <2>8. Drops(Append(d.run, p)) \subseteq Drops(d.run) \cup Drops(<<p>>)
    <3>1. \A x \in Range(Append(d.run, p)) : x \in Range(d.run) \/ x = p BY <2>2, <2>3 DEF Range
    <3>2. p \in Range(<<p>>) BY DEF Range
    <3> QED BY <3>1, <3>2 DEF Drops
  <2>9. TidyBut(c, Drops(<<p>>)) BY <1>5, <2>1, <2>8 DEF Tidy, TidyBut
  <2> QED BY <1>3, <2>1, <2>7, <2>9 DEF SameTables
<1> QED BY <1>3, <1>4, <1>5

\* Only a drop drops anything.
LEMMA NoDrop == ASSUME NEW p, Head(p).kind # "drop" PROVE Drops(<<p>>) = {}
<1>1. Range(<<p>>) = {p} BY DEF Range
<1> QED BY <1>1 DEF Drops

\* The refreshes gathered become a piece of the run.
LEMMA ClosedLeaves ==
  ASSUME NEW b, NEW u, Carries(b, u), Tidy(b), NEW e, Pending(b.created, b.refreshes, u, e),
         NEW c \in Closed(b)
  PROVE  /\ SameTables(b, c)
         /\ (Ended(c) \/ (Carries(c, e) /\ Tidy(c) /\ c.refreshes = << >>))
<1>1. CASE b.refreshes = << >> BY <1>1 DEF Closed, Pending, SameTables
<1>2. CASE b.refreshes # << >>
  <2>1. PICK d \in Appended(b, b.refreshes) : c = [d EXCEPT !.refreshes = << >>]
    BY <1>2 DEF Closed
  <2>2. Makes(b.created, b.refreshes, u, e) /\ Coherent(b.refreshes) BY <1>2 DEF Pending
  <2>3. Head(b.refreshes).kind # "drop"
    <3>1. Head(b.refreshes) \in Range(b.refreshes) BY <2>2, HeadFacts DEF Coherent
    <3> QED BY <2>2, <3>1 DEF Coherent
  <2>4. /\ SameTables(b, d)
        /\ (Ended(d) \/ (Carries(d, e) /\ TidyBut(d, Drops(<<b.refreshes>>))))
    BY <2>1, <2>2, AppendedLeaves
  <2>5. Drops(<<b.refreshes>>) = {} BY <2>3, NoDrop
  <2>6. IsBatch(d) BY <2>4 DEF Ended, Carries
  <2>7. c = [run |-> d.run, refreshes |-> << >>, dropped |-> d.dropped, failed |-> d.failed,
             refused |-> d.refused, db |-> d.db, created |-> d.created, cached |-> d.cached,
             stale |-> d.stale]
    BY <2>1, <2>6 DEF IsBatch
  <2>8. IsBatch(c) BY <2>6, <2>7 DEF IsBatch
  <2>9. CASE Ended(d)
    <3>1. c.failed = d.failed /\ c.run = d.run /\ SameTables(b, c) BY <2>4, <2>7 DEF SameTables
    <3>2. Ended(c) BY <2>8, <2>9, <3>1, Zenon DEF Ended
    <3> QED BY <3>1, <3>2, Zenon
  <2>10. CASE Carries(d, e) /\ TidyBut(d, {})
    BY <2>4, <2>7, <2>8, <2>10 DEF Carries, Tidy, TidyBut, SameTables
  <2> QED BY <2>4, <2>5, <2>9, <2>10
<1> QED BY <1>1, <1>2


-----------------------------------------------------------------------------
(* A batch and the statements it was made from *)

\* What the first n statements of DuckLake's leave one by one.
Told(ss, n) == Reference(Empty.db, ss, n)

\* A batch begins with nothing gathered.
LEMMA EmptyFacts == IsDb(Empty.db) /\ IsBatch(Empty) /\ ~Empty.failed
<1>1. [c \in Column |-> [value |-> 1, exact |-> 1]] \in [Column -> Bounds] BY DEF Bounds
<1>2. IsDb(Empty.db) BY <1>1 DEF Empty, IsDb
<1> QED BY <1>2 DEF Empty, IsBatch

\* What the assumption on the inputs says of each statement.
LEMMA StatementFacts ==
  ASSUME NEW ss \in Inputs
  PROVE  /\ Len(ss) \in Nat /\ DOMAIN ss = 1 .. Len(ss)
         /\ \A n \in 1 .. Len(ss) : /\ ss[n] \in Statements /\ StatementOK(ss[n])
                                    /\ ss[n] \in Range(ss)
<1>1. Len(ss) \in Nat /\ DOMAIN ss = 1 .. Len(ss) BY InputsAssumption
<1>2. ASSUME NEW n \in 1 .. Len(ss)
      PROVE  ss[n] \in Statements /\ StatementOK(ss[n]) /\ ss[n] \in Range(ss)
  <2>1. StatementOK(ss[n]) BY InputsAssumption DEF StatementOK
  <2>2. ss[n] \in Statements BY DEF Statements
  <2>3. ss[n] \in Range(ss) BY <1>1 DEF Range
  <2> QED BY <2>1, <2>2, <2>3
<1> QED BY <1>1, <1>2

\* Each statement leaves a state of the server, and what it makes of the one before it.
LEMMA ToldFacts ==
  ASSUME NEW ss \in Inputs
  PROVE  /\ Told(ss, 0) = Empty.db
         /\ \A n \in 1 .. Len(ss) : Told(ss, n) = Apply(Told(ss, n - 1), ss[n])
         /\ \A n \in 0 .. Len(ss) : IsDb(Told(ss, n))
<1>1. Len(ss) \in Nat BY StatementFacts
<1>2. /\ Told(ss, 0) = Empty.db
      /\ \A n \in 1 .. Len(ss) : Told(ss, n) = Apply(Told(ss, n - 1), ss[n])
  BY <1>1, ReferenceSteps DEF Told
<1> DEFINE Bad == {n \in 0 .. Len(ss) : ~IsDb(Told(ss, n))}
<1>3. Bad = {}
  <2> SUFFICES ASSUME Bad # {} PROVE FALSE OBVIOUS
  <2>1. PICK k \in Bad : \A j \in Bad : k <= j
    <3>1. Bad \subseteq Nat BY <1>1
    <3> HIDE DEF Bad
    <3> QED BY <3>1, LeastNatural
  <2>2. k # 0 BY <1>2, EmptyFacts
  <2>3. k \in 1 .. Len(ss) /\ k - 1 \in 0 .. Len(ss) /\ ~(k <= k - 1) BY <1>1, <2>2
  <2>4. k - 1 \notin Bad
    <3> HIDE DEF Bad
    <3> QED BY <2>1, <2>3
  <2>5. IsDb(Told(ss, k - 1)) /\ StatementOK(ss[k]) BY <2>3, <2>4, StatementFacts
  <2>6. IsDb(Told(ss, k)) BY <1>2, <2>3, <2>5, ApplyDb
  <2> QED BY <2>6
<1> QED BY <1>2, <1>3

\* The cache names only tables that are there; and those the statements created are there.
Known(ss, n, b) ==
    /\ b.cached \subseteq b.created
    /\ \A m \in 1 .. n - 1 : ss[m].kind = "ddl" => ss[m].table \in b.created

\* The batch before the n-th statement: what it holds, sent, leaves what DuckLake told so far.
Gathered(ss, n, b) ==
    /\ \E u : Carries(b, u) /\ Pending(b.created, b.refreshes, u, Told(ss, n - 1))
    /\ Tidy(b) /\ Known(ss, n, b)

\* The same of a batch without refreshes.
Clean(ss, n, b) ==
    Carries(b, Told(ss, n - 1)) /\ Tidy(b) /\ b.refreshes = << >> /\ Known(ss, n, b)

\* A batch with no refresh pending has gathered what it was told.
LEMMA CleanIsGathered == ASSUME NEW ss, NEW n, NEW b, Clean(ss, n, b) PROVE Gathered(ss, n, b)
BY DEF Clean, Gathered, Pending

\* What is known of the deletion table depends on the tables only.
LEMMA KnownCarries ==
  ASSUME NEW ss, NEW n, NEW b, NEW c, Known(ss, n, b), SameTables(b, c) PROVE Known(ss, n, c)
BY DEF Known, SameTables

\* Closing the refreshes leaves none pending.
LEMMA CloseOf ==
  ASSUME NEW ss, NEW n, NEW b, Gathered(ss, n, b), NEW c \in Closed(b)
  PROVE  Ended(c) \/ Clean(ss, n, c)
<1>1. PICK u : Carries(b, u) /\ Pending(b.created, b.refreshes, u, Told(ss, n - 1))
  BY DEF Gathered
<1>2. Tidy(b) /\ Known(ss, n, b) BY DEF Gathered
<1>3. /\ SameTables(b, c)
      /\ Ended(c) \/ (Carries(c, Told(ss, n - 1)) /\ Tidy(c) /\ c.refreshes = << >>)
  BY <1>1, <1>2, ClosedLeaves
<1>4. Known(ss, n, c) BY <1>2, <1>3, KnownCarries
<1> QED BY <1>3, <1>4 DEF Clean

\* Sending the run leaves nothing to send.
LEMMA FlushOf ==
  ASSUME NEW ss, NEW n, NEW b, Clean(ss, n, b), NEW c \in Flushed(b)
  PROVE  Ended(c) \/ (Clean(ss, n, c) /\ c.run = << >>)
<1>1. /\ SameTables(b, c) /\ c.refreshes = b.refreshes
      /\ Ended(c) \/ (Carries(c, Told(ss, n - 1)) /\ Tidy(c) /\ c.run = << >>)
  BY FlushedLeaves DEF Clean
<1>2. Known(ss, n, c) BY <1>1, KnownCarries DEF Clean
<1> QED BY <1>1, <1>2 DEF Clean

\* One statement more, and it is no creation of a table.
LEMMA KnownOn ==
  ASSUME NEW ss, NEW n \in Nat \ {0}, NEW b, Known(ss, n, b), ss[n].kind # "ddl"
  PROVE  Known(ss, n + 1, b)
<1>1. \A m \in 1 .. n + 1 - 1 : m = n \/ m \in 1 .. n - 1 OBVIOUS
<1> QED BY <1>1 DEF Known

\* A statement that goes to the run: the tables it needs were created before it.
LEMMA AppendOf ==
  ASSUME NEW ss \in Inputs, NEW n \in 1 .. Len(ss), NEW b, Clean(ss, n, b),
         ss[n].kind \notin {"unknown", "read", "ddl"}, NEW c \in Appended(b, <<ss[n]>>)
  PROVE  \/ Ended(c)
         \/ /\ Carries(c, Told(ss, n)) /\ TidyBut(c, Drops(<< <<ss[n]>> >>))
            /\ c.refreshes = << >> /\ Known(ss, n + 1, c)
<1>1. Len(ss) \in Nat /\ n \in Nat \ {0} /\ n - 1 \in 0 .. Len(ss) BY StatementFacts
<1>2. ss[n] \in Statements /\ StatementOK(ss[n]) BY StatementFacts
<1>3. ASSUME ss[n].kind = "deletes" PROVE ss[n].table \in b.created
  <2>1. PICK m \in 1 .. n - 1 : ss[m].kind = "ddl" /\ ss[m].table = ss[n].table
    BY <1>3, InputsAssumption
  <2> QED BY <2>1 DEF Clean, Known
<1>4. IsDb(Told(ss, n - 1)) /\ Told(ss, n) = Apply(Told(ss, n - 1), ss[n]) BY <1>1, ToldFacts
<1>5. Makes(b.created, <<ss[n]>>, Told(ss, n - 1), Told(ss, n))
  <2>1. PICK s : s = ss[n] OBVIOUS
  <2>2. PICK u : u = Told(ss, n - 1) OBVIOUS
  <2>3. /\ s \in Statements /\ StatementOK(s) /\ s.kind \notin {"unknown", "read"} /\ IsDb(u)
        /\ s.kind = "deletes" => s.table \in b.created
    BY <1>2, <1>3, <1>4, <2>1, <2>2
  <2>4. PieceOK(b.created, <<s>>) /\ Outcomes(u, b.created, <<s>>) = {Apply(u, s)}
    BY <2>3, OnePiece
  <2> QED BY <1>4, <2>1, <2>2, <2>4 DEF Makes
<1>6. /\ SameTables(b, c) /\ c.refreshes = << >>
      /\ Ended(c) \/ (Carries(c, Told(ss, n)) /\ TidyBut(c, Drops(<< <<ss[n]>> >>)))
  BY <1>5, AppendedLeaves DEF Clean
<1>7. Known(ss, n + 1, c) BY <1>1, <1>6, KnownCarries, KnownOn DEF Clean
<1> QED BY <1>6, <1>7


\* A refresh is gathered: it joins those before it, or it is the first.
LEMMA GatherOf ==
  ASSUME NEW ss \in Inputs, NEW n \in 1 .. Len(ss), ss[n].kind = "refresh", NEW b,
         \/ Gathered(ss, n, b) /\ Joins(b.refreshes, ss[n])
         \/ Clean(ss, n, b),
         NEW c, c = [b EXCEPT !.refreshes = Append(@, ss[n])]
  PROVE  Gathered(ss, n + 1, c)
<1>1. Len(ss) \in Nat /\ n \in Nat \ {0} /\ n - 1 \in 0 .. Len(ss) /\ n + 1 - 1 = n
  BY StatementFacts
<1>2. PICK s : s = ss[n] OBVIOUS
<1>3. s \in Statements /\ StatementOK(s) /\ s.kind = "refresh" BY <1>2, StatementFacts
<1>4. PICK e : e = Told(ss, n - 1) OBVIOUS
<1>5. IsDb(e) /\ Told(ss, n) = Apply(e, s) BY <1>1, <1>2, <1>4, ToldFacts
<1>6. Gathered(ss, n, b) BY CleanIsGathered
<1>7. PICK u : Carries(b, u) /\ Pending(b.created, b.refreshes, u, e) BY <1>4, <1>6 DEF Gathered
<1>8. c = [run |-> b.run, refreshes |-> Append(b.refreshes, s), dropped |-> b.dropped,
           failed |-> b.failed, refused |-> b.refused, db |-> b.db, created |-> b.created,
           cached |-> b.cached, stale |-> b.stale]
  BY <1>2, <1>7 DEF Carries, IsBatch
<1>9. Carries(c, u) /\ Tidy(c) /\ SameTables(b, c) /\ IsBatch(c) /\ ~c.failed
  BY <1>6, <1>7, <1>8 DEF Carries, IsBatch, Gathered, Tidy, TidyBut, SameTables
<1>10. Known(ss, n + 1, c) BY <1>1, <1>2, <1>3, <1>6, <1>9, KnownCarries, KnownOn DEF Gathered
<1>11. Makes(c.created, Append(b.refreshes, s), u, Apply(e, s)) /\ Coherent(Append(b.refreshes, s))
  <2>1. CASE b.refreshes = << >>
    <3>1. Append(b.refreshes, s) = <<s>> BY <2>1
    <3>2. u = e BY <1>7, <2>1 DEF Pending
    <3>3. PieceOK(c.created, <<s>>) /\ Outcomes(u, c.created, <<s>>) = {Apply(e, s)}
      BY <1>3, <1>5, <3>2, OnePiece
    <3>4. Coherent(<<s>>) BY <1>3, <1>5, OneRefresh
    <3> QED BY <3>1, <3>3, <3>4 DEF Makes
  <2>2. CASE b.refreshes # << >>
    <3>1. Joins(b.refreshes, s) BY <1>2, <2>2 DEF Clean
    <3>2. PICK p : p = b.refreshes OBVIOUS
    <3>3. Coherent(p) /\ Outcomes(u, b.created, p) = {e} /\ IsDb(u)
      BY <1>7, <2>2, <3>2 DEF Pending, Makes, Carries
    <3>4. /\ Coherent(Append(p, s))
          /\ Outcomes(u, b.created, Append(p, s)) = {Apply(e, s)}
      <4>1. PICK cr : cr = b.created OBVIOUS
      <4>2. e \in Outcomes(u, cr, p) BY <3>3, <4>1
      <4>3. Outcomes(u, cr, Append(p, s)) = {Apply(e, s)} /\ Coherent(Append(p, s))
        BY <1>3, <3>1, <3>2, <3>3, <4>2, JoiningIsAfter
      <4> QED BY <4>1, <4>3
    <3>5. /\ Head(Append(p, s)).kind = "refresh"
          /\ Append(p, s) \in Seq(Statements) /\ Append(p, s) # << >>
      <4>1. Append(p, s) \in Seq(Statements) /\ Append(p, s) # << >> BY <3>4 DEF Coherent
      <4>2. Head(Append(p, s)) \in Range(Append(p, s)) BY <4>1, HeadFacts
      <4> QED BY <3>4, <4>1, <4>2 DEF Coherent
    <3>6. PieceOK(b.created, Append(p, s)) BY <3>4, <3>5 DEF PieceOK
    <3> QED BY <1>8, <3>2, <3>4, <3>6 DEF Makes
  <2> QED BY <2>1, <2>2
<1>12. c.refreshes = Append(b.refreshes, s) /\ Append(b.refreshes, s) # << >>
  BY <1>8, <1>11 DEF Coherent
<1>13. Pending(c.created, c.refreshes, u, Told(ss, n + 1 - 1))
  BY <1>1, <1>5, <1>11, <1>12 DEF Pending
<1> QED BY <1>9, <1>10, <1>13 DEF Gathered

\* The deletion table is there, for what is held and for what comes; or its creation threw.
LEMMA CreateOf ==
  ASSUME NEW ss \in Inputs, NEW n \in 1 .. Len(ss), ss[n].kind = "ddl", NEW b, Clean(ss, n, b),
         NEW c,
         \/ ss[n].table \in b.cached /\ c = b
         \/ c = [b EXCEPT !.created = @ \cup {ss[n].table}, !.cached = @ \cup {ss[n].table}]
         \/ c = [b EXCEPT !.run = << >>, !.failed = TRUE]
  PROVE  Ended(c) \/ Gathered(ss, n + 1, c)
<1> SUFFICES ASSUME \/ ss[n].table \in b.cached /\ c = b
                    \/ c = [b EXCEPT !.created = @ \cup {ss[n].table}, !.cached = @ \cup {ss[n].table}]
             PROVE  Gathered(ss, n + 1, c)
  <2>1. ASSUME c = [b EXCEPT !.run = << >>, !.failed = TRUE] PROVE Ended(c)
    <3>1. IsBatch(b) BY DEF Clean, Carries
    <3>2. c = [run |-> << >>, refreshes |-> b.refreshes, dropped |-> b.dropped, failed |-> TRUE,
               refused |-> b.refused, db |-> b.db, created |-> b.created, cached |-> b.cached,
               stale |-> b.stale]
      BY <2>1, <3>1 DEF IsBatch
    <3> QED BY <3>1, <3>2 DEF IsBatch, Ended
  <2> QED BY <2>1
<1>1. Len(ss) \in Nat /\ n \in Nat \ {0} /\ n + 1 - 1 = n BY StatementFacts
<1>2. PICK t : t = ss[n].table OBVIOUS
<1>3. Told(ss, n) = Told(ss, n - 1) BY ToldFacts DEF Apply
<1>4. PICK u : u = Told(ss, n - 1) OBVIOUS
<1>5. IsBatch(b) /\ Carries(b, u) /\ ~b.failed BY <1>4 DEF Clean, Carries
<1>6. /\ c.created = b.created \cup {t}
      /\ c = [run |-> b.run, refreshes |-> b.refreshes, dropped |-> b.dropped,
              failed |-> b.failed, refused |-> b.refused, db |-> b.db, created |-> c.created,
              cached |-> c.cached, stale |-> b.stale]
      /\ c.cached \subseteq b.cached \cup {t}
  <2>1. CASE t \in b.cached /\ c = b
    <3>1. c = b BY <2>1
    <3>2. t \in b.created BY <2>1 DEF Clean, Known
    <3> QED BY <1>5, <3>1, <3>2 DEF IsBatch
  <2>2. CASE c = [b EXCEPT !.created = @ \cup {ss[n].table}, !.cached = @ \cup {ss[n].table}]
    <3>1. PICK cr, ca : cr = b.created \cup {t} /\ ca = b.cached \cup {t} OBVIOUS
    <3>2. c = [b EXCEPT !.created = cr, !.cached = ca] BY <1>2, <2>2, <3>1
    <3>3. c = [run |-> b.run, refreshes |-> b.refreshes, dropped |-> b.dropped,
               failed |-> b.failed, refused |-> b.refused, db |-> b.db,
               created |-> cr, cached |-> ca, stale |-> b.stale]
      BY <1>5, <3>2 DEF IsBatch
    <3>4. c.created = cr BY <3>3
    <3>5. c.cached = ca BY <3>3
    <3> QED BY <3>1, <3>3, <3>4, <3>5
  <2> QED BY <1>2, <2>1, <2>2
<1>7. RunOK(c.created, b.run) /\ RunOutcomes(b.db, c.created, b.run) = {u}
  <2>1. PICK d, cr, more, run : d = b.db /\ cr = b.created /\ more = c.created /\ run = b.run
    OBVIOUS
  <2>2. IsDb(d) /\ cr \subseteq more /\ RunOK(cr, run)
    BY <1>5, <1>6, <2>1 DEF Carries, IsBatch
  <2>3. RunOK(more, run)
    BY <2>2, RunGrows
  <2>4. \A x : x \in RunOutcomes(d, more, run) <=> x \in RunOutcomes(d, cr, run)
    BY <2>2, RunGrows
  <2>5. RunOutcomes(d, cr, run) = {u} BY <1>5, <2>1 DEF Carries
  <2> QED BY <2>1, <2>3, <2>4, <2>5
<1>8. IsBatch(c) /\ ~c.failed
  <2>1. c.cached \subseteq c.created BY <1>5, <1>6 DEF IsBatch
  <2> QED BY <1>5, <1>6, <2>1 DEF IsBatch
<1>9. Carries(c, u) /\ Tidy(c) /\ c.refreshes = << >>
  BY <1>5, <1>6, <1>7, <1>8 DEF Carries, Clean, Tidy, TidyBut
<1>10. Known(ss, n + 1, c)
  <2>1. \A m \in 1 .. n + 1 - 1 : m = n \/ m \in 1 .. n - 1 BY <1>1
  <2> QED BY <1>2, <1>6, <2>1 DEF Known, Clean
<1>11. Clean(ss, n + 1, c) BY <1>1, <1>3, <1>4, <1>9, <1>10 DEF Clean
<1> QED BY <1>8, <1>11, CleanIsGathered

\* A statement that goes DuckDB's way goes after all that was held.
LEMMA BaseOf ==
  ASSUME NEW ss \in Inputs, NEW n \in 1 .. Len(ss), ss[n].kind # "ddl",
         NEW b, Clean(ss, n, b), b.run = << >>,
         NEW c, c = [b EXCEPT !.db = Apply(b.db, ss[n])] \/ c = [b EXCEPT !.failed = TRUE]
  PROVE  Ended(c) \/ Gathered(ss, n + 1, c)
<1>1. Len(ss) \in Nat /\ n \in Nat \ {0} /\ n - 1 \in 0 .. Len(ss) /\ n + 1 - 1 = n
  BY StatementFacts
<1>2. IsBatch(b) /\ ~b.failed /\ b.refreshes = << >> /\ IsDb(b.db) BY DEF Clean, Carries, IsBatch
<1>3. b.db = Told(ss, n - 1)
  <2>1. RunOutcomes(b.db, b.created, << >>) = {Told(ss, n - 1)} BY DEF Clean, Carries
  <2> QED BY <2>1, EmptyRun
<1>4. PICK e : e = Apply(b.db, ss[n]) OBVIOUS
<1>5. e = Told(ss, n) /\ IsDb(e) BY <1>1, <1>3, <1>4, ToldFacts
<1>6. CASE c = [b EXCEPT !.db = Apply(b.db, ss[n])]
  <2>1. c = [run |-> b.run, refreshes |-> b.refreshes, dropped |-> b.dropped, failed |-> b.failed,
             refused |-> b.refused, db |-> e, created |-> b.created, cached |-> b.cached,
             stale |-> b.stale]
    BY <1>2, <1>4, <1>6 DEF IsBatch
  <2>2. IsBatch(c) /\ ~c.failed BY <1>2, <1>5, <2>1 DEF IsBatch
  <2>3. RunOutcomes(e, b.created, << >>) = {e} BY EmptyRun
  <2>4. Carries(c, e) BY <1>2, <1>5, <2>1, <2>2, <2>3 DEF Clean, Carries
  <2>5. Tidy(c) /\ c.refreshes = << >> /\ SameTables(b, c)
    BY <1>2, <2>1 DEF Clean, Tidy, TidyBut, SameTables
  <2>6. Known(ss, n + 1, c) BY <1>1, <2>5, KnownCarries, KnownOn DEF Clean
  <2>7. Clean(ss, n + 1, c) BY <1>1, <1>5, <2>4, <2>5, <2>6 DEF Clean
  <2> QED BY <2>2, <2>7, CleanIsGathered
<1>7. CASE c = [b EXCEPT !.failed = TRUE]
  <2>1. c = [run |-> b.run, refreshes |-> b.refreshes, dropped |-> b.dropped, failed |-> TRUE,
             refused |-> b.refused, db |-> b.db, created |-> b.created, cached |-> b.cached,
             stale |-> b.stale]
    BY <1>2, <1>7 DEF IsBatch
  <2>2. c.failed = TRUE /\ c.run = << >> BY <2>1
  <2>3. IsBatch(c) BY <1>2, <2>1 DEF IsBatch
  <2> QED BY <2>2, <2>3 DEF Ended
<1> QED BY <1>6, <1>7

\* The run is the n statements from the a-th on, a piece each.
Singles(ss, a, n, run) ==
    /\ Len(run) = n
    /\ \A i \in 1 .. n : /\ run[i] = <<ss[a + i - 1]>>
                          /\ ss[a + i - 1].kind \notin {"unknown", "read", "deletes"}

Leads(db, created, run, u) == \A x : x \in RunOutcomes(db, created, run) <=> x = u

\* A run of single statements leaves what they leave one by one.
LEMMA SinglesFollow ==
  ASSUME NEW ss \in Inputs, NEW a \in Nat \ {0}, NEW n \in Nat, a + n <= Len(ss) + 1,
         NEW created, NEW run, Singles(ss, a, n, run)
  PROVE  Leads(Told(ss, a - 1), created, run, Told(ss, a + n - 1))
<1>1. /\ Len(run) = n /\ Len(ss) \in Nat
      /\ \A i \in 1 .. n : /\ run[i] = <<ss[a + i - 1]>>
                            /\ ss[a + i - 1].kind \notin {"unknown", "read", "deletes"}
  BY StatementFacts DEF Singles
<1> DEFINE A(k) == RunPrefix(Told(ss, a - 1), created, run, k)
           Bad == {k \in 0 .. n : A(k) # {Told(ss, a + k - 1)}}
<1>2. A(0) = {Told(ss, a + 0 - 1)}
  <2>1. a + 0 - 1 = a - 1 OBVIOUS
  <2> QED BY <1>1, <2>1, RunSteps
<1>3. ASSUME NEW k \in 1 .. n, A(k - 1) = {Told(ss, a + (k - 1) - 1)}
      PROVE  A(k) = {Told(ss, a + k - 1)}
  <2>1. PICK s : s = ss[a + k - 1] OBVIOUS
  <2>2. PICK u : u = Told(ss, a + (k - 1) - 1) OBVIOUS
  <2>3. /\ a + k - 1 \in 1 .. Len(ss) /\ a + (k - 1) - 1 = (a + k - 1) - 1
        /\ a + (k - 1) - 1 \in 0 .. Len(ss)
    BY <1>1
  <2>4. Told(ss, a + k - 1) = Apply(u, s) /\ IsDb(u) BY <2>1, <2>2, <2>3, ToldFacts
  <2>5. s \in Statements /\ StatementOK(s) BY <2>1, <2>3, StatementFacts
  <2>6. Outcomes(u, created, <<s>>) = {Apply(u, s)} BY <1>1, <2>1, <2>4, <2>5, OnePiece
  <2>7. \A x : x \in A(k) <=> \E d \in A(k - 1) : x \in Outcomes(d, created, run[k])
    <3>1. k \in 1 .. Len(run) /\ Len(run) \in Nat BY <1>1
    <3>2. PICK db : db = Told(ss, a - 1) OBVIOUS
    <3>3. \A x : x \in RunPrefix(db, created, run, k)
                 <=> \E d \in RunPrefix(db, created, run, k - 1) : x \in Outcomes(d, created, run[k])
      BY <3>1, RunSteps
    <3> QED BY <3>2, <3>3
  <2>8. run[k] = <<s>> BY <1>1, <2>1
  <2> HIDE DEF A
  <2>9. A(k) = Outcomes(u, created, <<s>>) BY <1>3, <2>2, <2>7, <2>8
  <2> QED BY <2>4, <2>6, <2>9
<1> HIDE DEF A
<1>4. Bad = {}
  <2> SUFFICES ASSUME Bad # {} PROVE FALSE OBVIOUS
  <2>1. PICK k \in Bad : \A j \in Bad : k <= j
    <3>1. Bad \subseteq Nat OBVIOUS
    <3> HIDE DEF Bad
    <3> QED BY <3>1, LeastNatural
  <2>2. k # 0 BY <1>2
  <2>3. k \in 1 .. n /\ k - 1 \in 0 .. n /\ ~(k <= k - 1) BY <2>2
  <2>4. k - 1 \notin Bad
    <3> HIDE DEF Bad
    <3> QED BY <2>1, <2>3
  <2> QED BY <1>3, <2>3, <2>4
<1>5. A(n) = {Told(ss, a + n - 1)} BY <1>4
<1>6. RunOutcomes(Told(ss, a - 1), created, run) = A(n) BY <1>1, RunSteps DEF A
<1> QED BY <1>5, <1>6 DEF Leads


\* A statement that goes to the run, and is no drop.
LEMMA HeldOf ==
  ASSUME NEW ss \in Inputs, NEW n \in 1 .. Len(ss), NEW b, Clean(ss, n, b),
         ss[n].kind \notin {"unknown", "read", "ddl", "drop"}, NEW c \in Appended(b, <<ss[n]>>)
  PROVE  Ended(c) \/ Gathered(ss, n + 1, c)
<1>1. Len(ss) \in Nat /\ n + 1 - 1 = n BY StatementFacts
<1>2. \/ Ended(c)
      \/ /\ Carries(c, Told(ss, n)) /\ TidyBut(c, Drops(<< <<ss[n]>> >>))
         /\ c.refreshes = << >> /\ Known(ss, n + 1, c)
  BY AppendOf
<1>3. Drops(<< <<ss[n]>> >>) = {}
  <2>1. PICK p : p = <<ss[n]>> OBVIOUS
  <2>2. Head(p).kind # "drop" BY <2>1
  <2> QED BY <2>1, <2>2, NoDrop
<1>4. ASSUME ~Ended(c) PROVE Clean(ss, n + 1, c)
  <2>1. Carries(c, Told(ss, n + 1 - 1)) BY <1>1, <1>2, <1>4
  <2>2. Tidy(c) /\ c.refreshes = << >> /\ Known(ss, n + 1, c) BY <1>2, <1>3, <1>4 DEF Tidy
  <2> QED BY <2>1, <2>2 DEF Clean
<1> QED BY <1>4, CleanIsGathered

\* A drop goes to the run, and is recorded then.
LEMMA DropOf ==
  ASSUME NEW ss \in Inputs, NEW n \in 1 .. Len(ss), NEW b, Clean(ss, n, b), ss[n].kind = "drop",
         NEW c \in Appended(b, <<ss[n]>>), ~c.failed,
         NEW d, d = [c EXCEPT !.dropped = @ \cup {ss[n].name}]
  PROVE  Gathered(ss, n + 1, d)
<1>1. Len(ss) \in Nat /\ n + 1 - 1 = n BY StatementFacts
<1>2. /\ Carries(c, Told(ss, n)) /\ TidyBut(c, Drops(<< <<ss[n]>> >>))
      /\ c.refreshes = << >> /\ Known(ss, n + 1, c)
  BY AppendOf DEF Ended
<1>3. Drops(<< <<ss[n]>> >>) = {ss[n].name}
  <2>1. PICK p : p = <<ss[n]>> OBVIOUS
  <2>2. Head(p) = ss[n] BY <2>1
  <2>3. Range(<<p>>) = {p} BY DEF Range
  <2>4. Drops(<<p>>) = {ss[n].name} BY <2>2, <2>3 DEF Drops
  <2> QED BY <2>1, <2>4
<1>4. PICK t : t = c.dropped \cup {ss[n].name} OBVIOUS
<1>5. d = [run |-> c.run, refreshes |-> c.refreshes, dropped |-> t, failed |-> c.failed,
           refused |-> c.refused, db |-> c.db, created |-> c.created, cached |-> c.cached,
           stale |-> c.stale]
  BY <1>2, <1>4 DEF Carries, IsBatch
<1>6. Carries(d, Told(ss, n)) BY <1>2, <1>5 DEF Carries, IsBatch
<1>7. Tidy(d) BY <1>2, <1>3, <1>4, <1>5 DEF Tidy, TidyBut
<1>8. d.refreshes = << >> /\ Known(ss, n + 1, d) BY <1>2, <1>5 DEF Known
<1>9. Clean(ss, n + 1, d) BY <1>1, <1>6, <1>7, <1>8 DEF Clean
<1> QED BY <1>9, CleanIsGathered

-----------------------------------------------------------------------------
(* The inductive invariant *)

\* The statements are some input's, all writes or reads if they came as one string.
InputOK ==
    /\ input.statements \in Inputs
    /\ input.through \in {"execute"} \cup Throughs
    /\ input.through \in Throughs =>
         \A s \in Range(input.statements) : s.kind \in {"write", "drop", "unknown", "read"}

\* Execute: what is gathered and sent is what was told, and nothing is left at the end.
ExecuteInv ==
    input.through = "execute" /\ ~batch.failed =>
      /\ Gathered(input.statements, at, batch)
      /\ ended => batch.run = << >> /\ batch.refreshes = << >>

\* What comes as one string is sent as far as it is read, or not begun.
OnceInv ==
    input.through \in Throughs =>
      /\ batch.run = << >> /\ batch.refreshes = << >>
      /\ ~batch.failed => /\ batch.db = Told(input.statements, at - 1)
                          /\ batch.stale \subseteq batch.dropped
                          /\ ended => batch.stale = {}
      /\ ~ended /\ (input.through = "transaction" \/ ~AllRecognised) => at = 1 /\ batch = Empty
      /\ input.through = "transaction" =>
           batch.db \in {Empty.db, Told(input.statements, Len(input.statements))}

IInv ==
    /\ InputOK
    /\ at \in 1 .. Len(input.statements) + 1 /\ ended \in BOOLEAN
    /\ IsBatch(batch) /\ (batch.failed => ended /\ batch.run = << >>)
    /\ ExecuteInv /\ OnceInv

\* The invariant, before the first statement.
LEMMA InitInv == Init => IInv
<1> SUFFICES ASSUME Init PROVE IInv OBVIOUS
<1>1. at = 1 /\ ended = FALSE BY DEF Init
<1>2. /\ input.statements \in Inputs /\ input.through \in {"execute"} \cup Throughs
      /\ input.through \in Throughs =>
           \A s \in Range(input.statements) : s.kind \in {"write", "drop", "unknown", "read"}
  BY DEF Init, Of, Throughs
<1>3. PICK ss : ss = input.statements OBVIOUS
<1>4. Len(ss) \in Nat /\ Told(ss, 0) = Empty.db BY <1>2, <1>3, StatementFacts, ToldFacts
<1>5. PICK b, cr, ca : b = batch /\ cr \subseteq Named(ss) /\ ca \subseteq cr
                       /\ b = [Empty EXCEPT !.created = cr, !.cached = ca]
  BY <1>3 DEF Init
<1>6. /\ b = [run |-> << >>, refreshes |-> << >>, dropped |-> {}, failed |-> FALSE,
              refused |-> FALSE, db |-> Empty.db, created |-> cr, cached |-> ca, stale |-> {}]
      /\ IsBatch(b) /\ ~b.failed
  <2>1. b = [run |-> << >>, refreshes |-> << >>, dropped |-> {}, failed |-> FALSE,
             refused |-> FALSE, db |-> Empty.db, created |-> cr, cached |-> ca, stale |-> {}]
    BY <1>5 DEF Empty
  <2>2. b.cached \subseteq b.created BY <1>5, <2>1
  <2> QED BY <2>1, <2>2, EmptyFacts DEF IsBatch
<1>7. Clean(ss, 1, b)
  <2>1. RunOutcomes(Empty.db, cr, << >>) = {Told(ss, 0)} BY <1>4, EmptyRun
  <2>2. RunOK(cr, << >>) /\ Len(<< >>) <= RunLimit BY BatchAssumption DEF RunOK
  <2>3. Carries(b, Told(ss, 0)) BY <1>4, <1>6, <2>1, <2>2, EmptyFacts DEF Carries
  <2>4. Range(<< >>) = {} BY DEF Range
  <2>5. Drops(<< >>) = {} BY <2>4 DEF Drops
  <2>6. Tidy(b) BY <1>6, <2>5 DEF Tidy, TidyBut
  <2>7. Known(ss, 1, b) BY <1>5, <1>6 DEF Known
  <2> QED BY <1>6, <2>3, <2>6, <2>7 DEF Clean
<1>8. ExecuteInv BY <1>1, <1>3, <1>5, <1>7, CleanIsGathered DEF ExecuteInv
<1>9. ASSUME input.through \in Throughs PROVE batch = Empty
  <2>1. Named(ss) = {} BY <1>2, <1>3, <1>9 DEF Named
  <2>2. cr = {} /\ ca = {} BY <1>5, <2>1
  <2> QED BY <1>5, <1>6, <2>2 DEF Empty
<1>10. OnceInv BY <1>1, <1>3, <1>4, <1>5, <1>6, <1>9 DEF OnceInv
<1>11. InputOK BY <1>2 DEF InputOK
<1>12. at \in 1 .. Len(input.statements) + 1 /\ ended \in BOOLEAN
  <2>1. Len(input.statements) \in Nat BY <1>3, <1>4
  <2>2. at \in 1 .. Len(input.statements) + 1 BY <1>1, <2>1
  <2>3. ended \in BOOLEAN BY <1>1
  <2> QED BY <2>2, <2>3
<1> QED BY <1>5, <1>6, <1>8, <1>10, <1>11, <1>12 DEF IInv

\* A step of Execute that reads a statement: it ends the batch or gathers the statement.
LEMMA ReadOne ==
  ASSUME IInv, Going("execute"), at \in 1 .. Len(input.statements), at' = at + 1,
         ended' = batch'.failed, UNCHANGED input,
         Ended(batch') \/ Gathered(input.statements, at + 1, batch')
  PROVE  IInv'
<1>1. input.through = "execute" /\ input.through \notin Throughs BY DEF Going, Throughs
<1>2. Len(input.statements) \in Nat BY StatementFacts DEF IInv, InputOK
<1>3. at' \in 1 .. Len(input'.statements) + 1 BY <1>2
<1>4. InputOK' BY DEF IInv, InputOK
<1>5. CASE Ended(batch')
  <2>1. IsBatch(batch') /\ batch'.failed /\ batch'.run = << >> BY <1>5 DEF Ended
  <2>2. ended' /\ ended' \in BOOLEAN BY <2>1, Zenon DEF IsBatch
  <2>3. ExecuteInv' /\ OnceInv' BY <1>1, <2>1 DEF ExecuteInv, OnceInv
  <2> QED BY <1>3, <1>4, <2>1, <2>2, <2>3 DEF IInv
<1>6. CASE Gathered(input.statements, at + 1, batch')
  <2>1. IsBatch(batch') /\ ~batch'.failed BY <1>6 DEF Gathered, Carries
  <2>2. ~ended' /\ ended' \in BOOLEAN BY <2>1, Zenon DEF IsBatch
  <2>3. ExecuteInv' /\ OnceInv' BY <1>1, <1>6, <2>2 DEF ExecuteInv, OnceInv
  <2> QED BY <1>3, <1>4, <2>1, <2>2, <2>3 DEF IInv
<1> QED BY <1>5, <1>6


\* What the invariant says where Execute is about to read a statement.
LEMMA Reading ==
  ASSUME IInv, Going("execute"), Left > 0
  PROVE  /\ input.statements \in Inputs /\ at \in 1 .. Len(input.statements)
         /\ Gathered(input.statements, at, batch)
         /\ \A b \in Closed(batch) :
              \/ Ended(b) /\ b.failed
              \/ Clean(input.statements, at, b) /\ ~b.failed
<1>1. input.statements \in Inputs /\ at \in 1 .. Len(input.statements) + 1
  BY DEF IInv, InputOK
<1>2. Len(input.statements) \in Nat BY <1>1, StatementFacts
<1>3. at \in 1 .. Len(input.statements) BY <1>1, <1>2 DEF Left
<1>4. Gathered(input.statements, at, batch) BY DEF IInv, ExecuteInv, Going
<1>5. \A b \in Closed(batch) : Ended(b) \/ Clean(input.statements, at, b) BY <1>4, CloseOf
<1> QED BY <1>1, <1>3, <1>4, <1>5 DEF Ended, Clean, Carries

\* A refresh is gathered: it joins the others, or they are closed first.
LEMMA GatherStep == ASSUME IInv, Gather PROVE IInv'
<1>1. Going("execute") /\ Left > 0 /\ at' = at + 1 /\ ended' = batch'.failed /\ UNCHANGED input
  BY DEF Gather
<1>2. PICK ss, n : ss = input.statements /\ n = at OBVIOUS
<1>3. ss \in Inputs /\ n \in 1 .. Len(ss) /\ Gathered(ss, n, batch) BY <1>1, <1>2, Reading
<1>4. ss[n].kind = "refresh" /\ Statement = ss[n] BY <1>2 DEF Gather, IsRefresh, Statement
<1>5. PICK b \in IF Joins(batch.refreshes, Statement) THEN {batch} ELSE Closed(batch) :
         batch' = IF b.failed THEN b ELSE [b EXCEPT !.refreshes = Append(@, Statement)]
  BY DEF Gather
<1>6. \/ Ended(b) /\ b.failed
      \/ ~b.failed /\ ((Gathered(ss, n, b) /\ Joins(b.refreshes, ss[n])) \/ Clean(ss, n, b))
  <2>1. CASE Joins(batch.refreshes, Statement)
    <3>1. b = batch BY <1>5, <2>1
    <3>2. ~b.failed BY <3>1 DEF IInv, Gather, Going
    <3> QED BY <1>3, <1>4, <2>1, <3>1, <3>2
  <2>2. CASE ~Joins(batch.refreshes, Statement)
    <3>1. b \in Closed(batch) BY <1>5, <2>2
    <3> QED BY <1>1, <1>2, <3>1, Reading
  <2> QED BY <2>1, <2>2
<1>7. Ended(batch') \/ Gathered(ss, n + 1, batch')
  <2>1. CASE Ended(b) /\ b.failed
    <3>1. batch' = b BY <1>5, <2>1
    <3> QED BY <2>1, <3>1
  <2>2. CASE ~b.failed /\ ((Gathered(ss, n, b) /\ Joins(b.refreshes, ss[n])) \/ Clean(ss, n, b))
    <3>1. PICK c : c = batch' OBVIOUS
    <3>2. c = [b EXCEPT !.refreshes = Append(@, ss[n])] BY <1>4, <1>5, <2>2, <3>1
    <3>3. Gathered(ss, n + 1, c) BY <1>3, <1>4, <2>2, <3>2, GatherOf
    <3> QED BY <3>1, <3>3
  <2> QED BY <1>6, <2>1, <2>2
<1> QED BY <1>1, <1>2, <1>3, <1>7, ReadOne

\* A statement that goes to the run.
LEMMA Held ==
  ASSUME IInv, Going("execute"), Left > 0, at' = at + 1, ended' = batch'.failed, UNCHANGED input,
         Statement.kind \notin {"unknown", "read", "ddl", "drop"},
         \E b \in Closed(batch) : batch' \in IF b.failed THEN {b} ELSE Appended(b, <<Statement>>)
  PROVE  IInv'
<1>1. PICK ss, n : ss = input.statements /\ n = at OBVIOUS
<1>2. ss \in Inputs /\ n \in 1 .. Len(ss) /\ Statement = ss[n] BY <1>1, Reading DEF Statement
<1>3. PICK b \in Closed(batch) : batch' \in IF b.failed THEN {b} ELSE Appended(b, <<Statement>>)
  OBVIOUS
<1>4. \/ Ended(b) /\ b.failed
      \/ Clean(ss, n, b) /\ ~b.failed
  BY <1>1, <1>3, Reading
<1>5. CASE Ended(b) /\ b.failed
  <2>1. batch' = b BY <1>3, <1>5
  <2> QED BY <1>1, <1>2, <1>5, <2>1, ReadOne
<1>6. CASE Clean(ss, n, b) /\ ~b.failed
  <2>1. PICK c : c = batch' OBVIOUS
  <2>2. c \in Appended(b, <<ss[n]>>) BY <1>2, <1>3, <1>6, <2>1
  <2>3. Ended(c) \/ Gathered(ss, n + 1, c) BY <1>2, <1>6, <2>2, HeldOf
  <2> QED BY <1>1, <1>2, <2>1, <2>3, ReadOne
<1> QED BY <1>4, <1>5, <1>6

\* Rows join those before them.
LEMMA RowsStep == ASSUME IInv, AppendRows PROVE IInv'
<1>1. Statement.kind \notin {"unknown", "read", "ddl", "drop"} BY DEF AppendRows
<1> QED BY <1>1, Held DEF AppendRows

\* A write closes the refreshes, and is appended.
LEMMA WriteStep == ASSUME IInv, AppendWrite PROVE IInv'
<1>1. Statement.kind \notin {"unknown", "read", "ddl", "drop"}
  BY DEF AppendWrite, Recognised, IsWrite, IsRetyped
<1> QED BY <1>1, Held DEF AppendWrite

\* The deletion table is made at once, and known from then on.
LEMMA CreateStep == ASSUME IInv, CreateDeletionTable PROVE IInv'
<1>1. Going("execute") /\ Left > 0 /\ at' = at + 1 /\ ended' = batch'.failed /\ UNCHANGED input
  BY DEF CreateDeletionTable
<1>2. PICK ss, n : ss = input.statements /\ n = at OBVIOUS
<1>3. ss \in Inputs /\ n \in 1 .. Len(ss) /\ Statement = ss[n] /\ ss[n].kind = "ddl"
  BY <1>1, <1>2, Reading DEF Statement, CreateDeletionTable
<1>4. PICK b \in Closed(batch) :
        batch' \in IF b.failed \/ Statement.table \in b.cached THEN {b}
                   ELSE {[b EXCEPT !.created = @ \cup {Statement.table}, !.cached = @ \cup {Statement.table}]}
                        \cup IF Failures THEN {[b EXCEPT !.run = << >>, !.failed = TRUE]} ELSE {}
  BY DEF CreateDeletionTable
<1>5. \/ Ended(b) /\ b.failed
      \/ Clean(ss, n, b) /\ ~b.failed
  BY <1>1, <1>2, <1>4, Reading
<1>6. CASE Ended(b) /\ b.failed
  <2>1. batch' = b BY <1>4, <1>6
  <2> QED BY <1>1, <1>2, <1>3, <1>6, <2>1, ReadOne
<1>7. CASE Clean(ss, n, b) /\ ~b.failed
  <2>1. PICK c : c = batch' OBVIOUS
  <2>2. \/ ss[n].table \in b.cached /\ c = b
        \/ c = [b EXCEPT !.created = @ \cup {ss[n].table}, !.cached = @ \cup {ss[n].table}]
        \/ c = [b EXCEPT !.run = << >>, !.failed = TRUE]
    BY <1>3, <1>4, <1>7, <2>1
  <2>3. Ended(c) \/ Gathered(ss, n + 1, c) BY <1>3, <1>7, <2>2, CreateOf
  <2> QED BY <1>1, <1>2, <1>3, <2>1, <2>3, ReadOne
<1> QED BY <1>5, <1>6, <1>7

\* A drop is appended, and its table remembered until the run has gone.
LEMMA DropStep == ASSUME IInv, AppendDrop PROVE IInv'
<1>1. Going("execute") /\ Left > 0 /\ at' = at + 1 /\ ended' = batch'.failed /\ UNCHANGED input
  BY DEF AppendDrop
<1>2. PICK ss, n : ss = input.statements /\ n = at OBVIOUS
<1>3. ss \in Inputs /\ n \in 1 .. Len(ss) /\ Statement = ss[n] /\ ss[n].kind = "drop"
  BY <1>1, <1>2, Reading DEF Statement, AppendDrop, RecognisedDrop
<1>4. PICK b \in Closed(batch) : \E c \in IF b.failed THEN {b} ELSE Appended(b, <<Statement>>) :
        batch' = IF c.failed THEN c ELSE [c EXCEPT !.dropped = @ \cup {Statement.name}]
  BY DEF AppendDrop
<1>5. PICK c \in IF b.failed THEN {b} ELSE Appended(b, <<Statement>>) :
        batch' = IF c.failed THEN c ELSE [c EXCEPT !.dropped = @ \cup {Statement.name}]
  BY <1>4
<1>6. \/ Ended(b) /\ b.failed
      \/ Clean(ss, n, b) /\ ~b.failed
  BY <1>1, <1>2, <1>4, Reading
<1>7. CASE Ended(b) /\ b.failed
  <2>1. c = b /\ batch' = b BY <1>5, <1>7
  <2> QED BY <1>1, <1>2, <1>3, <1>7, <2>1, ReadOne
<1>8. CASE Clean(ss, n, b) /\ ~b.failed
  <2>1. c \in Appended(b, <<ss[n]>>) BY <1>3, <1>5, <1>8
  <2>2. CASE c.failed
    <3>1. batch' = c BY <1>5, <2>2
    <3>2. Ended(c) BY <1>3, <1>8, <2>1, <2>2, AppendOf DEF Carries
    <3> QED BY <1>1, <1>2, <1>3, <3>1, <3>2, ReadOne
  <2>3. CASE ~c.failed
    <3>1. PICK d : d = batch' OBVIOUS
    <3>2. d = [c EXCEPT !.dropped = @ \cup {ss[n].name}] BY <1>3, <1>5, <2>3, <3>1
    <3>3. Gathered(ss, n + 1, d) BY <1>3, <1>8, <2>1, <2>3, <3>2, DropOf
    <3> QED BY <1>1, <1>2, <1>3, <3>1, <3>3, ReadOne
  <2> QED BY <2>2, <2>3
<1> QED BY <1>6, <1>7, <1>8

\* What is not recognised goes alone, after everything before it.
LEMMA BaseStep == ASSUME IInv, ToBase PROVE IInv'
<1>1. Going("execute") /\ Left > 0 /\ at' = at + 1 /\ ended' = batch'.failed /\ UNCHANGED input
  BY DEF ToBase
<1>2. PICK ss, n : ss = input.statements /\ n = at OBVIOUS
<1>3. ss \in Inputs /\ n \in 1 .. Len(ss) /\ Statement = ss[n] /\ ss[n].kind # "ddl"
  BY <1>1, <1>2, Reading DEF Statement, ToBase
<1>4. PICK b \in Closed(batch) : \E c \in IF b.failed THEN {b} ELSE Flushed(b) :
        batch' \in IF c.failed THEN {c}
                   ELSE {[c EXCEPT !.db = Apply(c.db, Statement)]}
                        \cup IF Failures THEN {[c EXCEPT !.failed = TRUE]} ELSE {}
  BY DEF ToBase
<1>5. PICK c \in IF b.failed THEN {b} ELSE Flushed(b) :
        batch' \in IF c.failed THEN {c}
                   ELSE {[c EXCEPT !.db = Apply(c.db, Statement)]}
                        \cup IF Failures THEN {[c EXCEPT !.failed = TRUE]} ELSE {}
  BY <1>4
<1>6. \/ Ended(b) /\ b.failed
      \/ Clean(ss, n, b) /\ ~b.failed
  BY <1>1, <1>2, <1>4, Reading
<1>7. \/ Ended(c) /\ c.failed
      \/ Clean(ss, n, c) /\ c.run = << >> /\ ~c.failed
  <2>1. CASE Ended(b) /\ b.failed BY <1>5, <2>1
  <2>2. CASE Clean(ss, n, b) /\ ~b.failed
    <3>1. c \in Flushed(b) BY <1>5, <2>2
    <3> QED BY <2>2, <3>1, FlushOf DEF Ended, Clean, Carries
  <2> QED BY <1>6, <2>1, <2>2
<1>8. CASE Ended(c) /\ c.failed
  <2>1. batch' = c BY <1>5, <1>8
  <2> QED BY <1>1, <1>2, <1>3, <1>8, <2>1, ReadOne
<1>9. CASE Clean(ss, n, c) /\ c.run = << >> /\ ~c.failed
  <2>1. PICK d : d = batch' OBVIOUS
  <2>2. d = [c EXCEPT !.db = Apply(c.db, ss[n])] \/ d = [c EXCEPT !.failed = TRUE]
    BY <1>3, <1>5, <1>9, <2>1
  <2>3. Ended(d) \/ Gathered(ss, n + 1, d) BY <1>3, <1>9, <2>2, BaseOf
  <2> QED BY <1>1, <1>2, <1>3, <2>1, <2>3, ReadOne
<1> QED BY <1>7, <1>8, <1>9

\* At the end the rest goes.
LEMMA FinishStep == ASSUME IInv, Finish PROVE IInv'
<1>1. /\ Going("execute") /\ ended' = TRUE /\ UNCHANGED <<input, at>>
  BY DEF Finish
<1>2. PICK ss, n : ss = input.statements /\ n = at OBVIOUS
<1>3. Gathered(ss, n, batch) BY <1>1, <1>2 DEF IInv, ExecuteInv, Going
<1>4. PICK b \in Closed(batch) : batch' \in IF b.failed THEN {b} ELSE Flushed(b) BY DEF Finish
<1>5. Ended(b) \/ Clean(ss, n, b) BY <1>3, <1>4, CloseOf
<1>6. Ended(batch') \/ (Clean(ss, n, batch') /\ batch'.run = << >>)
  <2>1. CASE Ended(b)
    <3>1. batch' = b BY <1>4, <2>1 DEF Ended
    <3> QED BY <2>1, <3>1
  <2>2. CASE Clean(ss, n, b)
    <3>1. ~b.failed BY <2>2 DEF Clean, Carries
    <3>2. PICK c : c = batch' OBVIOUS
    <3>3. c \in Flushed(b) BY <1>4, <3>1, <3>2
    <3>4. Ended(c) \/ (Clean(ss, n, c) /\ c.run = << >>) BY <2>2, <3>3, FlushOf
    <3> QED BY <3>2, <3>4
  <2> QED BY <1>5, <2>1, <2>2
<1>7. input.through = "execute" /\ input.through \notin Throughs BY <1>1 DEF Going, Throughs
<1>8. InputOK' /\ at' \in 1 .. Len(input'.statements) + 1 BY <1>1 DEF IInv, InputOK
<1>9. ended' /\ ended' \in BOOLEAN BY <1>1
<1>10. CASE Ended(batch')
  <2>1. IsBatch(batch') /\ batch'.failed /\ batch'.run = << >> BY <1>10 DEF Ended
  <2>2. ExecuteInv' /\ OnceInv' BY <1>1, <1>7, <2>1 DEF ExecuteInv, OnceInv
  <2> QED BY <1>8, <1>9, <2>1, <2>2 DEF IInv
<1>11. CASE Clean(ss, n, batch') /\ batch'.run = << >>
  <2>1. IsBatch(batch') /\ ~batch'.failed /\ batch'.refreshes = << >>
    BY <1>11 DEF Clean, Carries
  <2>2. Gathered(ss, n, batch') BY <1>11, CleanIsGathered
  <2>3. ExecuteInv' /\ OnceInv' BY <1>1, <1>2, <1>7, <1>11, <2>1, <2>2 DEF ExecuteInv, OnceInv
  <2> QED BY <1>8, <1>9, <2>1, <2>3 DEF IInv
<1> QED BY <1>6, <1>10, <1>11


\* A call that carries a string's statements, or a part of them.
LEMMA SentOf ==
  ASSUME NEW b, NEW u, IsBatch(b), ~b.failed, IsDb(u),
         \A x : x \in RunOutcomes(b.db, b.created, b.run) <=> x = u,
         NEW c \in Sent(b) \cup Failed(b)
  PROVE  /\ IsBatch(c) /\ c.run = << >> /\ c.refreshes = b.refreshes
         /\ \/ c.failed /\ c.db = b.db
            \/ /\ ~c.failed /\ c.db = u /\ c.dropped = {}
               /\ c.stale = (b.stale \cup Drops(b.run)) \ b.dropped
<1>1. CASE c \in Sent(b)
  <2>1. PICK st : st = (b.stale \cup Drops(b.run)) \ b.dropped OBVIOUS
  <2>2. c = [b EXCEPT !.run = << >>, !.dropped = {}, !.db = u, !.stale = st]
    BY <1>1, <2>1 DEF Sent
  <2>3. c = [run |-> << >>, refreshes |-> b.refreshes, dropped |-> {}, failed |-> b.failed,
             refused |-> b.refused, db |-> u, created |-> b.created, cached |-> b.cached,
             stale |-> st]
    BY <2>2 DEF IsBatch
  <2>4. IsBatch(c) BY <2>3 DEF IsBatch
  <2> QED BY <2>1, <2>3, <2>4
<1>2. CASE c \in Failed(b)
  <2>1. RunOutcomes(b.db, b.created, b.run) # {} OBVIOUS
  <2>2. c = [b EXCEPT !.run = << >>, !.failed = TRUE, !.refused = FALSE]
    BY <1>2, <2>1 DEF Failed
  <2>3. c = [run |-> << >>, refreshes |-> b.refreshes, dropped |-> b.dropped, failed |-> TRUE,
             refused |-> FALSE, db |-> b.db, created |-> b.created, cached |-> b.cached,
             stale |-> b.stale]
    BY <2>2 DEF IsBatch
  <2>4. IsBatch(c) BY <2>3 DEF IsBatch
  <2>5. c.failed = TRUE /\ c.db = b.db /\ c.run = << >> /\ c.refreshes = b.refreshes BY <2>3
  <2> QED BY <2>4, <2>5
<1> QED BY <1>1, <1>2

\* The pieces of a string that is recognised, sent, leave what its statements leave one by one.
LEMMA OnceRun ==
  ASSUME IInv, AllRecognised, input.through \in Throughs, NEW n \in 1 .. Left, NEW created
  PROVE  /\ Left \in Nat /\ n \in Nat \ {0} /\ at \in Nat \ {0} /\ at + n <= Len(input.statements) + 1
         /\ Pieces(n) # << >> /\ IsDb(Told(input.statements, at + n - 1))
         /\ \A x : x \in RunOutcomes(Told(input.statements, at - 1), created, Pieces(n))
                     <=> x = Told(input.statements, at + n - 1)
<1>1. PICK ss, a : ss = input.statements /\ a = at OBVIOUS
<1>2. ss \in Inputs /\ a \in 1 .. Len(ss) + 1 BY <1>1 DEF IInv, InputOK
<1>3. Len(ss) \in Nat BY <1>2, StatementFacts
<1>4. Left \in Nat /\ n \in Nat \ {0} /\ a \in Nat \ {0} /\ a + n <= Len(ss) + 1
  BY <1>1, <1>2, <1>3 DEF Left
<1>5. \A i \in 1 .. n : ss[a + i - 1].kind \notin {"unknown", "read", "deletes"}
  <2> SUFFICES ASSUME NEW i \in 1 .. n
               PROVE  ss[a + i - 1].kind \notin {"unknown", "read", "deletes"}
    OBVIOUS
  <2>1. PICK k : k = a + i - 1 OBVIOUS
  <2>2. k \in 1 .. Len(ss) BY <1>3, <1>4, <2>1
  <2>3. ss[k] \in Range(ss) BY <1>2, <2>2, StatementFacts
  <2>4. ss[k].kind \in {"write", "deletes", "retyped", "drop"}
    BY <1>1, <2>3 DEF AllRecognised, Recognised, RecognisedDrop, IsWrite, IsRetyped
  <2>5. ss[k].kind \in {"write", "drop", "unknown", "read"} BY <1>1, <2>3 DEF IInv, InputOK
  <2> QED BY <2>1, <2>4, <2>5
<1>6. PICK run : run = Pieces(n) OBVIOUS
<1>7. Len(run) = n /\ \A i \in 1 .. n : run[i] = <<ss[a + i - 1]>> BY <1>1, <1>4, <1>6 DEF Pieces
<1>8. \A x : x \in RunOutcomes(Told(ss, a - 1), created, run) <=> x = Told(ss, a + n - 1)
  <2>1. Singles(ss, a, n, run) BY <1>5, <1>7 DEF Singles
  <2>2. n \in Nat /\ a + n <= Len(ss) + 1 /\ a \in Nat \ {0} BY <1>4
  <2>3. Leads(Told(ss, a - 1), created, run, Told(ss, a + n - 1))
    BY <1>2, <2>1, <2>2, SinglesFollow
  <2> QED BY <2>3 DEF Leads
<1>9. run # << >>
  <2>1. Len(run) = n BY <1>4, <1>7
  <2>2. Len(<< >>) = 0 OBVIOUS
  <2> QED BY <1>4, <2>1, <2>2
<1>10. IsDb(Told(ss, a + n - 1))
  <2>1. a + n - 1 \in 0 .. Len(ss) BY <1>3, <1>4
  <2> QED BY <1>2, <2>1, ToldFacts
<1> QED BY <1>1, <1>4, <1>6, <1>8, <1>9, <1>10

\* A text with something not recognised goes to the base as it is.
LEMMA WholeStep == ASSUME IInv, WholeToBase PROVE IInv'
<1>1. /\ input.through \in Throughs /\ ~AllRecognised /\ ~ended /\ ended' = TRUE /\ UNCHANGED input
      /\ at' = Len(input.statements) + 1
  BY DEF WholeToBase, Going
<1>2. PICK ss : ss = input.statements OBVIOUS
<1>3. ss \in Inputs BY <1>2 DEF IInv, InputOK
<1>4. Len(ss) \in Nat BY <1>3, StatementFacts
<1>5. batch = Empty BY <1>1 DEF IInv, OnceInv
<1>6. PICK e : e = Told(ss, Len(ss)) OBVIOUS
<1>7. IsDb(e) BY <1>3, <1>4, <1>6, ToldFacts
<1>8. batch' = [Empty EXCEPT !.db = e] BY <1>2, <1>5, <1>6 DEF WholeToBase, Told
<1>9. PICK c : c = batch' OBVIOUS
<1>10. c = [run |-> << >>, refreshes |-> << >>, dropped |-> {}, failed |-> FALSE, refused |-> FALSE,
            db |-> e, created |-> {}, cached |-> {}, stale |-> {}]
  BY <1>8, <1>9 DEF Empty
<1>11. IsBatch(c) /\ ~c.failed /\ c.db = e BY <1>7, <1>10 DEF IsBatch
<1>12. c.run = << >> /\ c.refreshes = << >> /\ c.stale \subseteq c.dropped /\ c.stale = {} BY <1>10
<1>13. at' - 1 = Len(ss) BY <1>1, <1>2, <1>4
<1>14. OnceInv' BY <1>1, <1>2, <1>6, <1>9, <1>11, <1>12, <1>13 DEF OnceInv
<1>15. ExecuteInv' BY <1>1 DEF ExecuteInv, Throughs
<1>16. InputOK' /\ at' \in 1 .. Len(input'.statements) + 1 BY <1>1, <1>2, <1>4 DEF IInv, InputOK
<1>17. ended' \in BOOLEAN /\ IsBatch(batch') /\ ~batch'.failed BY <1>1, <1>9, <1>11
<1> QED BY <1>14, <1>15, <1>16, <1>17 DEF IInv

\* A step of RewriteWriteStatement that sends, or fails.
LEMMA SendOne ==
  ASSUME IInv, input.through \in Throughs, AllRecognised, UNCHANGED input,
         at' \in 1 .. Len(input.statements) + 1, ended' \in BOOLEAN,
         IsBatch(batch'), batch'.run = << >>, batch'.refreshes = << >>,
         input.through = "transaction" => /\ ended' /\ batch.db = Empty.db
                                          /\ at' = Len(input.statements) + 1,
         \/ batch'.failed /\ ended' /\ batch'.db = batch.db
         \/ /\ ~batch'.failed /\ batch'.db = Told(input.statements, at' - 1)
            /\ batch'.stale \subseteq batch'.dropped /\ (ended' => batch'.stale = {})
  PROVE  IInv'
<1>1. Len(input.statements) \in Nat BY StatementFacts DEF IInv, InputOK
<1>2. InputOK' /\ AllRecognised'
  BY DEF IInv, InputOK, AllRecognised, Recognised, RecognisedDrop
<1>3. ExecuteInv' BY DEF ExecuteInv, Throughs
<1>4. input.through = "transaction" =>
        batch'.db \in {Empty.db, Told(input.statements, Len(input.statements))}
  <2>1. input.through = "transaction" => at' - 1 = Len(input.statements) BY <1>1
  <2> QED BY <2>1
<1>5. OnceInv' BY <1>2, <1>4 DEF OnceInv
<1> QED BY <1>2, <1>3, <1>5 DEF IInv

\* What comes through ExecuteInTransaction is one run, sent at once.
LEMMA AtOnceStep == ASSUME IInv, SendAtOnce PROVE IInv'
<1>1. /\ input.through = "transaction" /\ input.through \in Throughs /\ AllRecognised /\ ~ended
      /\ Left > 0 /\ ended' = TRUE /\ UNCHANGED input /\ at' = Len(input.statements) + 1
  BY DEF SendAtOnce, Going, Throughs
<1>2. at = 1 /\ batch = Empty BY <1>1 DEF IInv, OnceInv
<1>3. PICK ss, n : ss = input.statements /\ n = Left OBVIOUS
<1>4. ss \in Inputs BY <1>3 DEF IInv, InputOK
<1>5. n = Len(ss) /\ Len(ss) \in Nat /\ n \in 1 .. Left BY <1>1, <1>2, <1>3, <1>4, StatementFacts DEF Left
<1>6. PICK run, dr : run = Pieces(n) /\ dr = Drops(run) OBVIOUS
<1>7. PICK u : u = Told(ss, Len(ss)) OBVIOUS
<1>8. at + n - 1 = Len(ss) /\ at - 1 = 0 BY <1>2, <1>5
<1>9. /\ run # << >> /\ IsDb(u)
      /\ \A x : x \in RunOutcomes(Told(ss, 0), {}, run) <=> x = u
  BY <1>1, <1>3, <1>5, <1>6, <1>7, <1>8, OnceRun
<1>10. PICK b : b = [Empty EXCEPT !.run = run, !.dropped = dr] OBVIOUS
<1>11. b = [run |-> run, refreshes |-> << >>, dropped |-> dr, failed |-> FALSE, refused |-> FALSE,
            db |-> Empty.db, created |-> {}, cached |-> {}, stale |-> {}]
  BY <1>10 DEF Empty
<1>12. IsBatch(b) /\ ~b.failed BY <1>11, EmptyFacts DEF IsBatch
<1>13. batch' \in Sent(b) \cup Failed(b)
  <2>1. batch' \in Flushed(b) BY <1>2, <1>3, <1>6, <1>10 DEF SendAtOnce
  <2> QED BY <1>9, <1>11, <2>1 DEF Flushed
<1>14. \A x : x \in RunOutcomes(b.db, b.created, b.run) <=> x = u
  <2>1. b.db = Told(ss, 0) /\ b.created = {} /\ b.run = run BY <1>4, <1>11, ToldFacts
  <2> QED BY <1>9, <2>1
<1>15. PICK c : c = batch' OBVIOUS
<1>16. /\ IsBatch(c) /\ c.run = << >> /\ c.refreshes = b.refreshes
       /\ \/ c.failed /\ c.db = b.db
          \/ /\ ~c.failed /\ c.db = u /\ c.dropped = {}
             /\ c.stale = (b.stale \cup Drops(b.run)) \ b.dropped
  BY <1>9, <1>12, <1>13, <1>14, <1>15, SentOf
<1>17. (b.stale \cup Drops(b.run)) \ b.dropped = {} /\ b.refreshes = << >> /\ b.db = Empty.db
  BY <1>6, <1>11
<1>18. at' \in 1 .. Len(input.statements) + 1 /\ at' - 1 = Len(ss) BY <1>1, <1>3, <1>5
<1>19. ended' \in BOOLEAN /\ ended' /\ batch.db = Empty.db BY <1>1, <1>2
<1>20. \/ batch'.failed /\ batch'.db = batch.db
       \/ /\ ~batch'.failed /\ batch'.db = Told(input.statements, at' - 1)
          /\ batch'.stale \subseteq batch'.dropped /\ batch'.stale = {}
  BY <1>3, <1>7, <1>15, <1>16, <1>17, <1>18, <1>19
<1>21. IsBatch(batch') /\ batch'.run = << >> /\ batch'.refreshes = << >> BY <1>15, <1>16, <1>17
<1> QED BY <1>1, <1>18, <1>19, <1>20, <1>21, SendOne

\* What comes through Query goes in runs of at most the limit, one a step.
LEMMA RunStep == ASSUME IInv, SendRun PROVE IInv'
<1>1. /\ input.through = "query" /\ input.through \in Throughs /\ AllRecognised /\ ~ended
      /\ Left > 0 /\ UNCHANGED input
  BY DEF SendRun, Going, Throughs
<1>2. /\ IsBatch(batch) /\ ~batch.failed /\ batch.refreshes = << >>
      /\ batch.db = Told(input.statements, at - 1) /\ batch.stale \subseteq batch.dropped
  BY <1>1 DEF IInv, OnceInv
<1>3. PICK n : n = IF Left < RunLimit THEN Left ELSE RunLimit OBVIOUS
<1>4. PICK ss, run : ss = input.statements /\ run = Pieces(n) OBVIOUS
<1>5. PICK dr : dr = batch.dropped \cup Drops(run) OBVIOUS
<1>6. ss \in Inputs /\ at \in 1 .. Len(ss) + 1 BY <1>4 DEF IInv, InputOK
<1>7. Len(ss) \in Nat BY <1>6, StatementFacts
<1>8. n \in 1 .. Left /\ Left \in Nat /\ (n < Left \/ n = Left)
  BY <1>1, <1>3, <1>4, <1>6, <1>7, BatchAssumption DEF Left
<1>9. PICK b : b = [batch EXCEPT !.run = run, !.dropped = dr] OBVIOUS
<1>10. PICK kept : kept = [b EXCEPT !.dropped = {}] OBVIOUS
<1>11. /\ \E c \in Sent(kept) \cup Failed(kept) :
             batch' = IF c.failed THEN c
                      ELSE IF n < Left THEN [c EXCEPT !.dropped = b.dropped]
                      ELSE [c EXCEPT !.stale = @ \ b.dropped]
       /\ at' = at + n
       /\ ended' = (n = Left \/ batch'.failed)
  BY <1>3, <1>4, <1>5, <1>9, <1>10 DEF SendRun, DroppedSoFar
<1>12. PICK c \in Sent(kept) \cup Failed(kept) :
         batch' = IF c.failed THEN c
                  ELSE IF n < Left THEN [c EXCEPT !.dropped = b.dropped]
                  ELSE [c EXCEPT !.stale = @ \ b.dropped]
  BY <1>11
<1>13. b = [run |-> run, refreshes |-> batch.refreshes, dropped |-> dr, failed |-> batch.failed,
            refused |-> batch.refused, db |-> batch.db, created |-> batch.created,
            cached |-> batch.cached, stale |-> batch.stale]
  BY <1>2, <1>9 DEF IsBatch
<1>14. kept = [run |-> run, refreshes |-> batch.refreshes, dropped |-> {}, failed |-> batch.failed,
               refused |-> batch.refused, db |-> batch.db, created |-> batch.created,
               cached |-> batch.cached, stale |-> batch.stale]
  BY <1>10, <1>13
<1>15. IsBatch(kept) /\ ~kept.failed BY <1>2, <1>14 DEF IsBatch
<1>16. PICK u, cr : u = Told(ss, at + n - 1) /\ cr = batch.created OBVIOUS
<1>17. /\ IsDb(u) /\ at + n <= Len(ss) + 1
       /\ \A x : x \in RunOutcomes(Told(ss, at - 1), cr, run) <=> x = u
  BY <1>1, <1>4, <1>8, <1>16, OnceRun
<1>18. \A x : x \in RunOutcomes(kept.db, kept.created, kept.run) <=> x = u
  <2>1. kept.db = Told(ss, at - 1) /\ kept.created = cr /\ kept.run = run
    BY <1>2, <1>4, <1>14, <1>16
  <2> QED BY <1>17, <2>1
<1>19. /\ IsBatch(c) /\ c.run = << >> /\ c.refreshes = kept.refreshes
       /\ \/ c.failed /\ c.db = kept.db
          \/ /\ ~c.failed /\ c.db = u /\ c.dropped = {}
             /\ c.stale = (kept.stale \cup Drops(kept.run)) \ kept.dropped
  BY <1>12, <1>15, <1>17, <1>18, SentOf
<1>20. /\ kept.refreshes = << >> /\ kept.db = batch.db /\ b.dropped = dr
       /\ (kept.stale \cup Drops(kept.run)) \ kept.dropped \subseteq dr
  BY <1>2, <1>5, <1>13, <1>14
<1>21. at' \in 1 .. Len(input.statements) + 1 /\ at' - 1 = at + n - 1
  BY <1>4, <1>6, <1>7, <1>8, <1>11, <1>17
<1>22. PICK d : d = batch' OBVIOUS
<1>23. CASE c.failed
  <2>1. batch' = c BY <1>12, <1>23
  <2>2. ended' /\ ended' \in BOOLEAN BY <1>11, <1>23, <2>1
  <2>3. batch'.failed /\ batch'.db = batch.db /\ batch'.refreshes = << >> /\ IsBatch(batch')
        /\ batch'.run = << >>
    BY <1>19, <1>20, <1>23, <2>1
  <2> QED BY <1>1, <1>21, <2>2, <2>3, SendOne
<1>24. CASE ~c.failed
  <2>1. /\ c.db = u /\ c.refreshes = << >> /\ c.run = << >> /\ c.stale \subseteq dr /\ c.dropped = {}
        /\ IsBatch(c)
    BY <1>19, <1>20, <1>24
  <2>2. /\ IsBatch(d) /\ ~d.failed /\ d.run = << >> /\ d.refreshes = << >> /\ d.db = u
        /\ d.stale \subseteq d.dropped /\ (n = Left => d.stale = {})
    <3>1. CASE n < Left
      <4>1. d = [c EXCEPT !.dropped = dr] BY <1>12, <1>20, <1>22, <1>24, <3>1
      <4>2. d = [run |-> << >>, refreshes |-> << >>, dropped |-> dr, failed |-> c.failed,
                 refused |-> c.refused, db |-> u, created |-> c.created, cached |-> c.cached,
                 stale |-> c.stale]
        BY <2>1, <4>1 DEF IsBatch
      <4>3. IsBatch(d) /\ ~d.failed BY <1>24, <2>1, <4>2 DEF IsBatch
      <4> QED BY <1>8, <2>1, <3>1, <4>2, <4>3
    <3>2. CASE ~(n < Left)
      <4>1. PICK st : st = c.stale \ dr OBVIOUS
      <4>2. st = {} BY <2>1, <4>1
      <4>3. d = [c EXCEPT !.stale = st] BY <1>12, <1>20, <1>22, <1>24, <3>2, <4>1
      <4>4. d = [run |-> << >>, refreshes |-> << >>, dropped |-> {}, failed |-> c.failed,
                 refused |-> c.refused, db |-> u, created |-> c.created, cached |-> c.cached,
                 stale |-> st]
        BY <2>1, <4>3 DEF IsBatch
      <4>5. IsBatch(d) /\ ~d.failed BY <1>24, <2>1, <4>4 DEF IsBatch
      <4> QED BY <4>2, <4>4, <4>5
    <3> QED BY <3>1, <3>2
  <2>3. ended' = (n = Left) BY <1>11, <1>22, <2>2
  <2>4. ended' \in BOOLEAN /\ (ended' => d.stale = {}) BY <2>2, <2>3
  <2>5. d.db = Told(input.statements, at' - 1) BY <1>4, <1>16, <1>21, <2>2
  <2> QED BY <1>1, <1>21, <1>22, <2>2, <2>4, <2>5, SendOne
<1> QED BY <1>23, <1>24


\* Every step keeps the invariant.
LEMMA NextInv == ASSUME IInv, [Next]_vars PROVE IInv'
<1>1. CASE Gather BY <1>1, GatherStep
<1>2. CASE AppendRows BY <1>2, RowsStep
<1>3. CASE CreateDeletionTable BY <1>3, CreateStep
<1>4. CASE AppendWrite BY <1>4, WriteStep
<1>5. CASE AppendDrop BY <1>5, DropStep
<1>6. CASE ToBase BY <1>6, BaseStep
<1>7. CASE Finish BY <1>7, FinishStep
<1>8. CASE WholeToBase BY <1>8, WholeStep
<1>9. CASE SendRun BY <1>9, RunStep
<1>10. CASE SendAtOnce BY <1>10, AtOnceStep
<1>11. CASE UNCHANGED vars
  BY <1>11 DEF vars, IInv, InputOK, ExecuteInv, OnceInv, AllRecognised, Recognised, RecognisedDrop
<1> QED BY <1>1, <1>2, <1>3, <1>4, <1>5, <1>6, <1>7, <1>8, <1>9, <1>10, <1>11 DEF Next

\* The inductive invariant holds, for any statements, any length of a run and any calls that fail.
THEOREM Invariance == Spec => []IInv
BY InitInv, NextInv, PTL DEF Spec

-----------------------------------------------------------------------------
(* What follows *)

\* Every variable keeps its type, and a run its length (RunCommitBatch is called before it grows past it).
THEOREM Typing == Spec => []TypeOK
<1>1. ASSUME IInv PROVE TypeOK
  <2>1. /\ at \in 1 .. Len(input.statements) + 1 /\ ended \in BOOLEAN
        /\ batch.failed \in BOOLEAN /\ DOMAIN batch.db.stats = Column
    BY <1>1 DEF IInv, IsBatch, IsDb
  <2>2. Len(<< >>) <= RunLimit BY BatchAssumption
  <2>3. Len(batch.run) <= RunLimit
    <3>1. CASE batch.failed BY <1>1, <2>2, <3>1 DEF IInv
    <3>2. CASE ~batch.failed /\ input.through = "execute"
      BY <1>1, <3>2 DEF IInv, ExecuteInv, Gathered, Carries
    <3>3. CASE input.through \in Throughs BY <1>1, <2>2, <3>3 DEF IInv, OnceInv
    <3> QED BY <1>1, <3>1, <3>2, <3>3 DEF IInv, InputOK
  <2> QED BY <2>1, <2>3 DEF TypeOK
<1> QED BY <1>1, Invariance, PTL

\* What the server holds, with what is gathered sent after it, is what DuckLake's statements
\* leave one by one (Execute).
THEOREM NothingMisplaced == Spec => []InOrder
<1>1. ASSUME IInv PROVE InOrder
  <2> SUFFICES ASSUME ~batch.failed
               PROVE  RunOutcomes(batch.db, batch.created,
                        batch.run \o (IF batch.refreshes = << >> THEN << >> ELSE <<batch.refreshes>>))
                      = {Reference(Empty.db, input.statements, at - 1)}
    BY DEF InOrder
  <2>1. CASE input.through = "execute"
    <3>1. PICK e : e = Told(input.statements, at - 1) OBVIOUS
    <3>2. PICK u : Carries(batch, u) /\ Pending(batch.created, batch.refreshes, u, e)
      BY <1>1, <2>1, <3>1 DEF IInv, ExecuteInv, Gathered
    <3>3. PICK d, cr, run, p :
            d = batch.db /\ cr = batch.created /\ run = batch.run /\ p = batch.refreshes
      OBVIOUS
    <3>4. RunOK(cr, run) /\ RunOutcomes(d, cr, run) = {u} /\ run \in Seq(Seq(Statements))
      BY <3>2, <3>3 DEF Carries, RunOK
    <3>5. CASE p = << >>
      <4>1. run \o << >> = run BY <3>4
      <4>2. u = e BY <3>2, <3>3, <3>5 DEF Pending
      <4> QED BY <3>1, <3>3, <3>4, <3>5, <4>1, <4>2 DEF Told
    <3>6. CASE p # << >>
      <4>1. Coherent(p) /\ Outcomes(u, cr, p) = {e}
        BY <3>2, <3>3, <3>6 DEF Pending, Makes
      <4>2. p \in Seq(Statements) BY <4>1 DEF Coherent
      <4>3. run \o <<p>> = Append(run, p) BY <3>4, <4>2
      <4>4. RunOutcomes(d, cr, Append(run, p)) = {e} BY <3>4, <4>1, <4>2, RunAppend
      <4> QED BY <3>1, <3>3, <3>6, <4>3, <4>4 DEF Told
    <3> QED BY <3>5, <3>6
  <2>2. CASE input.through \in Throughs
    <3>1. batch.run = << >> /\ batch.refreshes = << >> /\ batch.db = Told(input.statements, at - 1)
      BY <1>1, <2>2 DEF IInv, OnceInv
    <3>2. << >> \o << >> = << >> OBVIOUS
    <3>3. PICK d, cr : d = batch.db /\ cr = batch.created OBVIOUS
    <3>4. RunOutcomes(d, cr, << >>) = {d} BY EmptyRun
    <3> QED BY <3>1, <3>2, <3>3, <3>4 DEF Told
  <2> QED BY <1>1, <2>1, <2>2 DEF IInv, InputOK
<1> QED BY <1>1, Invariance, PTL

\* At its end nothing is left to send, and the cache names no table that the batch dropped.
THEOREM CleanEnd == Spec => []EndsClean
<1>1. ASSUME IInv PROVE EndsClean
  <2> SUFFICES ASSUME ended, ~batch.failed
               PROVE  batch.run = << >> /\ batch.refreshes = << >> /\ batch.stale = {}
    BY DEF EndsClean
  <2>1. CASE input.through = "execute"
    BY <1>1, <2>1 DEF IInv, ExecuteInv, Gathered, Tidy, TidyBut
  <2>2. CASE input.through \in Throughs BY <1>1, <2>2 DEF IInv, OnceInv
  <2> QED BY <1>1, <2>1, <2>2 DEF IInv, InputOK
<1> QED BY <1>1, Invariance, PTL

\* The rewrite writes nothing that the server refuses, and leaves the cache of the deletion tables
\* as true as it was (CoalescedColumnStatsRefresh, Execute).
THEOREM NoneRefused == Spec => []NeverRefused
<1>1. IInv => NeverRefused BY DEF IInv, IsBatch, NeverRefused
<1> QED BY <1>1, Invariance, PTL

\* Nothing is sent after a call that failed (the early returns of Execute).
THEOREM NothingAfterFailure == Spec => FailureEndsIt
<1>1. IInv /\ [Next]_vars => [batch.failed => UNCHANGED batch]_vars
  <2> SUFFICES ASSUME IInv, [Next]_vars, batch.failed PROVE UNCHANGED batch OBVIOUS
  <2>1. ended BY DEF IInv
  <2>2. ~Next
    BY <2>1 DEF Next, Going, Gather, AppendRows, CreateDeletionTable, AppendWrite, AppendDrop,
                ToBase, Finish, WholeToBase, SendRun, SendAtOnce
  <2> QED BY <2>2 DEF vars
<1> QED BY <1>1, Invariance, PTL DEF Spec, FailureEndsIt

\* What came through ExecuteInTransaction happened all or not at all.
THEOREM AllOrNone == Spec => []AllOrNothing
<1>1. IInv => AllOrNothing BY DEF IInv, OnceInv, AllOrNothing, Told, Throughs
<1> QED BY <1>1, Invariance, PTL
=============================================================================
