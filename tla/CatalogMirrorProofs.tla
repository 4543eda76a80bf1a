------------------------ MODULE CatalogMirrorProofs ------------------------
(***************************************************************************)
(* Proofs about CatalogMirror, for any rows, loads, bounds and budget.     *)
(*                                                                         *)
(* The inductive invariant says what the comment in MirrorPreamble argues: *)
(* a load that saw snapshot L committed before it read the rows has every  *)
(* begin and every end written up to L, except what it left out because    *)
(* the mirror it started from (as of q.after) has it already, or because   *)
(* no live snapshot can see the row.  The mirror's own part is the same    *)
(* with asOf in place of L, and nothing left out.                          *)
(*                                                                         *)
(* The inlined data tables have an invariant of their own (InlinedInv):    *)
(* the tables a mirror or a load has are those its fingerprint is of, now, *)
(* or as it can never be again; and loads of one fingerprint read alike.   *)
(* Loads may overlap.  One merge only breaks it, and is assumed away: that *)
(* of a load that kept the mirror's tables and was overtaken (Overtaken).  *)
(***************************************************************************)
EXTENDS CatalogMirror, FiniteSetTheorems, TLAPS

\* A value read for row r: none, or the row while it was open, or its end.
Reading(v, r) == v = Unread \/ (begin[r] # None /\ v \in {None, end[r]})

\* Row r was there at snapshot s or before.
BegunBy(r, s) == begin[r] # None /\ begin[r] <= s

\* The mirror's value v of row r can be what is known at snapshot s.
OpenAt(r, s) == end[r] = None \/ end[r] > s

ServerInv ==
  /\ latest \in live /\ \A s \in live : s <= latest
  /\ \A r \in Row :
       /\ begin[r] # None => begin[r] > 0 /\ begin[r] <= latest
       /\ end[r] # None => begin[r] # None /\ begin[r] < end[r] /\ end[r] <= latest
  /\ \A r \in deleted : Unseen(r)

CaughtUpRow(r) ==
  BegunBy(r, asOf) =>
    /\ ends[r] = Unread => Unseen(r)
    /\ ends[r] = None => OpenAt(r, asOf) \/ Unseen(r)

CaughtUpChild(c) == BegunBy(Parent[c], asOf) => c \in children \/ Unseen(Parent[c])

MirrorInv ==
  /\ asOf <= latest
  /\ loaded => \A s \in live : base <= s
  /\ ~loaded => asOf = 0 /\ base = 0 /\ \A r \in Row : ends[r] = Unread
  /\ \A r \in Row : Reading(ends[r], r)
  /\ loaded /\ ~overBudget => /\ \A r \in Row : CaughtUpRow(r)
                              /\ \A c \in Child : CaughtUpChild(c)

\* Row r was read, or left out for a reason that still holds.
RowRead(q, r) ==
  BegunBy(r, q.latest) =>
    /\ q.ends[r] = Unread =>
         \/ Unseen(r)
         \/ /\ q.mode = "changes" /\ begin[r] <= q.after
            /\ end[r] = None \/ end[r] <= q.after \/ end[r] > q.latest
    /\ q.ends[r] = None => OpenAt(r, q.latest)

ChildRead(q, c) ==
  BegunBy(Parent[c], q.latest) =>
    \/ c \in q.children \/ Unseen(Parent[c])
    \/ q.mode = "changes" /\ begin[Parent[c]] <= q.after

LoadInv(q) ==
  /\ q.mode # "full" => loaded
  /\ q.after <= asOf
  /\ q.pc \in {"oldest", "fingerprint", "rows"} => q.latest <= latest
  /\ q.pc \in {"fingerprint", "rows"} => \A s \in live : q.oldest <= s
  /\ \A r \in Row : Reading(q.ends[r], r)
  /\ q.pc = "rows" /\ q.mode # "held" =>
       /\ \A r \in Row \ q.todo : RowRead(q, r)
       /\ \A c \in Child \ q.todo : ChildRead(q, c)

IInv == TypeOK /\ ServerInv /\ MirrorInv /\ \A p \in Reader : LoadInv(rd[p])

-----------------------------------------------------------------------------
(* Type correctness *)

\* The fingerprint of any set of inlined data tables is one.
LEMMA FingerprintType == ASSUME NEW S \in SUBSET Inl PROVE Fingerprint(S) \in Fingerprints
<1>1. IsFiniteSet(S) BY RowsFinite, FS_Subset
<1>2. Cardinality(S) \in Nat BY <1>1, FS_CardinalityType
<1> QED BY <1>2 DEF Fingerprint, Fingerprints

\* A reader that does nothing is a load.
LEMMA IdleType == Idle \in Load
  BY DEF Idle, Load, NoFingerprint, Fingerprints, Mode, Ends

\* What the second section under the lock makes of rows and bounds has their types.
LEMMA MergeTypes ==
  ASSUME TypeOK, NEW q \in Load
  PROVE  /\ Merged(ends, q.ends) \in [Row -> Ends]
         /\ Pruned(Merged(ends, q.ends), q.oldest) \in [Row -> Ends]
         /\ MergeInlined(q) \subseteq Inl
         /\ BaseAfter(q) \in Nat /\ CaughtUpTo(q) \in Nat
<1>1. q.ends \in [Row -> Ends] /\ ends \in [Row -> Ends] BY DEF TypeOK, Load
<1>2. Merged(ends, q.ends) \in [Row -> Ends] BY <1>1 DEF Merged
<1>3. Pruned(Merged(ends, q.ends), q.oldest) \in [Row -> Ends] BY <1>2 DEF Pruned, Ends
<1>4. MergeInlined(q) \subseteq Inl BY DEF MergeInlined, TypeOK, Load
<1>5. BaseAfter(q) \in Nat /\ CaughtUpTo(q) \in Nat
  BY DEF BaseAfter, CaughtUpTo, Larger, TypeOK, Load
<1> QED BY <1>2, <1>3, <1>4, <1>5

\* The types, at the start.
LEMMA TypeInit == Init => TypeOK
<1> SUFFICES ASSUME Init PROVE TypeOK OBVIOUS
<1>1. NoFingerprint \in Fingerprints BY DEF NoFingerprint, Fingerprints
<1>2. ends \in [Row -> Ends] BY DEF Init, Ends
<1>3. rd \in [Reader -> Load] BY IdleType DEF Init
<1>4. /\ begin \in [Row -> Nat \cup {None}] /\ end \in [Row -> Nat \cup {None}]
      /\ registry \in [Inl -> {"new", "registered", "dropped"}]
  BY DEF Init
<1>5. /\ latest \in Nat /\ live \subseteq Nat /\ deleted \subseteq Row /\ expired \in Nat
      /\ base \in Nat /\ asOf \in Nat /\ children \subseteq Child /\ inlined \subseteq Inl
      /\ holes \in Nat
  BY DEF Init
<1>6. mirrorFp \in Fingerprints BY <1>1 DEF Init
<1>7. loaded \in BOOLEAN /\ overBudget \in BOOLEAN BY Zenon DEF Init
<1> QED BY <1>2, <1>3, <1>4, <1>5, <1>6, <1>7 DEF TypeOK

\* The types, over a step of the server.
LEMMA TypeServer == TypeOK /\ Server => TypeOK'
<1> SUFFICES ASSUME TypeOK, Server PROVE TypeOK' OBVIOUS
<1> USE DEF TypeOK, mirrorVars
<1>1. CASE Commit BY <1>1 DEF Commit
<1>2. CASE Expire
  <2>1. live' \subseteq live /\ deleted' \subseteq Row /\ expired' \in Nat BY <1>2 DEF Expire
  <2> QED BY <1>2, <2>1 DEF Expire
<1>3. ASSUME NEW i \in Inl, Register(i) PROVE TypeOK' BY <1>3 DEF Register
<1>4. ASSUME NEW i \in Inl, Drop(i) PROVE TypeOK' BY <1>4 DEF Drop
<1> QED BY <1>1, <1>2, <1>3, <1>4 DEF Server

\* The types, over a step of a load.
LEMMA TypeLoad == ASSUME TypeOK, NEW p \in Reader, LoadCatalog(p) PROVE TypeOK'
<1> USE DEF TypeOK, mirrorVars, serverVars
<1>1. CASE Start(p)
  <2>1. PICK s \in live : rd' = [rd EXCEPT ![p] =
                [Idle EXCEPT !.pc = "latest", !.ask = s,
                             !.mode = IF ~loaded THEN "full"
                                      ELSE IF Held(s) THEN "held" ELSE "changes",
                             !.after = asOf, !.known = mirrorFp, !.atStart = registry]]
    BY <1>1 DEF Start
  <2>2. rd'[p] \in Load BY <2>1, IdleType DEF Load, Mode
  <2> QED BY <1>1, <2>1, <2>2 DEF Start
<1>2. CASE ReadLatest(p)
  <2>1. rd'[p] = [rd[p] EXCEPT !.pc = "oldest", !.latest = latest] BY <1>2 DEF ReadLatest
  <2>2. rd[p] \in Load /\ latest \in Nat OBVIOUS
  <2>3. rd'[p] \in Load BY <2>1, <2>2 DEF Load
  <2> QED BY <1>2, <2>3 DEF ReadLatest
<1>3. CASE ReadOldest(p)
  <2>1. PICK s \in live : rd' = [rd EXCEPT ![p] = [rd[p] EXCEPT !.pc = "fingerprint", !.oldest = s]]
    BY <1>3 DEF ReadOldest
  <2>2. rd'[p] = [rd[p] EXCEPT !.pc = "fingerprint", !.oldest = s] BY <2>1
  <2>3. rd[p] \in Load /\ s \in Nat OBVIOUS
  <2>4. rd'[p] \in Load BY <2>2, <2>3 DEF Load
  <2> QED BY <1>3, <2>1, <2>4 DEF ReadOldest
<1>4. CASE ReadFingerprint(p)
  <2>1. Fingerprint(Registered) \in Fingerprints BY FingerprintType DEF Registered
  <2>2. \A m, k, f : Branches(m, k, f) \subseteq Row \cup Child \cup Inl BY DEF Branches
  <2> DEFINE fp == Fingerprint(Registered)
             todo == Branches(rd[p].mode, rd[p].known, fp)
  <2>3. rd'[p] = [rd[p] EXCEPT !.pc = "rows", !.fp = fp, !.todo = todo]
    BY <1>4 DEF ReadFingerprint
  <2>4. rd[p] \in Load /\ fp \in Fingerprints /\ todo \in SUBSET (Row \cup Child \cup Inl)
    BY <2>1, <2>2
  <2> HIDE DEF fp, todo
  <2>5. rd'[p] \in Load BY <2>3, <2>4 DEF Load
  <2> QED BY <1>4, <2>5 DEF ReadFingerprint
<1>5. ASSUME NEW r \in Row, ReadRow(p, r) PROVE TypeOK'
  <2> DEFINE todo == rd[p].todo \ {r}
             read == [rd[p].ends EXCEPT ![r] = IF Wanted(rd[p], r) THEN end[r] ELSE Unread]
  <2>1. rd'[p] = [rd[p] EXCEPT !.todo = todo, !.ends = read] BY <1>5 DEF ReadRow
  <2>2. rd[p] \in Load OBVIOUS
  <2>3. rd[p].ends \in [Row -> Ends] /\ end[r] \in Ends /\ Unread \in Ends
    BY <2>2 DEF Load, Ends
  <2>4. read \in [Row -> Ends] BY <2>3
  <2>5. todo \in SUBSET (Row \cup Child \cup Inl) BY <2>2 DEF Load
  <2> HIDE DEF todo, read
  <2>6. rd'[p] \in Load BY <2>1, <2>2, <2>4, <2>5 DEF Load
  <2> QED BY <1>5, <2>6 DEF ReadRow
<1>6. ASSUME NEW c \in Child, ReadChild(p, c) PROVE TypeOK'
  <2> DEFINE todo == rd[p].todo \ {c}
             read == rd[p].children \cup {k \in {c} : WantedChild(rd[p], k)}
  <2>1. rd'[p] = [rd[p] EXCEPT !.todo = todo, !.children = read] BY <1>6 DEF ReadChild
  <2>2. rd[p] \in Load OBVIOUS
  <2>3. read \in SUBSET Child /\ todo \in SUBSET (Row \cup Child \cup Inl) BY <2>2 DEF Load
  <2> HIDE DEF todo, read
  <2>4. rd'[p] \in Load BY <2>1, <2>2, <2>3 DEF Load
  <2> QED BY <1>6, <2>4 DEF ReadChild
<1>7. ASSUME NEW i \in Inl, ReadInlined(p, i) PROVE TypeOK'
  <2> DEFINE todo == rd[p].todo \ {i}
             read == rd[p].inlined \cup ({i} \cap Registered)
  <2>1. rd'[p] = [rd[p] EXCEPT !.todo = todo, !.inlined = read] BY <1>7 DEF ReadInlined
  <2>2. rd[p] \in Load OBVIOUS
  <2>3. read \in SUBSET Inl /\ todo \in SUBSET (Row \cup Child \cup Inl) BY <2>2 DEF Load
  <2> HIDE DEF todo, read
  <2>4. rd'[p] \in Load BY <2>1, <2>2, <2>3 DEF Load
  <2> QED BY <1>7, <2>4 DEF ReadInlined
<1>8. CASE Merge(p)
  <2> DEFINE q == rd[p]
  <2>1. q \in Load OBVIOUS
  <2>2. IsFiniteSet(inlined) BY RowsFinite, FS_Subset
  <2>3. Cardinality(inlined) \in Nat BY <2>2, FS_CardinalityType
  <2>4. q.fp \in Fingerprints /\ q.children \subseteq Child BY <2>1 DEF Load
  <2>5. [r \in Row |-> Unread] \in [Row -> Ends] BY DEF Ends
  <2>6. /\ mirrorFp' \in Fingerprints /\ loaded' \in BOOLEAN /\ overBudget' \in BOOLEAN
        /\ base' \in Nat /\ asOf' \in Nat
    BY <1>8, <2>1, <2>4, MergeTypes DEF Merge, PastBudget
  <2>7. ends' \in [Row -> Ends] BY <1>8, <2>1, <2>5, MergeTypes DEF Merge
  <2>8. children' \subseteq Child /\ inlined' \subseteq Inl
    BY <1>8, <2>1, <2>4, MergeTypes DEF Merge
  <2>9. holes' \in Nat BY <1>8, <2>3 DEF Merge
  <2>10. rd' \in [Reader -> Load] BY <1>8, IdleType DEF Merge
  <2> QED BY <1>8, <2>6, <2>7, <2>8, <2>9, <2>10 DEF Merge
<1>9. CASE MergeNothing(p) BY <1>9, IdleType DEF MergeNothing
<1> QED BY <1>1, <1>2, <1>3, <1>4, <1>5, <1>6, <1>7, <1>8, <1>9 DEF LoadCatalog

\* Every variable keeps its type: in particular no bound of the mirror ever goes below zero,
\* whatever order the loads merge in.
THEOREM TypeCorrect == Spec => []TypeOK
<1>1. TypeOK /\ [Next]_vars => TypeOK'
  <2> SUFFICES ASSUME TypeOK, [Next]_vars PROVE TypeOK' OBVIOUS
  <2>1. CASE UNCHANGED vars
    BY <2>1 DEF vars, serverVars, mirrorVars, TypeOK
  <2>2. CASE Next BY <2>2, TypeServer, TypeLoad DEF Next
  <2> QED BY <2>1, <2>2
<1> QED BY TypeInit, <1>1, PTL DEF Spec

-----------------------------------------------------------------------------
(* The committed history only grows *)

\* What a step of the server may do to what a load has read: begins and ends are written once and
\* after the latest snapshot, and a row no snapshot sees stays so.
Grows ==
  /\ latest <= latest'
  /\ \A r \in Row : /\ begin[r] # None => begin'[r] = begin[r]
                    /\ begin[r] = None => begin'[r] = None \/ begin'[r] > latest
                    /\ end[r] # None => end'[r] = end[r]
                    /\ end[r] = None => end'[r] = None \/ end'[r] > latest
                    /\ Unseen(r) => Unseen(r)'
  /\ \A s \in live' : s \in live \/ s > latest

\* A commit only adds to the history.
LEMMA CommitGrows == TypeOK /\ ServerInv /\ Commit => Grows /\ ServerInv'
<1> SUFFICES ASSUME TypeOK, ServerInv, Commit PROVE Grows /\ ServerInv' OBVIOUS
<1>1. PICK new \in SUBSET {r \in Row : begin[r] = None},
           ended \in SUBSET {r \in Row : begin[r] # None /\ end[r] = None} :
        /\ begin' = [r \in Row |-> IF r \in new THEN latest + 1 ELSE begin[r]]
        /\ end' = [r \in Row |-> IF r \in ended THEN latest + 1 ELSE end[r]]
  BY DEF Commit
<1>2. latest' = latest + 1 /\ live' = live \cup {latest + 1} /\ deleted' = deleted
  BY DEF Commit
<1>3. latest \in Nat /\ live \subseteq Nat /\ deleted \subseteq Row /\ latest \in live
      /\ \A s \in live : s <= latest
  BY DEF TypeOK, ServerInv
<1>4. ASSUME NEW r \in Row
      PROVE  /\ begin[r] \in Nat \cup {None} /\ end[r] \in Nat \cup {None}
             /\ begin[r] # None => begin[r] > 0 /\ begin[r] <= latest
             /\ end[r] # None => begin[r] # None /\ begin[r] < end[r] /\ end[r] <= latest
  BY DEF TypeOK, ServerInv
<1>5. ASSUME NEW r \in Row
      PROVE  /\ begin[r] # None => begin'[r] = begin[r]
             /\ begin[r] = None => begin'[r] = None \/ begin'[r] = latest + 1
             /\ end[r] # None => end'[r] = end[r]
             /\ end[r] = None => end'[r] = None \/ (end'[r] = latest + 1 /\ begin[r] # None)
  BY <1>1
<1>6. ASSUME NEW r \in Row, Unseen(r) PROVE Unseen(r)'
  <2>1. end[r] # None BY <1>6 DEF Unseen
  <2>2. begin[r] # None /\ end[r] <= latest /\ end[r] \in Nat BY <1>4, <2>1
  <2>3. end'[r] = end[r] /\ begin'[r] = begin[r] BY <1>5, <2>1, <2>2
  <2>4. ASSUME NEW s \in live' PROVE ~VisibleAt(begin[r], end[r], s)
    <3>1. CASE s \in live BY <1>6, <3>1 DEF Unseen
    <3>2. CASE s = latest + 1 BY <1>3, <2>1, <2>2, <3>2 DEF VisibleAt
    <3> QED BY <1>2, <3>1, <3>2
  <2> QED BY <2>1, <2>3, <2>4 DEF Unseen
<1>7. Grows
  <2>1. latest <= latest' /\ \A s \in live' : s \in live \/ s > latest BY <1>2, <1>3
  <2>2. ASSUME NEW r \in Row
        PROVE  /\ begin[r] = None => begin'[r] = None \/ begin'[r] > latest
               /\ end[r] = None => end'[r] = None \/ end'[r] > latest
    BY <1>3, <1>5
  <2> QED BY <1>5, <1>6, <2>1, <2>2 DEF Grows
<1>8. ASSUME NEW r \in Row
      PROVE  /\ begin'[r] # None => begin'[r] > 0 /\ begin'[r] <= latest'
             /\ end'[r] # None => begin'[r] # None /\ begin'[r] < end'[r] /\ end'[r] <= latest'
  BY <1>2, <1>3, <1>4, <1>5 DEF None
<1>9. latest' \in live' /\ \A s \in live' : s <= latest' BY <1>2, <1>3
<1>10. \A r \in deleted' : Unseen(r)' BY <1>2, <1>3, <1>6 DEF ServerInv
<1> QED BY <1>7, <1>8, <1>9, <1>10 DEF ServerInv

\* An expiry only takes what no live snapshot sees.
LEMMA ExpireGrows == TypeOK /\ ServerInv /\ Expire => Grows /\ ServerInv'
<1> SUFFICES ASSUME TypeOK, ServerInv, Expire PROVE Grows /\ ServerInv' OBVIOUS
<1>1. PICK gone \in SUBSET (live \ {latest}) :
        /\ live' = live \ gone
        /\ \E rows \in SUBSET {r \in Row : end[r] # None
                                /\ \A s \in live \ gone : ~VisibleAt(begin[r], end[r], s)} :
             deleted' = deleted \cup rows
  BY DEF Expire
<1>2. latest' = latest /\ begin' = begin /\ end' = end BY DEF Expire
<1>3. \A r \in Row : Unseen(r) => Unseen(r)' BY <1>1, <1>2 DEF Unseen, VisibleAt
<1>4. \A r \in deleted' : Unseen(r)'
  BY <1>1, <1>2, <1>3 DEF Unseen, VisibleAt, ServerInv, TypeOK
<1>5. Grows BY <1>1, <1>2, <1>3 DEF Grows, TypeOK
<1>6. latest' \in live' /\ \A s \in live' : s <= latest' BY <1>1, <1>2 DEF ServerInv
<1> QED BY <1>2, <1>4, <1>5, <1>6 DEF ServerInv

\* No transaction of any node takes back what a load read.
LEMMA ServerGrows == TypeOK /\ ServerInv /\ Server => Grows /\ ServerInv'
<1> SUFFICES ASSUME TypeOK, ServerInv, Server PROVE Grows /\ ServerInv' OBVIOUS
<1>1. ASSUME NEW i \in Inl, Register(i) \/ Drop(i) PROVE Grows /\ ServerInv'
  <2>1. latest' = latest /\ live' = live /\ begin' = begin /\ end' = end /\ deleted' = deleted
    BY <1>1 DEF Register, Drop
  <2> QED BY <2>1 DEF Grows, ServerInv, Unseen, VisibleAt, TypeOK
<1> QED BY <1>1, CommitGrows, ExpireGrows DEF Server

\* A step elsewhere leaves the history as it is.
LEMMA QuietGrows == TypeOK /\ ServerInv /\ UNCHANGED serverVars => Grows /\ ServerInv'
  BY DEF TypeOK, ServerInv, Grows, Unseen, VisibleAt, serverVars

\* A mirror that no load touches stays right while the server moves on.
LEMMA MirrorStays ==
  ASSUME TypeOK, TypeOK', ServerInv, MirrorInv, Grows, UNCHANGED mirrorVars
  PROVE  MirrorInv'
<1> USE DEF None, Unread
<1>1. /\ loaded' = loaded /\ overBudget' = overBudget /\ base' = base /\ asOf' = asOf
      /\ ends' = ends /\ children' = children
  BY DEF mirrorVars
<1>2. loaded' => \A s \in live' : base' <= s
  BY <1>1 DEF MirrorInv, Grows, ServerInv, TypeOK
<1>3. ASSUME NEW r \in Row PROVE Reading(ends[r], r)'
  BY <1>1 DEF MirrorInv, Grows, Reading, TypeOK
<1>4. asOf' <= latest' BY <1>1 DEF MirrorInv, Grows, TypeOK
<1>5. ASSUME NEW r \in Row, CaughtUpRow(r) PROVE CaughtUpRow(r)'
  BY <1>1, <1>5 DEF CaughtUpRow, BegunBy, OpenAt, MirrorInv, Grows, TypeOK, Ends
<1>6. ASSUME NEW c \in Child, CaughtUpChild(c) PROVE CaughtUpChild(c)'
  <2>1. Parent[c] \in Row BY ParentType
  <2> QED BY <1>1, <1>6, <2>1 DEF CaughtUpChild, BegunBy, MirrorInv, Grows, TypeOK
<1> QED BY <1>1, <1>2, <1>3, <1>4, <1>5, <1>6 DEF MirrorInv

\* A load keeps what it knows while the server moves on and other loads merge.
LEMMA LoadStays ==
  ASSUME TypeOK, TypeOK', ServerInv, MirrorInv, Grows, NEW p \in Reader, LoadInv(rd[p]), rd'[p] = rd[p],
         loaded => loaded', asOf <= asOf'
  PROVE  LoadInv(rd[p])'
<1> DEFINE q == rd[p]
<1> USE DEF None, Unread
<1>0. q \in Load /\ rd'[p] = q BY DEF TypeOK
<1>1. q.after \in Nat /\ q.latest \in Nat /\ q.oldest \in Nat /\ q.ends \in [Row -> Ends]
  BY <1>0 DEF Load
<1> HIDE DEF q
<1>2. q.mode # "full" => loaded' BY DEF LoadInv, q
<1>3. q.after <= asOf' BY <1>1 DEF LoadInv, TypeOK, q
<1>4. q.pc \in {"oldest", "fingerprint", "rows"} => q.latest <= latest'
  <2>1. q.pc \in {"oldest", "fingerprint", "rows"} => q.latest <= latest BY DEF LoadInv, q
  <2>2. latest \in Nat /\ latest' \in Nat /\ latest <= latest' BY DEF TypeOK, Grows
  <2> QED BY <1>1, <2>1, <2>2
<1>5. ASSUME q.pc \in {"fingerprint", "rows"}, NEW s \in live' PROVE q.oldest <= s
  <2>1. \A t \in live : q.oldest <= t BY <1>5 DEF LoadInv, q
  <2>2. latest \in live /\ latest \in Nat /\ s \in Nat /\ (s \in live \/ s > latest)
    BY DEF ServerInv, TypeOK, Grows
  <2> QED BY <1>1, <2>1, <2>2
<1>6. ASSUME NEW r \in Row PROVE Reading(q.ends[r], r)'
  BY <1>0, <1>1 DEF LoadInv, Reading, Grows, q
<1>7. ASSUME NEW r \in Row, RowRead(q, r), q.latest <= latest PROVE RowRead(q, r)'
  BY <1>0, <1>1, <1>7 DEF RowRead, BegunBy, OpenAt, TypeOK, Grows, q
<1>8. ASSUME NEW c \in Child, ChildRead(q, c), q.latest <= latest PROVE ChildRead(q, c)'
  BY <1>0, <1>1, <1>8, ParentType DEF ChildRead, BegunBy, TypeOK, Grows, q
<1> QED BY <1>0, <1>2, <1>3, <1>4, <1>5, <1>6, <1>7, <1>8 DEF LoadInv, q

-----------------------------------------------------------------------------
(* The steps of a load *)

\* A reader that does nothing has read nothing wrong.
LEMMA IdleInv == TypeOK => LoadInv(Idle)
  BY DEF LoadInv, Idle, Reading, TypeOK

\* What the loads other than p know is not disturbed by a step of p.
LEMMA OthersStay ==
  ASSUME IInv, TypeOK', NEW p \in Reader, UNCHANGED serverVars,
         \A o \in Reader \ {p} : rd'[o] = rd[o], loaded => loaded', asOf <= asOf'
  PROVE  \A o \in Reader \ {p} : LoadInv(rd[o])'
  BY QuietGrows, LoadStays DEF IInv

\* A step of p that reads, and leaves the server and the mirror alone, keeps the invariant if it
\* keeps what p knows.
LEMMA ReadStep ==
  ASSUME IInv, TypeOK', NEW p \in Reader, UNCHANGED <<serverVars, mirrorVars>>,
         \A o \in Reader \ {p} : rd'[o] = rd[o], LoadInv(rd[p])'
  PROVE  IInv'
<1>1. Grows /\ ServerInv' BY QuietGrows DEF IInv
<1>2. MirrorInv' BY <1>1, MirrorStays DEF IInv
<1>3. (loaded => loaded') /\ asOf <= asOf' BY DEF mirrorVars, IInv, TypeOK
<1>4. \A o \in Reader \ {p} : LoadInv(rd[o])' BY <1>3, OthersStay
<1> QED BY <1>1, <1>2, <1>4 DEF IInv

\* A load that begins has read nothing yet.
LEMMA StartInv == ASSUME IInv, TypeOK', NEW p \in Reader, Start(p) PROVE IInv'
<1>1. PICK s \in live : rd' = [rd EXCEPT ![p] =
                [Idle EXCEPT !.pc = "latest", !.ask = s,
                             !.mode = IF ~loaded THEN "full"
                                      ELSE IF Held(s) THEN "held" ELSE "changes",
                             !.after = asOf, !.known = mirrorFp, !.atStart = registry]]
  BY DEF Start
<1>2. UNCHANGED <<serverVars, mirrorVars>> BY DEF Start
<1>3. /\ rd'[p].pc = "latest" /\ (rd'[p].mode # "full" => loaded) /\ rd'[p].after = asOf
      /\ rd'[p].ends = [r \in Row |-> Unread]
  BY <1>1 DEF IInv, TypeOK, Idle
<1>4. LoadInv(rd[p])' BY <1>2, <1>3 DEF LoadInv, Reading, mirrorVars, IInv, TypeOK
<1> QED BY <1>1, <1>2, <1>4, ReadStep DEF IInv, TypeOK

\* The latest snapshot is read before any row.
LEMMA ReadLatestInv == ASSUME IInv, TypeOK', NEW p \in Reader, ReadLatest(p) PROVE IInv'
<1>1. rd'[p] = [rd[p] EXCEPT !.pc = "oldest", !.latest = latest] /\ rd[p] \in Load
  BY DEF ReadLatest, IInv, TypeOK
<1>2. UNCHANGED <<serverVars, mirrorVars>> BY DEF ReadLatest
<1>3. /\ rd'[p].pc = "oldest" /\ rd'[p].mode = rd[p].mode /\ rd'[p].after = rd[p].after
      /\ rd'[p].latest = latest /\ rd'[p].ends = rd[p].ends
  BY <1>1 DEF Load
<1>4. LoadInv(rd[p])'
  BY <1>2, <1>3 DEF LoadInv, Reading, mirrorVars, serverVars, IInv, TypeOK
<1> QED BY <1>2, <1>4, ReadStep DEF ReadLatest, IInv, TypeOK

\* The oldest snapshot decides what a merge may forget.
LEMMA ReadOldestInv == ASSUME IInv, TypeOK', NEW p \in Reader, ReadOldest(p) PROVE IInv'
<1>1. PICK s \in live : /\ \A t \in live : s <= t
                        /\ rd' = [rd EXCEPT ![p] =
                                     [rd[p] EXCEPT !.pc = "fingerprint", !.oldest = s]]
  BY DEF ReadOldest
<1>2. UNCHANGED <<serverVars, mirrorVars>> /\ rd[p].pc = "oldest" BY DEF ReadOldest
<1>3. rd'[p] = [rd[p] EXCEPT !.pc = "fingerprint", !.oldest = s] /\ rd[p] \in Load
  BY <1>1 DEF IInv, TypeOK
<1>4. /\ rd'[p].pc = "fingerprint" /\ rd'[p].mode = rd[p].mode /\ rd'[p].after = rd[p].after
      /\ rd'[p].latest = rd[p].latest /\ rd'[p].ends = rd[p].ends /\ rd'[p].oldest = s
  BY <1>3 DEF Load
<1>5. LoadInv(rd[p])'
  BY <1>1, <1>2, <1>4 DEF LoadInv, Reading, mirrorVars, serverVars, IInv
<1> QED BY <1>1, <1>2, <1>5, ReadStep DEF IInv, TypeOK

\* When the rows are about to be read, none has been but those the statement does not ask for.
LEMMA ReadFingerprintInv == ASSUME IInv, TypeOK', NEW p \in Reader, ReadFingerprint(p) PROVE IInv'
<1> DEFINE fp == Fingerprint(Registered)
           todo == Branches(rd[p].mode, rd[p].known, fp)
<1>1. rd'[p] = [rd[p] EXCEPT !.pc = "rows", !.fp = fp, !.todo = todo] /\ rd[p] \in Load
  BY DEF ReadFingerprint, IInv, TypeOK
<1>2. UNCHANGED <<serverVars, mirrorVars>> /\ rd[p].pc = "fingerprint" BY DEF ReadFingerprint
<1>3. rd[p].mode # "held" => Row \cup Child \subseteq todo BY DEF Branches
<1> HIDE DEF fp, todo
<1>4. /\ rd'[p].pc = "rows" /\ rd'[p].mode = rd[p].mode /\ rd'[p].after = rd[p].after
      /\ rd'[p].latest = rd[p].latest /\ rd'[p].ends = rd[p].ends
      /\ rd'[p].oldest = rd[p].oldest /\ rd'[p].todo = todo
  BY <1>1 DEF Load
<1>5. LoadInv(rd[p])'
  BY <1>2, <1>3, <1>4 DEF LoadInv, Reading, mirrorVars, serverVars, IInv
<1> QED BY <1>2, <1>5, ReadStep DEF ReadFingerprint, IInv, TypeOK

\* A row that ended at or before a snapshot no live one precedes is seen by none.
LEMMA EndedBeforeOldest ==
  ASSUME NEW r \in Row, NEW oldest \in Nat, end[r] \in Nat \cup {None}, live \subseteq Nat,
         end[r] # None, end[r] <= oldest, \A s \in live : oldest <= s
  PROVE  Unseen(r)
<1>1. ASSUME NEW s \in live PROVE ~(s < end[r]) /\ s \in Nat
  <2>1. end[r] \in Nat /\ s \in Nat /\ oldest <= s OBVIOUS
  <2> QED BY <2>1
<1> QED BY <1>1 DEF Unseen, VisibleAt

\* A row just read is known up to the snapshot seen before: what it lacks was written after it.
LEMMA ReadRowInv == ASSUME IInv, TypeOK', NEW p \in Reader, NEW r \in Row, ReadRow(p, r) PROVE IInv'
<1> DEFINE q == rd[p]
           value == IF Wanted(q, r) THEN end[r] ELSE Unread
<1>1. /\ rd'[p] = [q EXCEPT !.todo = q.todo \ {r}, !.ends = [q.ends EXCEPT ![r] = value]]
      /\ q \in Load
  BY DEF ReadRow, IInv, TypeOK
<1>2. UNCHANGED <<serverVars, mirrorVars>> /\ q.pc = "rows" BY DEF ReadRow
<1>3. q.ends \in [Row -> Ends] /\ q.after \in Nat /\ q.latest \in Nat /\ q.oldest \in Nat
  BY <1>1 DEF Load
<1>4. /\ rd'[p].pc = "rows" /\ rd'[p].mode = q.mode /\ rd'[p].after = q.after
      /\ rd'[p].latest = q.latest /\ rd'[p].oldest = q.oldest /\ rd'[p].children = q.children
      /\ rd'[p].todo = q.todo \ {r} /\ rd'[p].ends = [q.ends EXCEPT ![r] = value]
  BY <1>1, <1>2 DEF Load
<1>5. /\ begin[r] \in Nat \cup {None} /\ end[r] \in Nat \cup {None}
      /\ begin[r] # None => begin[r] > 0 /\ begin[r] <= latest
      /\ end[r] # None => begin[r] # None /\ begin[r] < end[r] /\ end[r] <= latest
      /\ r \in deleted => Unseen(r)
  BY DEF IInv, TypeOK, ServerInv
<1>6. q.oldest <= latest /\ \A s \in live : q.oldest <= s
  BY <1>2 DEF IInv, LoadInv, ServerInv
<1>7. live \subseteq Nat BY DEF IInv, TypeOK
<1>8. Reading(value, r) BY DEF Reading, Wanted, Present
<1>9. ASSUME end[r] # None, end[r] <= q.oldest PROVE Unseen(r)
  BY <1>3, <1>5, <1>6, <1>7, <1>9, EndedBeforeOldest
<1>10. RowRead(rd'[p], r) \/ q.mode = "held"
  <2> SUFFICES ASSUME BegunBy(r, q.latest), q.mode # "held"
               PROVE  /\ value = Unread =>
                           \/ Unseen(r)
                           \/ /\ q.mode = "changes" /\ begin[r] <= q.after
                              /\ end[r] = None \/ end[r] <= q.after \/ end[r] > q.latest
                      /\ value = None => OpenAt(r, q.latest)
    BY <1>3, <1>4 DEF RowRead
  <2>1. q.mode \in {"full", "changes"} BY <1>1 DEF Load, Mode
  <2>2. CASE ~Present(r)
    BY <1>5, <2>2 DEF Present, BegunBy, Wanted, None, Unread
  <2>3. CASE Present(r) /\ q.mode = "full"
    BY <1>3, <1>5, <1>9, <2>3 DEF Wanted, OpenAt, None, Unread
  <2>4. CASE Present(r) /\ q.mode = "changes"
    BY <1>3, <1>5, <2>4 DEF Wanted, OpenAt, Present, None, Unread
  <2> QED BY <2>1, <2>2, <2>3, <2>4
<1>11. ASSUME NEW t \in Row \ {r} PROVE rd'[p].ends[t] = q.ends[t] BY <1>3, <1>4
<1>12. ASSUME NEW t \in Row PROVE Reading(rd'[p].ends[t], t)
  BY <1>3, <1>4, <1>8, <1>11 DEF IInv, LoadInv
<1> HIDE DEF value
<1>13. ASSUME q.mode # "held", NEW t \in Row \ rd'[p].todo PROVE RowRead(rd'[p], t)
  <2>1. CASE t = r BY <1>10, <1>13, <2>1
  <2>2. CASE t # r
    <3>1. RowRead(q, t) BY <1>2, <1>4, <1>13, <2>2 DEF IInv, LoadInv
    <3> QED BY <1>4, <1>11, <2>2, <3>1 DEF RowRead
  <2> QED BY <2>1, <2>2
<1>14. ASSUME q.mode # "held", NEW c \in Child \ rd'[p].todo PROVE ChildRead(rd'[p], c)
  <2>1. c \notin q.todo BY <1>4, RowsDisjoint
  <2>2. ChildRead(q, c) BY <1>2, <1>14, <2>1 DEF IInv, LoadInv
  <2> QED BY <1>4, <2>2 DEF ChildRead
<1>15. /\ q.mode # "full" => loaded
       /\ q.after <= asOf /\ q.latest <= latest
  BY <1>2 DEF IInv, LoadInv
<1> HIDE DEF q
<1>16. LoadInv(rd[p])'
  BY <1>2, <1>4, <1>6, <1>12, <1>13, <1>14, <1>15
     DEF LoadInv, Reading, RowRead, ChildRead, BegunBy, OpenAt, Unseen, mirrorVars, serverVars
<1> QED BY <1>2, <1>16, ReadStep DEF ReadRow, IInv, TypeOK

\* A child row is read as a row is.
LEMMA ReadChildInv ==
  ASSUME IInv, TypeOK', NEW p \in Reader, NEW c \in Child, ReadChild(p, c) PROVE IInv'
<1> DEFINE q == rd[p]
           kids == q.children \cup {k \in {c} : WantedChild(q, k)}
<1>1. rd'[p] = [q EXCEPT !.todo = q.todo \ {c}, !.children = kids] /\ q \in Load
  BY DEF ReadChild, IInv, TypeOK
<1>2. UNCHANGED <<serverVars, mirrorVars>> /\ q.pc = "rows" BY DEF ReadChild
<1>3. q.after \in Nat /\ q.latest \in Nat /\ q.oldest \in Nat BY <1>1 DEF Load
<1> DEFINE r == Parent[c]
<1>4. r \in Row BY ParentType
<1>5. /\ begin[r] \in Nat \cup {None} /\ end[r] \in Nat \cup {None}
      /\ end[r] # None => begin[r] # None /\ begin[r] < end[r] /\ end[r] <= latest
      /\ r \in deleted => Unseen(r)
  BY <1>4 DEF IInv, TypeOK, ServerInv
<1>6. live \subseteq Nat /\ \A s \in live : q.oldest <= s
  BY <1>2 DEF IInv, LoadInv, TypeOK
<1>7. ASSUME end[r] # None, end[r] <= q.oldest PROVE Unseen(r)
  BY <1>3, <1>4, <1>5, <1>6, <1>7, EndedBeforeOldest
<1>8. WantedChild(q, c) => c \in kids OBVIOUS
<1>9. q.mode \in {"full", "changes", "held"} BY <1>1 DEF Load, Mode
<1> HIDE DEF kids
<1>10. /\ rd'[p].pc = "rows" /\ rd'[p].mode = q.mode /\ rd'[p].after = q.after
       /\ rd'[p].latest = q.latest /\ rd'[p].oldest = q.oldest /\ rd'[p].ends = q.ends
       /\ rd'[p].todo = q.todo \ {c} /\ rd'[p].children = kids
  BY <1>1, <1>2 DEF Load
<1>11. ChildRead(rd'[p], c) \/ q.mode = "held"
  <2>1. CASE ~Present(r) BY <1>5, <1>10, <2>1 DEF Present, ChildRead, BegunBy
  <2>2. CASE Present(r) /\ q.mode = "full"
    BY <1>3, <1>5, <1>7, <1>8, <1>10, <2>2 DEF WantedChild, ChildRead, None
  <2>3. CASE Present(r) /\ q.mode = "changes"
    BY <1>3, <1>5, <1>8, <1>10, <2>3 DEF WantedChild, ChildRead, Present
  <2> QED BY <1>9, <2>1, <2>2, <2>3
<1>12. ASSUME q.mode # "held", NEW k \in Child \ rd'[p].todo PROVE ChildRead(rd'[p], k)
  <2>1. CASE k = c BY <1>11, <1>12, <2>1
  <2>2. CASE k # c
    <3>1. ChildRead(q, k) BY <1>2, <1>10, <1>12, <2>2 DEF IInv, LoadInv
    <3>2. q.children \subseteq kids BY DEF kids
    <3> QED BY <1>10, <3>1, <3>2 DEF ChildRead
  <2> QED BY <2>1, <2>2
<1>13. ASSUME q.mode # "held", NEW t \in Row \ rd'[p].todo PROVE RowRead(rd'[p], t)
  <2>1. t \notin q.todo BY <1>10, RowsDisjoint
  <2>2. RowRead(q, t) BY <1>2, <1>13, <2>1 DEF IInv, LoadInv
  <2> QED BY <1>10, <2>2 DEF RowRead
<1>14. /\ q.mode # "full" => loaded
       /\ q.after <= asOf /\ q.latest <= latest
       /\ \A t \in Row : Reading(q.ends[t], t)
  BY <1>2 DEF IInv, LoadInv
<1> HIDE DEF q, r
<1>15. LoadInv(rd[p])'
  BY <1>2, <1>6, <1>10, <1>12, <1>13, <1>14
     DEF LoadInv, Reading, RowRead, ChildRead, BegunBy, OpenAt, Unseen, mirrorVars, serverVars
<1> QED BY <1>2, <1>15, ReadStep DEF ReadChild, IInv, TypeOK

\* What is read of the inlined tables says nothing of rows.
LEMMA ReadInlinedInv ==
  ASSUME IInv, TypeOK', NEW p \in Reader, NEW i \in Inl, ReadInlined(p, i) PROVE IInv'
<1> DEFINE q == rd[p]
           tables == q.inlined \cup ({i} \cap Registered)
<1>1. rd'[p] = [q EXCEPT !.todo = q.todo \ {i}, !.inlined = tables] /\ q \in Load
  BY DEF ReadInlined, IInv, TypeOK
<1>2. UNCHANGED <<serverVars, mirrorVars>> /\ q.pc = "rows" BY DEF ReadInlined
<1> HIDE DEF tables
<1>3. /\ rd'[p].pc = "rows" /\ rd'[p].mode = q.mode /\ rd'[p].after = q.after
      /\ rd'[p].latest = q.latest /\ rd'[p].oldest = q.oldest /\ rd'[p].ends = q.ends
      /\ rd'[p].todo = q.todo \ {i} /\ rd'[p].children = q.children
  BY <1>1, <1>2 DEF Load
<1>4. LoadInv(q) BY DEF IInv
<1>5. ASSUME q.mode # "held" 
      PROVE  /\ \A r \in Row \ rd'[p].todo : RowRead(rd'[p], r)
             /\ \A c \in Child \ rd'[p].todo : ChildRead(rd'[p], c)
  <2>1. Row \ rd'[p].todo = Row \ q.todo /\ Child \ rd'[p].todo = Child \ q.todo
    BY <1>3, RowsDisjoint
  <2> QED BY <1>2, <1>3, <1>4, <1>5, <2>1 DEF LoadInv, RowRead, ChildRead
<1>6. LoadInv(rd[p])'
  BY <1>2, <1>3, <1>4, <1>5
     DEF LoadInv, Reading, RowRead, ChildRead, BegunBy, OpenAt, Unseen, mirrorVars, serverVars
<1> QED BY <1>2, <1>6, ReadStep DEF ReadInlined, IInv, TypeOK

\* The mirror after a merge is caught up to the snapshot the load saw, or to where it was.
LEMMA MergeInv == ASSUME IInv, TypeOK', NEW p \in Reader, Merge(p) PROVE IInv'
<1> DEFINE q == rd[p]
           merged == Merged(ends, q.ends)
           kept == IF SeesExpiry(q) THEN Pruned(merged, q.oldest) ELSE merged
<1>1. q \in Load /\ q.pc = "rows" /\ q.todo = {} /\ LoadInv(q) BY DEF Merge, IInv, TypeOK
<1>2. /\ q.ends \in [Row -> Ends] /\ q.after \in Nat /\ q.latest \in Nat /\ q.oldest \in Nat
      /\ q.mode \in {"full", "changes", "held"} /\ q.children \subseteq Child
  BY <1>1 DEF Load, Mode
<1>3. /\ UNCHANGED serverVars /\ ~overBudget /\ loaded' = TRUE
      /\ base' = BaseAfter(q) /\ asOf' = CaughtUpTo(q)
      /\ rd' = [rd EXCEPT ![p] = Idle]
  BY DEF Merge, GivenUp
<1>4. /\ overBudget' => ends' = [r \in Row |-> Unread]
      /\ ~overBudget' => ends' = kept /\ children' = children \cup q.children
  BY DEF Merge
<1>5. /\ latest \in Nat /\ live \subseteq Nat /\ asOf \in Nat /\ base \in Nat
      /\ ends \in [Row -> Ends] /\ asOf <= latest
  BY DEF IInv, TypeOK, MirrorInv
<1>6. /\ q.mode # "full" => loaded
      /\ q.after <= asOf /\ q.latest <= latest /\ \A s \in live : q.oldest <= s
  BY <1>1 DEF LoadInv
<1>7. asOf' \in Nat /\ asOf <= asOf' /\ asOf' <= latest
      /\ asOf' \in {asOf, q.latest} /\ (q.mode # "held" => q.latest <= asOf')
  BY <1>2, <1>3, <1>5, <1>6 DEF CaughtUpTo, Larger
<1>8. \A s \in live : base' <= s
  <2>1. loaded => \A s \in live : base <= s BY DEF IInv, MirrorInv
  <2>2. CASE loaded BY <1>2, <1>3, <1>5, <1>6, <2>1, <2>2 DEF BaseAfter, Larger
  <2>3. CASE ~loaded BY <1>3, <1>6, <2>3 DEF BaseAfter
  <2> QED BY <2>2, <2>3
<1> HIDE DEF q
<1>9. ASSUME NEW r \in Row
      PROVE  /\ begin[r] \in Nat \cup {None} /\ end[r] \in Nat \cup {None}
             /\ end[r] # None => begin[r] # None /\ begin[r] < end[r]
             /\ ends[r] \in Ends /\ q.ends[r] \in Ends
             /\ Reading(ends[r], r) /\ Reading(q.ends[r], r)
  BY <1>1, <1>2, <1>5 DEF IInv, TypeOK, ServerInv, MirrorInv, LoadInv
<1>10. ASSUME NEW r \in Row
       PROVE  merged[r] = IF ends[r] = Unread \/ (ends[r] = None /\ q.ends[r] # Unread)
                          THEN q.ends[r] ELSE ends[r]
  BY DEF Merged
<1>11. ASSUME NEW r \in Row
       PROVE  /\ Reading(merged[r], r)
              /\ merged[r] = Unread => ends[r] = Unread /\ q.ends[r] = Unread
              /\ merged[r] = None => \/ ends[r] = None /\ q.ends[r] \in {None, Unread}
                                     \/ ends[r] = Unread /\ q.ends[r] = None
  BY <1>9, <1>10 DEF Reading, None, Unread
<1> HIDE DEF merged
<1>12. ASSUME NEW r \in Row
       PROVE  \/ kept[r] = merged[r]
              \/ kept[r] = Unread /\ merged[r] # None /\ merged[r] # Unread /\ merged[r] <= q.oldest
  BY <1>9, <1>10 DEF Pruned, None, Unread
<1> HIDE DEF kept
<1>13. ASSUME NEW r \in Row, merged[r] # None, merged[r] # Unread, merged[r] <= q.oldest
       PROVE  Unseen(r)
  <2>1. merged[r] = end[r] /\ end[r] # None BY <1>11, <1>13 DEF Reading
  <2> QED BY <1>2, <1>5, <1>6, <1>9, <1>13, <2>1, EndedBeforeOldest
<1>14. ASSUME NEW r \in Row PROVE Reading(kept[r], r) BY <1>11, <1>12 DEF Reading
<1>15. ASSUME NEW r \in Row, q.mode # "held" PROVE RowRead(q, r)
  BY <1>1, <1>15 DEF LoadInv
<1>16. \/ asOf' = asOf
       \/ asOf' = q.latest /\ q.mode # "held" /\ asOf < q.latest
  BY <1>2, <1>3, <1>5 DEF CaughtUpTo, Larger
<1>17. ASSUME NEW r \in Row, BegunBy(r, asOf) PROVE loaded /\ begin[r] \in Nat
  <2>1. begin[r] \in Nat /\ begin[r] > 0 /\ begin[r] <= asOf
    BY <1>9, <1>17 DEF BegunBy, IInv, ServerInv
  <2>2. ~loaded => asOf = 0 BY DEF IInv, MirrorInv
  <2> QED BY <2>1, <2>2
<1>18. ASSUME NEW r \in Row PROVE CaughtUpRow(r)
  <2>1. loaded => CaughtUpRow(r) BY <1>3 DEF IInv, MirrorInv
  <2> QED BY <1>17, <2>1 DEF CaughtUpRow
<1>19. ASSUME NEW c \in Child PROVE CaughtUpChild(c) /\ Parent[c] \in Row
  <2>1. loaded => CaughtUpChild(c) BY <1>3 DEF IInv, MirrorInv
  <2>2. Parent[c] \in Row BY ParentType
  <2> QED BY <1>17, <2>1, <2>2 DEF CaughtUpChild
<1>20. ASSUME NEW r \in Row, BegunBy(r, asOf'), kept[r] = Unread PROVE Unseen(r)
  <2>1. CASE kept[r] # merged[r] BY <1>12, <1>13, <2>1
  <2>2. CASE kept[r] = merged[r]
    <3>1. ends[r] = Unread /\ q.ends[r] = Unread BY <1>11, <1>20, <2>2
    <3>2. CASE BegunBy(r, asOf) BY <1>18, <3>1, <3>2 DEF CaughtUpRow
    <3>3. CASE ~BegunBy(r, asOf)
      <4>1. q.mode # "held" /\ BegunBy(r, q.latest) BY <1>16, <1>20, <3>3 DEF BegunBy
      <4>2. ~(begin[r] <= q.after)
        BY <1>2, <1>5, <1>6, <1>9, <3>3, <4>1 DEF BegunBy
      <4> QED BY <1>15, <3>1, <4>1, <4>2 DEF RowRead
    <3> QED BY <3>2, <3>3
  <2> QED BY <2>1, <2>2
<1>21. ASSUME NEW r \in Row, kept[r] = None, ~Unseen(r), BegunBy(r, asOf') PROVE OpenAt(r, asOf')
  <2> SUFFICES ASSUME end[r] # None, end[r] <= asOf' PROVE FALSE
    BY <1>7, <1>9 DEF OpenAt
  <2>1. /\ end[r] \in Nat /\ begin[r] \in Nat /\ begin[r] < end[r] /\ begin[r] # None
    BY <1>9
  <2>2. merged[r] = None BY <1>12, <1>21 DEF None, Unread
  <2>3. ASSUME BegunBy(r, asOf) PROVE ends[r] = None /\ end[r] > asOf
    BY <1>11, <1>18, <1>21, <2>2, <2>3 DEF CaughtUpRow, OpenAt
  <2>4. CASE asOf' = asOf
    <3>1. BegunBy(r, asOf) BY <1>5, <2>1, <2>4 DEF BegunBy
    <3> QED BY <1>5, <2>1, <2>3, <2>4, <3>1
  <2>5. CASE asOf' = q.latest /\ q.mode # "held" /\ asOf < q.latest
    <3>1. RowRead(q, r) /\ BegunBy(r, q.latest) BY <1>15, <1>21, <2>5
    <3>2. q.ends[r] # None BY <1>2, <2>1, <2>5, <3>1 DEF RowRead, OpenAt
    <3>3. q.ends[r] = Unread BY <1>11, <2>2, <3>2
    <3>4. begin[r] <= q.after /\ end[r] <= q.after
      BY <1>2, <1>21, <2>1, <2>5, <3>1, <3>3 DEF RowRead
    <3>5. BegunBy(r, asOf) BY <1>2, <1>5, <1>6, <2>1, <3>4 DEF BegunBy
    <3> QED BY <1>2, <1>5, <1>6, <2>1, <2>3, <3>4, <3>5
  <2> QED BY <1>16, <2>4, <2>5
<1>22. ASSUME NEW c \in Child, BegunBy(Parent[c], asOf')
       PROVE  c \in children \cup q.children \/ Unseen(Parent[c])
  <2>1. CASE BegunBy(Parent[c], asOf) BY <1>19, <2>1 DEF CaughtUpChild
  <2>2. CASE ~BegunBy(Parent[c], asOf)
    <3>1. q.mode # "held" /\ BegunBy(Parent[c], q.latest) BY <1>16, <1>22, <2>2 DEF BegunBy
    <3>2. ~(begin[Parent[c]] <= q.after)
      BY <1>2, <1>5, <1>6, <1>9, <1>19, <2>2, <3>1 DEF BegunBy
    <3>3. ChildRead(q, c) BY <1>1, <3>1 DEF LoadInv
    <3> QED BY <3>1, <3>2, <3>3 DEF ChildRead
  <2> QED BY <2>1, <2>2
<1>23. Grows /\ ServerInv' BY <1>3, QuietGrows DEF IInv
<1>24. /\ latest' = latest /\ live' = live /\ begin' = begin /\ end' = end
  BY <1>3 DEF serverVars
<1>25. MirrorInv'
  <2>1. asOf' <= latest' /\ \A s \in live' : base' <= s BY <1>7, <1>8, <1>24
  <2>2. ASSUME NEW r \in Row PROVE Reading(ends[r], r)'
    <3>1. ends'[r] = Unread \/ ends'[r] = kept[r] BY <1>4
    <3> QED BY <1>14, <1>24, <3>1 DEF Reading
  <2>3. ASSUME ~overBudget', NEW r \in Row PROVE CaughtUpRow(r)'
    <3>1. ends'[r] = kept[r] BY <1>4, <2>3
    <3> QED BY <1>20, <1>21, <1>24, <3>1 DEF CaughtUpRow, BegunBy, OpenAt, Unseen
  <2>4. ASSUME ~overBudget', NEW c \in Child PROVE CaughtUpChild(c)'
    <3>1. children' = children \cup q.children BY <1>4, <2>4
    <3> QED BY <1>22, <1>24, <3>1 DEF CaughtUpChild, BegunBy, Unseen
  <2> QED BY <1>3, <2>1, <2>2, <2>3, <2>4 DEF MirrorInv
<1>26. \A o \in Reader \ {p} : LoadInv(rd[o])'
  <2>1. \A o \in Reader \ {p} : rd'[o] = rd[o] BY <1>3 DEF IInv, TypeOK
  <2> QED BY <1>3, <1>7, <2>1, OthersStay
<1>27. LoadInv(rd[p])'
  <2>1. rd'[p] = Idle BY <1>3 DEF IInv, TypeOK
  <2>2. /\ rd'[p].mode = "full" /\ rd'[p].after = 0 /\ rd'[p].pc = "idle"
        /\ rd'[p].ends = [r \in Row |-> Unread]
    BY <2>1 DEF Idle
  <2> QED BY <1>7, <2>2 DEF LoadInv, Reading
<1> QED BY <1>23, <1>25, <1>26, <1>27 DEF IInv

\* A load that only asked for the fingerprint leaves the mirror.
LEMMA MergeNothingInv == ASSUME IInv, TypeOK', NEW p \in Reader, MergeNothing(p) PROVE IInv'
<1>1. rd' = [rd EXCEPT ![p] = Idle] /\ UNCHANGED <<serverVars, mirrorVars>>
  BY DEF MergeNothing
<1>2. /\ rd'[p].mode = "full" /\ rd'[p].after = 0 /\ rd'[p].pc = "idle"
      /\ rd'[p].ends = [r \in Row |-> Unread]
  BY <1>1 DEF Idle, IInv, TypeOK
<1>3. LoadInv(rd[p])' BY <1>1, <1>2 DEF LoadInv, Reading, mirrorVars, IInv, TypeOK
<1> QED BY <1>1, <1>3, ReadStep DEF IInv, TypeOK

-----------------------------------------------------------------------------
(* The invariant and what follows from it *)

\* The invariant, at the start.
LEMMA InvInit == Init => IInv
<1> SUFFICES ASSUME Init PROVE IInv OBVIOUS
<1>1. TypeOK BY TypeInit
<1>2. ServerInv BY DEF Init, ServerInv, None
<1>3. MirrorInv BY DEF Init, MirrorInv, Reading
<1>4. ASSUME NEW p \in Reader PROVE LoadInv(rd[p])
  <2>1. /\ rd[p].mode = "full" /\ rd[p].after = 0 /\ rd[p].pc = "idle"
        /\ rd[p].ends = [r \in Row |-> Unread] /\ asOf = 0
    BY DEF Init, Idle
  <2> QED BY <2>1 DEF LoadInv, Reading
<1> QED BY <1>1, <1>2, <1>3, <1>4 DEF IInv

\* One step per action: the server's transactions, then each step of a load.
LEMMA InvStep == IInv /\ [Next]_vars => IInv'
<1> SUFFICES ASSUME IInv, [Next]_vars PROVE IInv' OBVIOUS
<1>1. TypeOK'
  BY TypeServer, TypeLoad DEF IInv, Next, vars, serverVars, mirrorVars, TypeOK
<1>2. CASE Server
  <2>1. Grows /\ ServerInv' BY <1>2, ServerGrows DEF IInv
  <2>2. UNCHANGED <<mirrorVars, rd>> BY <1>2 DEF Server, Commit, Expire, Register, Drop
  <2>3. MirrorInv' BY <1>1, <2>1, <2>2, MirrorStays DEF IInv
  <2>4. (loaded => loaded') /\ asOf <= asOf' BY <2>2 DEF mirrorVars, IInv, TypeOK
  <2>5. \A p \in Reader : LoadInv(rd[p])' BY <1>1, <2>1, <2>2, <2>4, LoadStays DEF IInv
  <2> QED BY <1>1, <2>1, <2>3, <2>5 DEF IInv
<1>3. ASSUME NEW p \in Reader, LoadCatalog(p) PROVE IInv'
  BY <1>1, <1>3, StartInv, ReadLatestInv, ReadOldestInv, ReadFingerprintInv, ReadRowInv,
     ReadChildInv, ReadInlinedInv, MergeInv, MergeNothingInv DEF LoadCatalog
<1>4. CASE UNCHANGED vars
  <2>1. UNCHANGED <<serverVars, mirrorVars, rd>> BY <1>4 DEF vars
  <2>2. Grows /\ ServerInv' BY <2>1, QuietGrows DEF IInv
  <2>3. MirrorInv' BY <1>1, <2>1, <2>2, MirrorStays DEF IInv
  <2>4. (loaded => loaded') /\ asOf <= asOf' BY <2>1 DEF mirrorVars, IInv, TypeOK
  <2>5. \A p \in Reader : LoadInv(rd[p])' BY <1>1, <2>1, <2>2, <2>4, LoadStays DEF IInv
  <2> QED BY <1>1, <2>2, <2>3, <2>5 DEF IInv
<1> QED BY <1>2, <1>3, <1>4 DEF Next

\* The invariant holds always.
LEMMA Invariant == Spec => []IInv
  BY InvInit, InvStep, PTL DEF Spec

\* No load loses a row, for any number of loads, commits and expiries (MirrorPreamble's argument).
THEOREM NoRowLost == Spec => []MirrorComplete
<1>1. IInv => MirrorComplete
  <2> SUFFICES ASSUME IInv, NEW s \in live, Answers(s)
               PROVE  /\ \A r \in TrueRows(s) : r \in MirrorRows(s)
                      /\ \A c \in Child : Parent[c] \in TrueRows(s) => c \in children
    BY DEF MirrorComplete
  <2>1. /\ loaded /\ ~overBudget /\ s <= asOf /\ s \in Nat /\ asOf \in Nat
    BY DEF Answers, GivenUp, IInv, TypeOK
  <2>2. ASSUME NEW r \in TrueRows(s) PROVE r \in Row /\ BegunBy(r, asOf) /\ ~Unseen(r)
    <3>1. r \in Row /\ VisibleAt(begin[r], end[r], s) BY DEF TrueRows
    <3>2. begin[r] \in Nat \cup {None} BY <3>1 DEF IInv, TypeOK
    <3> QED BY <2>1, <3>1, <3>2 DEF VisibleAt, BegunBy, Unseen
  <2>3. ASSUME NEW r \in TrueRows(s) PROVE r \in MirrorRows(s)
    <3>1. ends[r] # Unread /\ Reading(ends[r], r)
      BY <2>1, <2>2 DEF IInv, MirrorInv, CaughtUpRow
    <3>2. VisibleAt(begin[r], ends[r], s)
      BY <3>1 DEF Reading, TrueRows, VisibleAt
    <3> QED BY <2>2, <3>1, <3>2 DEF MirrorRows
  <2>4. ASSUME NEW c \in Child, Parent[c] \in TrueRows(s) PROVE c \in children
    BY <2>1, <2>2, <2>4 DEF IInv, MirrorInv, CaughtUpChild
  <2> QED BY <2>3, <2>4
<1> QED BY <1>1, Invariant, PTL

\* What a mirror shows too much is only what no live snapshot's expiry left a trace of: rows that
\* ended, and whose last snapshot is gone.
THEOREM OnlyGhostsExtra == Spec => []GhostsAreExpired
<1>1. IInv => GhostsAreExpired
  <2> SUFFICES ASSUME IInv, NEW s \in live, Answers(s), NEW r \in MirrorRows(s) \ TrueRows(s)
               PROVE  Unseen(r)
    BY DEF GhostsAreExpired
  <2>1. /\ loaded /\ ~overBudget /\ s <= asOf /\ s \in Nat /\ asOf \in Nat
    BY DEF Answers, GivenUp, IInv, TypeOK
  <2>2. /\ r \in Row /\ ends[r] # Unread /\ VisibleAt(begin[r], ends[r], s)
        /\ ~VisibleAt(begin[r], end[r], s)
    BY DEF MirrorRows, TrueRows
  <2>3. Reading(ends[r], r) /\ CaughtUpRow(r) BY <2>1, <2>2 DEF IInv, MirrorInv
  <2>4. begin[r] \in Nat \cup {None} /\ end[r] \in Nat \cup {None} BY <2>2 DEF IInv, TypeOK
  <2>5. ends[r] = None /\ BegunBy(r, asOf) /\ end[r] # None /\ end[r] <= asOf
    BY <2>1, <2>2, <2>3, <2>4 DEF Reading, VisibleAt, BegunBy
  <2> QED BY <2>1, <2>3, <2>4, <2>5 DEF CaughtUpRow, OpenAt
<1> QED BY <1>1, Invariant, PTL

\* The oldest snapshot the mirror answers for never passes a live one.
THEOREM NoLiveSnapshotLeftOut == Spec => []LiveSnapshotsHeld
<1>1. IInv => LiveSnapshotsHeld BY DEF IInv, MirrorInv, LiveSnapshotsHeld
<1> QED BY <1>1, Invariant, PTL

\* A mirror never moves back, whichever load merges last.
THEOREM MirrorNeverMovesBack == Spec => NeverMovesBack
<1> DEFINE Forward ==
             /\ loaded => loaded' /\ base' >= base /\ asOf' >= asOf
             /\ \A r \in Row : ends[r] >= 0 => ends'[r] \in {ends[r], Unread}
<1>1. ASSUME IInv, [Next]_vars PROVE [Forward]_vars
  <2>1. base \in Nat /\ asOf \in Nat /\ ends \in [Row -> Ends] BY <1>1 DEF IInv, TypeOK
  <2>2. CASE UNCHANGED mirrorVars
    <3>1. base' = base /\ asOf' = asOf /\ ends' = ends /\ loaded' = loaded
      BY <2>2 DEF mirrorVars
    <3> QED BY <2>1, <3>1
  <2>3. ASSUME NEW p \in Reader, Merge(p) PROVE Forward
    <3> DEFINE q == rd[p]
               merged == Merged(ends, q.ends)
    <3>1. q \in Load BY <1>1 DEF IInv, TypeOK
    <3>2. q.latest \in Nat /\ q.oldest \in Nat BY <3>1 DEF Load
    <3>3. loaded' = TRUE /\ base' = BaseAfter(q) /\ asOf' = CaughtUpTo(q) BY <2>3 DEF Merge
    <3>4. ~loaded => base = 0 BY <1>1 DEF IInv, MirrorInv
    <3>5. base' >= base /\ asOf' >= asOf
      BY <2>1, <3>2, <3>3, <3>4 DEF BaseAfter, CaughtUpTo, Larger
    <3>6. ASSUME NEW r \in Row, ends[r] >= 0 PROVE ends'[r] \in {ends[r], Unread}
      <4>1. merged[r] = ends[r] BY <2>1, <3>6 DEF Merged, None, Unread, Ends
      <4>2. ends'[r] \in {Unread, merged[r], Pruned(merged, q.oldest)[r]} BY <2>3 DEF Merge
      <4> QED BY <4>1, <4>2 DEF Pruned
    <3> QED BY <3>3, <3>5, <3>6
  <2>4. CASE Next
    <3>1. UNCHANGED mirrorVars \/ \E p \in Reader : Merge(p)
      BY <2>4 DEF Next, Server, Commit, Expire, Register, Drop, LoadCatalog, Start, ReadLatest,
             ReadOldest, ReadFingerprint, ReadRow, ReadChild, ReadInlined, MergeNothing
    <3> QED BY <2>2, <2>3, <3>1
  <2> QED BY <1>1, <2>4
<1> QED BY <1>1, Invariant, PTL DEF Spec, NeverMovesBack

-----------------------------------------------------------------------------
(* The inlined data tables.  They change without a snapshot, and the merge compares fingerprints   *)
(* with the mirror as it is then.  What follows is for loads that overlap in any way but one (the  *)
(* README shows what that one leads to).                                                           *)

ReadsInlined(q) == q.mode = "full" \/ q.fp # q.known

\* The load kept the mirror's tables on the fingerprint's word, and another load has merged another
\* fingerprint since: the merge takes the tables for changed, and it has read none.
Overtaken(q) == ~ReadsInlined(q) /\ q.fp # mirrorFp

\* No load merges that was overtaken.
NoneOvertaken == [][\A p \in Reader : Merge(p) => ~Overtaken(rd[p])]_vars

\* S was what is registered, and never will be again: one of them is dropped, or a newer one exists.
Gone(S) ==
  \/ \E i \in S : registry[i] = "dropped"
  \/ \E i \in Inl : registry[i] # "new" /\ \A j \in S : j < i

\* The newest table there is stays.
RegistryInv ==
  \A i \in Inl : registry[i] = "dropped" => \E j \in Inl : j > i /\ registry[j] = "registered"

\* S, whose fingerprint a mirror or a load has, is what is registered, and Known holds, or is past.
NowOrGone(S, Known) == (S = Registered /\ Known) \/ Gone(S)

MirrorInlined ==
  loaded /\ ~overBudget =>
    \E S \in SUBSET Inl : mirrorFp = Fingerprint(S) /\ NowOrGone(S, inlined = Registered)

\* The registry since load q began: a table is registered once and dropped once.
Since(q) ==
  \A i \in Inl : /\ q.atStart[i] # "new" => registry[i] # "new"
                 /\ q.atStart[i] = "dropped" => registry[i] = "dropped"

\* As far as the tables in known go, these are the tables of the time of load q.
OfItsTime(q, tables, known) ==
  \A i \in known : /\ q.atStart[i] = "registered" /\ registry[i] = "registered" => i \in tables
                   /\ q.atStart[i] = "dropped" => i \notin tables

InlinedRead(q) ==
  /\ q.inlined \cap q.todo = {}
  /\ \E S \in SUBSET Inl :
       /\ q.fp = Fingerprint(S)
       /\ NowOrGone(S, q.inlined = Registered \ q.todo)

InlinedKept(q) == q.inlined = {} /\ q.todo \cap Inl = {}

LoadInlined(q) ==
  q.pc # "idle" =>
    /\ Since(q) /\ (q.mode # "full" => loaded)
    /\ q.pc # "rows" => q.inlined = {}
    /\ q.pc = "rows" => IF ReadsInlined(q) THEN InlinedRead(q) ELSE InlinedKept(q)

\* A load that read the mirror's fingerprint may answer with the mirror's tables.
MirrorFits(q) ==
  q.pc = "rows" /\ loaded /\ ~overBudget /\ q.fp = mirrorFp => OfItsTime(q, inlined, Inl)

\* A load may answer with the tables that any load of its fingerprint reads, its own among them.
ReadsFit(q, o) ==
  q.pc = "rows" /\ o.pc = "rows" /\ q.fp = o.fp /\ ReadsInlined(o) =>
    OfItsTime(q, o.inlined, Inl \ o.todo)

InlinedInv ==
  /\ RegistryInv /\ MirrorInlined
  /\ \A p \in Reader : LoadInlined(rd[p]) /\ MirrorFits(rd[p])
  /\ \A p, o \in Reader : ReadsFit(rd[p], rd[o])

\* Tables that are past are not the registered ones: the newest table is never dropped.
LEMMA GoneIsGone ==
  ASSUME TypeOK, RegistryInv, NEW S \in SUBSET Inl, Gone(S) PROVE S # Registered
<1>1. CASE \E i \in S : registry[i] = "dropped" BY <1>1 DEF Registered
<1>2. CASE \E i \in Inl : registry[i] # "new" /\ \A j \in S : j < i
  <2>1. PICK i \in Inl : registry[i] # "new" /\ \A j \in S : j < i BY <1>2
  <2>2. PICK k \in Inl : k >= i /\ registry[k] = "registered"
    <3>1. i \in Nat /\ registry[i] \in {"new", "registered", "dropped"} BY InlVersions DEF TypeOK
    <3>2. CASE registry[i] = "registered" BY <3>1, <3>2
    <3>3. CASE registry[i] = "dropped"
      <4>1. PICK j \in Inl : j > i /\ registry[j] = "registered" BY <3>3 DEF RegistryInv
      <4> QED BY <3>1, <4>1, InlVersions
    <3> QED BY <2>1, <3>1, <3>2, <3>3
  <2>3. k \notin S BY <2>1, <2>2, InlVersions
  <2> QED BY <2>2, <2>3 DEF Registered
<1> QED BY <1>1, <1>2 DEF Gone

\* What the server's transactions do to the registry.
RegistryMoves ==
  /\ RegistryInv'
  /\ \A i \in Inl : /\ registry[i] # "new" => registry'[i] # "new"
                    /\ registry[i] = "dropped" => registry'[i] = "dropped"
  /\ \A S \in SUBSET Inl : /\ Gone(S) => Gone(S)'
                           /\ S = Registered => S = Registered' \/ Gone(S)'

\* A table that is registered or dropped makes what was registered until then a thing of the past.
LEMMA ServerMoves == ASSUME TypeOK, RegistryInv, Server PROVE RegistryMoves
<1>1. registry \in [Inl -> {"new", "registered", "dropped"}] BY DEF TypeOK
<1>2. CASE UNCHANGED registry
  BY <1>2 DEF RegistryMoves, RegistryInv, Gone, Registered
<1>3. ASSUME NEW i \in Inl, Register(i) PROVE RegistryMoves
  <2>1. /\ registry' = [registry EXCEPT ![i] = "registered"]
        /\ \A j \in Inl : j >= i => registry[j] = "new"
    BY <1>3 DEF Register
  <2>2. /\ registry[i] = "new" /\ registry'[i] = "registered"
        /\ \A j \in Inl : j # i => registry'[j] = registry[j]
    BY <1>1, <2>1, InlVersions
  <2>3. RegistryInv' BY <2>2 DEF RegistryInv
  <2>4. \A S \in SUBSET Inl : Gone(S) => Gone(S)' BY <2>2 DEF Gone
  <2>5. ASSUME NEW S \in SUBSET Inl, S = Registered PROVE Gone(S)'
    <3>1. \A j \in S : j < i BY <2>1, <2>5, InlVersions DEF Registered
    <3> QED BY <2>2, <3>1 DEF Gone
  <2> QED BY <2>2, <2>3, <2>4, <2>5 DEF RegistryMoves
<1>4. ASSUME NEW i \in Inl, Drop(i) PROVE RegistryMoves
  <2>1. PICK k \in Inl : k > i /\ registry[k] = "registered" BY <1>4 DEF Drop
  <2>2. /\ registry[i] = "registered" /\ registry'[i] = "dropped"
        /\ \A j \in Inl : j # i => registry'[j] = registry[j]
    BY <1>1, <1>4 DEF Drop
  <2>3. RegistryInv'
    <3> SUFFICES ASSUME NEW j \in Inl, registry'[j] = "dropped"
                 PROVE  \E l \in Inl : l > j /\ registry'[l] = "registered"
      BY DEF RegistryInv
    <3>1. CASE j = i BY <2>1, <2>2, <3>1, InlVersions
    <3>2. CASE j # i
      <4>1. PICK l \in Inl : l > j /\ registry[l] = "registered"
        BY <2>2, <3>2 DEF RegistryInv
      <4>2. CASE l = i BY <2>1, <2>2, <4>1, <4>2, InlVersions
      <4>3. CASE l # i BY <2>2, <4>1, <4>3
      <4> QED BY <4>2, <4>3
    <3> QED BY <3>1, <3>2
  <2>4. \A S \in SUBSET Inl : Gone(S) => Gone(S)' BY <2>2 DEF Gone
  <2>5. ASSUME NEW S \in SUBSET Inl, S = Registered PROVE Gone(S)'
    BY <2>2, <2>5 DEF Registered, Gone
  <2> QED BY <2>2, <2>3, <2>4, <2>5 DEF RegistryMoves
<1> QED BY <1>2, <1>3, <1>4 DEF Server, Commit, Expire

\* A registry that stays as it is has not moved back.
LEMMA QuietMoves == ASSUME RegistryInv, UNCHANGED registry PROVE RegistryMoves
  BY DEF RegistryMoves, RegistryInv, Gone, Registered

\* What holds of a mirror nobody merges into goes on holding.
LEMMA MirrorInlinedStays ==
  ASSUME RegistryMoves, UNCHANGED mirrorVars, MirrorInlined PROVE MirrorInlined'
<1>1. /\ loaded' = loaded /\ overBudget' = overBudget /\ mirrorFp' = mirrorFp
      /\ inlined' = inlined
  BY DEF mirrorVars
<1> SUFFICES ASSUME loaded, ~overBudget
             PROVE  \E S \in SUBSET Inl :
                       mirrorFp = Fingerprint(S) /\ NowOrGone(S, inlined = Registered)'
  BY <1>1 DEF MirrorInlined, NowOrGone, Fingerprint, Gone, Registered
<1>2. PICK S \in SUBSET Inl : mirrorFp = Fingerprint(S) /\ NowOrGone(S, inlined = Registered)
  BY DEF MirrorInlined
<1>3. (S = Registered' /\ inlined' = Registered') \/ Gone(S)'
  BY <1>1, <1>2 DEF RegistryMoves, NowOrGone
<1> QED BY <1>2, <1>3 DEF NowOrGone, Gone, Registered

\* The tables of the time of a load stay that, whatever is registered and dropped meanwhile.
LEMMA OfItsTimeStays ==
  ASSUME TypeOK, RegistryMoves, NEW q, Since(q), NEW T, NEW K \in SUBSET Inl, OfItsTime(q, T, K)
  PROVE  OfItsTime(q, T, K)'
<1>1. ASSUME NEW i \in K, q.atStart[i] = "registered", registry'[i] = "registered" PROVE i \in T
  <2>1. registry[i] # "new" /\ registry[i] # "dropped" BY <1>1 DEF RegistryMoves, Since
  <2>2. registry[i] = "registered" BY <2>1 DEF TypeOK
  <2> QED BY <1>1, <2>2 DEF OfItsTime
<1>2. ASSUME NEW i \in K, q.atStart[i] = "dropped" PROVE i \notin T BY <1>2 DEF OfItsTime
<1> QED BY <1>1, <1>2 DEF OfItsTime

\* And so does what a load read, as long as it takes no step.
LEMMA LoadInlinedStays ==
  ASSUME RegistryMoves, loaded => loaded', NEW q, LoadInlined(q)
  PROVE  LoadInlined(q)'
<1>1. ASSUME Since(q) PROVE Since(q)' BY <1>1 DEF RegistryMoves, Since
<1>2. ASSUME InlinedRead(q) PROVE InlinedRead(q)'
  <2>1. PICK S \in SUBSET Inl : /\ q.fp = Fingerprint(S)
                                /\ NowOrGone(S, q.inlined = Registered \ q.todo)
    BY <1>2 DEF InlinedRead
  <2>2. (S = Registered' /\ q.inlined = Registered' \ q.todo) \/ Gone(S)'
    BY <2>1 DEF RegistryMoves, NowOrGone
  <2>3. NowOrGone(S, q.inlined = Registered \ q.todo)'
    BY <2>2 DEF NowOrGone
  <2>4. (Fingerprint(S))' = Fingerprint(S) BY DEF Fingerprint
  <2> QED BY <1>2, <2>1, <2>3, <2>4 DEF InlinedRead
<1>3. ASSUME InlinedKept(q) PROVE InlinedKept(q)' BY <1>3 DEF InlinedKept
<1>4. ReadsInlined(q)' = ReadsInlined(q) BY DEF ReadsInlined
<1> QED BY <1>1, <1>2, <1>3, <1>4 DEF LoadInlined

\* The mirror fits a load as before while neither takes a step.
LEMMA MirrorFitsStays ==
  ASSUME TypeOK, RegistryMoves, UNCHANGED mirrorVars, NEW q, LoadInlined(q), MirrorFits(q)
  PROVE  MirrorFits(q)'
<1>1. /\ loaded' = loaded /\ overBudget' = overBudget /\ mirrorFp' = mirrorFp
      /\ inlined' = inlined
  BY DEF mirrorVars
<1> SUFFICES ASSUME q.pc = "rows", loaded, ~overBudget, q.fp = mirrorFp
             PROVE  OfItsTime(q, inlined, Inl)'
  BY <1>1 DEF MirrorFits
<1>2. PICK T : T = inlined OBVIOUS
<1>3. Since(q) /\ OfItsTime(q, T, Inl) BY <1>2 DEF LoadInlined, MirrorFits
<1>4. OfItsTime(q, T, Inl)' BY <1>3, OfItsTimeStays
<1> QED BY <1>1, <1>2, <1>4 DEF OfItsTime

\* And so do the reads of two loads.
LEMMA ReadsFitStays ==
  ASSUME TypeOK, RegistryMoves, NEW q, NEW o, LoadInlined(q), ReadsFit(q, o)
  PROVE  ReadsFit(q, o)'
<1> SUFFICES ASSUME q.pc = "rows", o.pc = "rows", q.fp = o.fp, ReadsInlined(o)
             PROVE  OfItsTime(q, o.inlined, Inl \ o.todo)'
  BY DEF ReadsFit, ReadsInlined
<1>1. Since(q) /\ OfItsTime(q, o.inlined, Inl \ o.todo) BY DEF LoadInlined, ReadsFit
<1> QED BY <1>1, OfItsTimeStays

\* A load that begins has read no inlined table yet.
LEMMA StartInlined ==
  ASSUME TypeOK, InlinedInv, NEW p \in Reader, Start(p) PROVE LoadInlined(rd[p])'
<1>1. PICK s \in live : rd' = [rd EXCEPT ![p] =
                [Idle EXCEPT !.pc = "latest", !.ask = s,
                             !.mode = IF ~loaded THEN "full"
                                      ELSE IF Held(s) THEN "held" ELSE "changes",
                             !.after = asOf, !.known = mirrorFp, !.atStart = registry]]
  BY DEF Start
<1>2. /\ rd'[p].pc = "latest" /\ rd'[p].known = mirrorFp /\ rd'[p].atStart = registry
      /\ rd'[p].mode = (IF ~loaded THEN "full" ELSE IF Held(s) THEN "held" ELSE "changes")
      /\ rd'[p].inlined = {}
  BY <1>1 DEF Idle, TypeOK
<1>3. /\ UNCHANGED <<registry, loaded, overBudget, mirrorFp>> /\ ~overBudget
  BY DEF Start, GivenUp, serverVars, mirrorVars
<1>4. Since(rd[p])' BY <1>2, <1>3 DEF Since
<1>5. rd'[p].mode # "full" => loaded BY <1>2
<1> QED BY <1>2, <1>3, <1>4, <1>5 DEF LoadInlined

\* A load that has not yet the fingerprint carries what it knew when it began.
LEMMA EarlyInlined ==
  ASSUME TypeOK, InlinedInv, NEW p \in Reader, ReadLatest(p) \/ ReadOldest(p)
  PROVE  LoadInlined(rd[p])'
<1> DEFINE q == rd[p]
           r == rd'[p]
<1>1. /\ q.pc \in {"latest", "oldest"} /\ r.pc \in {"oldest", "fingerprint"}
      /\ r.known = q.known /\ r.mode = q.mode /\ r.atStart = q.atStart
      /\ r.inlined = q.inlined
  <2>1. q \in Load BY DEF TypeOK
  <2>2. CASE ReadLatest(p)
    <3>1. r = [q EXCEPT !.pc = "oldest", !.latest = latest] /\ q.pc = "latest"
      BY <2>2 DEF ReadLatest, TypeOK
    <3> QED BY <2>1, <3>1 DEF Load
  <2>3. CASE ReadOldest(p)
    <3>1. PICK s \in live : r = [q EXCEPT !.pc = "fingerprint", !.oldest = s]
      BY <2>3 DEF ReadOldest, TypeOK
    <3>2. q.pc = "oldest" BY <2>3 DEF ReadOldest
    <3> QED BY <2>1, <3>1, <3>2 DEF Load
  <2> QED BY <2>2, <2>3
<1>2. UNCHANGED <<registry, loaded, overBudget, mirrorFp>>
  BY DEF ReadLatest, ReadOldest, serverVars, mirrorVars
<1>3. LoadInlined(q) BY DEF InlinedInv
<1> HIDE DEF q, r
<1>4. /\ (r.mode # "full" => loaded')
      /\ r.inlined = {} /\ \A i \in Inl : /\ r.atStart[i] # "new" => registry'[i] # "new"
                                          /\ r.atStart[i] = "dropped" => registry'[i] = "dropped"
  BY <1>1, <1>2, <1>3 DEF LoadInlined, Since
<1> QED BY <1>1, <1>4 DEF LoadInlined, Since, q, r

\* What holds of the record that a load has after a step, holds of the load.
LEMMA Carry ==
  ASSUME NEW p \in Reader, NEW r, r = rd'[p]
  PROVE  /\ LoadInlined(r)' => LoadInlined(rd[p])'
         /\ MirrorFits(r)' => MirrorFits(rd[p])'
  BY DEF LoadInlined, ReadsInlined, InlinedRead, InlinedKept, OfItsTime, Since, NowOrGone, Gone,
         Registered, Fingerprint, MirrorFits

LEMMA CarryTwo ==
  ASSUME NEW p \in Reader, NEW o \in Reader, NEW q, q = rd'[p], NEW r, r = rd'[o], ReadsFit(q, r)'
  PROVE  ReadsFit(rd[p], rd[o])'
  BY DEF ReadsFit, ReadsInlined, OfItsTime

\* A step of load p that leaves the mirror and the server: what is to be shown of p.
StepOf(p) ==
  /\ LoadInlined(rd[p]) /\ MirrorFits(rd[p])
  /\ \A o \in Reader : ReadsFit(rd[p], rd[o]) /\ ReadsFit(rd[o], rd[p])

\* A load that reads no rows yet has nothing to answer with.
LEMMA NotRowsYet ==
  ASSUME NEW p \in Reader, rd'[p].pc # "rows", LoadInlined(rd[p])' PROVE StepOf(p)'
  BY DEF StepOf, MirrorFits, ReadsFit

\* The mirror's fingerprint is the server's: then its tables are.
LEMMA FingerprintTells ==
  ASSUME TypeOK, RegistryInv, MirrorInlined, loaded, ~overBudget,
         mirrorFp = Fingerprint(Registered)
  PROVE  inlined = Registered
<1>1. PICK S \in SUBSET Inl : mirrorFp = Fingerprint(S) /\ NowOrGone(S, inlined = Registered)
  BY DEF MirrorInlined
<1>2. S = Registered BY <1>1 DEF Fingerprint
<1>3. ~Gone(S) BY <1>2, GoneIsGone
<1> QED BY <1>1, <1>3 DEF NowOrGone

\* The fingerprint tells two sets of tables apart.
LEMMA OneFingerprint ==
  ASSUME NEW S, NEW T, Fingerprint(S) = Fingerprint(T) PROVE S = T
BY DEF Fingerprint

\* A load that got the fingerprint has it of what is registered, and so have the mirror and other
\* loads if theirs is the same: their tables are registered ones.
LEMMA FingerprintInlined ==
  ASSUME TypeOK, InlinedInv, NEW p \in Reader, ReadFingerprint(p) PROVE StepOf(p)'
<1>0. PICK r : r = rd'[p] OBVIOUS
<1> DEFINE q == rd[p]
           fp == Fingerprint(Registered)
<1>1. /\ q.pc = "fingerprint" /\ r.pc = "rows"
      /\ r.known = q.known /\ r.mode = q.mode /\ r.atStart = q.atStart
      /\ r.inlined = q.inlined /\ r.fp = fp /\ r.todo = Branches(q.mode, q.known, fp)
  <2>1. q \in Load BY DEF TypeOK
  <2>2. /\ r = [q EXCEPT !.pc = "rows", !.fp = fp, !.todo = Branches(q.mode, q.known, fp)]
        /\ q.pc = "fingerprint"
    BY <1>0 DEF ReadFingerprint, TypeOK
  <2> HIDE DEF fp
  <2> QED BY <2>1, <2>2 DEF Load
<1>2. /\ UNCHANGED <<registry, loaded, overBudget, mirrorFp, inlined>>
      /\ \A o \in Reader \ {p} : rd'[o] = rd[o]
  BY DEF ReadFingerprint, serverVars, mirrorVars, TypeOK
<1>3. LoadInlined(q) /\ RegistryInv /\ MirrorInlined BY DEF InlinedInv
<1>4. Since(q) /\ (q.mode # "full" => loaded) /\ q.inlined = {}
  BY <1>1, <1>3 DEF LoadInlined
<1>5. Registered \in SUBSET Inl /\ Registered' = Registered BY <1>2 DEF Registered
<1> HIDE DEF q
<1>6. Since(r) /\ Since(r)' /\ (r.mode # "full" => loaded')
  BY <1>1, <1>2, <1>4 DEF Since
<1>7. ASSUME ReadsInlined(r) PROVE Inl \subseteq r.todo /\ InlinedRead(r)'
  <2>1. Inl \subseteq r.todo BY <1>1, <1>7 DEF Branches, ReadsInlined
  <2>2. r.inlined = {} BY <1>1, <1>4
  <2>3. r.fp = Fingerprint(Registered)' BY <1>1, <1>5 DEF Fingerprint
  <2>4. NowOrGone(Registered, r.inlined = Registered \ r.todo)'
    BY <1>5, <2>1, <2>2 DEF NowOrGone
  <2> QED BY <1>5, <2>1, <2>2, <2>3, <2>4 DEF InlinedRead
<1>8. ASSUME ~ReadsInlined(r) PROVE InlinedKept(r)'
  <2>1. r.mode # "full" /\ fp = r.known BY <1>1, <1>8 DEF ReadsInlined
  <2>2. r.todo \cap Inl = {}
    <3>1. r.todo = (IF q.mode = "held" THEN {} ELSE Row \cup Child) \cup {}
      BY <1>1, <2>1 DEF Branches
    <3> QED BY <3>1, RowsDisjoint
  <2> QED BY <1>1, <1>4, <2>2 DEF InlinedKept
<1>9. ReadsInlined(r)' = ReadsInlined(r) BY DEF ReadsInlined
<1>10. LoadInlined(r)' BY <1>1, <1>6, <1>7, <1>8, <1>9 DEF LoadInlined
<1>11. ASSUME NEW K \in SUBSET Inl, NEW T, T = Registered \cap K PROVE OfItsTime(r, T, K)'
  BY <1>2, <1>6, <1>11 DEF OfItsTime, Since, Registered
<1>12. MirrorFits(r)'
  <2> SUFFICES ASSUME loaded, ~overBudget, r.fp = mirrorFp PROVE OfItsTime(r, inlined, Inl)'
    BY <1>2 DEF MirrorFits
  <2>1. inlined = Registered BY <1>1, <1>3, FingerprintTells
  <2>2. Registered = Registered \cap Inl BY <1>5
  <2>3. OfItsTime(r, Registered \cap Inl, Inl)' BY <1>2, <1>6 DEF OfItsTime, Since, Registered
  <2> QED BY <1>2, <1>5, <2>1, <2>2, <2>3 DEF OfItsTime
<1>13. ASSUME NEW o \in Reader, o # p PROVE ReadsFit(rd[p], rd[o])' /\ ReadsFit(rd[o], rd[p])'
  <2>1. PICK t : t = rd'[o] /\ t = rd[o] BY <1>2, <1>13
  <2>2. LoadInlined(t) BY <2>1 DEF InlinedInv
  <2>3. ReadsFit(r, t)'
    <3> SUFFICES ASSUME t.pc = "rows", r.fp = t.fp, ReadsInlined(t)
                 PROVE  OfItsTime(r, t.inlined, Inl \ t.todo)'
      BY DEF ReadsFit, ReadsInlined
    <3>1. PICK S \in SUBSET Inl : /\ t.fp = Fingerprint(S)
                                  /\ NowOrGone(S, t.inlined = Registered \ t.todo)
      BY <2>2 DEF LoadInlined, InlinedRead
    <3>2. S = Registered
      <4>1. Fingerprint(S) = Fingerprint(Registered) BY <1>1, <3>1
      <4> QED BY <4>1, OneFingerprint
    <3>3. t.inlined = Registered \ t.todo BY <1>3, <3>1, <3>2, GoneIsGone DEF NowOrGone
    <3>4. t.inlined = Registered \cap (Inl \ t.todo) BY <1>5, <3>3
    <3> QED BY <1>11, <3>4
  <2>4. ReadsFit(t, r)'
    <3> SUFFICES ASSUME ReadsInlined(r) PROVE OfItsTime(t, r.inlined, Inl \ r.todo)'
      BY DEF ReadsFit, ReadsInlined
    <3>1. Inl \ r.todo = {} BY <1>7
    <3> QED BY <3>1 DEF OfItsTime
  <2> QED BY <1>0, <2>1, <2>3, <2>4, CarryTwo
<1>14. ReadsFit(rd[p], rd[p])'
  <2>1. ReadsFit(r, r)'
    <3> SUFFICES ASSUME ReadsInlined(r) PROVE OfItsTime(r, r.inlined, Inl \ r.todo)'
      BY DEF ReadsFit, ReadsInlined
    <3>1. Inl \ r.todo = {} BY <1>7
    <3> QED BY <3>1 DEF OfItsTime
  <2> QED BY <1>0, <2>1, CarryTwo
<1> QED BY <1>0, <1>10, <1>12, <1>13, <1>14, Carry DEF StepOf

\* A load that reads a row, or a table: what it is to the mirror and to the other loads.
LEMMA RowsStepOf ==
  ASSUME TypeOK, InlinedInv, NEW p \in Reader,
         UNCHANGED <<registry, loaded, overBudget, mirrorFp, inlined>>,
         \A o \in Reader \ {p} : rd'[o] = rd[o],
         rd[p].pc = "rows", rd'[p].pc = "rows", rd'[p].fp = rd[p].fp,
         rd'[p].known = rd[p].known, rd'[p].mode = rd[p].mode, rd'[p].atStart = rd[p].atStart,
         rd'[p].todo \subseteq rd[p].todo,
         ReadsInlined(rd[p]) =>
           \A i \in Inl : IF i \in rd[p].todo \ rd'[p].todo
                          THEN i \in rd'[p].inlined <=> i \in Registered
                          ELSE i \in rd'[p].inlined <=> i \in rd[p].inlined,
         LoadInlined(rd[p])'
  PROVE  StepOf(p)'
<1> DEFINE q == rd[p]
<1>0. PICK r : r = rd'[p] OBVIOUS
<1>1. LoadInlined(q) /\ MirrorFits(q) BY DEF InlinedInv
<1>2. Since(q) /\ Since(r)' BY <1>0, <1>1 DEF LoadInlined, Since
<1>3. ReadsInlined(r) = ReadsInlined(q) BY <1>0 DEF ReadsInlined
<1>4. MirrorFits(r)' BY <1>0, <1>1 DEF MirrorFits, OfItsTime
<1>5. ASSUME NEW t, Since(t), ReadsFit(t, q) PROVE ReadsFit(t, r)'
  <2> SUFFICES ASSUME t.pc = "rows", t.fp = r.fp, ReadsInlined(r)
               PROVE  OfItsTime(t, r.inlined, Inl \ r.todo)'
    BY DEF ReadsFit, ReadsInlined
  <2>1. OfItsTime(t, q.inlined, Inl \ q.todo) BY <1>0, <1>3, <1>5 DEF ReadsFit
  <2>2. ASSUME NEW i \in Inl \ r.todo
        PROVE  /\ t.atStart[i] = "registered" /\ registry'[i] = "registered" => i \in r.inlined
               /\ t.atStart[i] = "dropped" => i \notin r.inlined
    <3>1. CASE i \in q.todo
      <4>1. i \in r.inlined <=> i \in Registered BY <1>0, <1>3, <2>2, <3>1
      <4> QED BY <1>5, <4>1 DEF Registered, Since
    <3>2. CASE i \notin q.todo
      <4>1. i \in r.inlined <=> i \in q.inlined BY <1>0, <1>3, <2>2, <3>2
      <4> QED BY <2>1, <2>2, <3>2, <4>1 DEF OfItsTime
    <3> QED BY <3>1, <3>2
  <2> QED BY <2>2 DEF OfItsTime
<1>6. ASSUME NEW o \in Reader, o # p PROVE ReadsFit(rd[p], rd[o])' /\ ReadsFit(rd[o], rd[p])'
  <2>1. PICK t : t = rd'[o] /\ t = rd[o] BY <1>6
  <2>2. LoadInlined(t) /\ ReadsFit(q, t) /\ ReadsFit(t, q) BY <2>1 DEF InlinedInv
  <2>3. ReadsFit(r, t)' BY <1>0, <2>2 DEF ReadsFit, ReadsInlined, OfItsTime
  <2>4. ReadsFit(t, r)'
    <3>1. CASE t.pc = "rows"
      <4>1. Since(t) BY <2>2, <3>1 DEF LoadInlined
      <4> QED BY <1>5, <2>2, <4>1
    <3>2. CASE t.pc # "rows" BY <3>2 DEF ReadsFit
    <3> QED BY <3>1, <3>2
  <2> QED BY <1>0, <2>1, <2>3, <2>4, CarryTwo
<1>7. ReadsFit(rd[p], rd[p])'
  <2>1. ReadsFit(q, q) BY DEF InlinedInv
  <2>2. PICK t : t = q OBVIOUS
  <2>3. Since(t) /\ ReadsFit(t, q) BY <1>2, <2>1, <2>2
  <2>4. ReadsFit(t, r)' BY <1>5, <2>3
  <2>5. ReadsFit(r, r)' BY <1>0, <2>2, <2>4 DEF ReadsFit, ReadsInlined, OfItsTime
  <2> QED BY <1>0, <2>5, CarryTwo
<1> QED BY <1>0, <1>4, <1>6, <1>7, Carry DEF StepOf

\* A row or a child tells nothing of the tables.
LEMMA OtherRowInlined ==
  ASSUME TypeOK, InlinedInv, NEW p \in Reader,
         (\E x \in Row : ReadRow(p, x)) \/ (\E x \in Child : ReadChild(p, x))
  PROVE  StepOf(p)'
<1>0. PICK r : r = rd'[p] OBVIOUS
<1> DEFINE q == rd[p]
<1>1. /\ q.pc = "rows" /\ r.pc = "rows"
      /\ r.known = q.known /\ r.mode = q.mode /\ r.atStart = q.atStart
      /\ r.inlined = q.inlined /\ r.fp = q.fp
      /\ \E x \in Row \cup Child : r.todo = q.todo \ {x}
  <2>1. q \in Load BY DEF TypeOK
  <2>2. ASSUME NEW x \in Row, ReadRow(p, x) PROVE <1>1!:
    <3> DEFINE todo == q.todo \ {x}
               read == [q.ends EXCEPT ![x] = IF Wanted(q, x) THEN end[x] ELSE Unread]
    <3>1. r = [q EXCEPT !.todo = todo, !.ends = read] /\ q.pc = "rows"
      BY <1>0, <2>2 DEF ReadRow, TypeOK
    <3> HIDE DEF read
    <3> QED BY <2>1, <3>1 DEF Load
  <2>3. ASSUME NEW x \in Child, ReadChild(p, x) PROVE <1>1!:
    <3> DEFINE todo == q.todo \ {x}
               read == q.children \cup {k \in {x} : WantedChild(q, k)}
    <3>1. r = [q EXCEPT !.todo = todo, !.children = read] /\ q.pc = "rows"
      BY <1>0, <2>3 DEF ReadChild, TypeOK
    <3> HIDE DEF read
    <3> QED BY <2>1, <3>1 DEF Load
  <2> QED BY <2>2, <2>3
<1>2. /\ UNCHANGED <<registry, loaded, overBudget, mirrorFp, inlined>>
      /\ \A o \in Reader \ {p} : rd'[o] = rd[o]
  BY DEF ReadRow, ReadChild, serverVars, mirrorVars, TypeOK
<1>3. LoadInlined(q) BY DEF InlinedInv
<1> HIDE DEF q
<1>4. Inl \ r.todo = Inl \ q.todo /\ Inl \cap r.todo = Inl \cap q.todo
      /\ r.todo \subseteq q.todo /\ Registered' \ r.todo = Registered \ q.todo
      /\ Registered' = Registered
  BY <1>1, <1>2, RowsDisjoint DEF Registered
<1>5. (r.mode # "full" => loaded') /\ Since(r)'
  BY <1>1, <1>2, <1>3 DEF LoadInlined, Since
<1>6. ASSUME ReadsInlined(q) PROVE InlinedRead(r)'
  <2>1. InlinedRead(q) BY <1>1, <1>3, <1>6 DEF LoadInlined
  <2>2. PICK S \in SUBSET Inl : q.fp = Fingerprint(S)
                                /\ NowOrGone(S, q.inlined = Registered \ q.todo)
    BY <2>1 DEF InlinedRead
  <2>3. NowOrGone(S, r.inlined = Registered \ r.todo)'
    BY <1>1, <1>2, <1>4, <2>2 DEF NowOrGone, Gone
  <2>4. r.fp = Fingerprint(S)' BY <1>1, <2>2 DEF Fingerprint
  <2> QED BY <1>1, <1>4, <2>1, <2>3, <2>4 DEF InlinedRead
<1>7. ASSUME ~ReadsInlined(q) PROVE InlinedKept(r)'
  <2>1. InlinedKept(q) BY <1>1, <1>3, <1>7 DEF LoadInlined
  <2> QED BY <1>1, <1>4, <2>1 DEF InlinedKept
<1>8. ReadsInlined(r)' = ReadsInlined(q) BY <1>1 DEF ReadsInlined
<1>9. LoadInlined(r)' BY <1>1, <1>5, <1>6, <1>7, <1>8 DEF LoadInlined
<1>10. LoadInlined(rd[p])' BY <1>0, <1>9, Carry
<1>11. \A i \in Inl : i \notin q.todo \ r.todo BY <1>4
<1> QED BY <1>0, <1>1, <1>2, <1>4, <1>10, <1>11, RowsStepOf DEF q

\* A table read is one that is registered at that time.
LEMMA ReadInlinedInlined ==
  ASSUME TypeOK, InlinedInv, NEW p \in Reader, NEW x \in Inl, ReadInlined(p, x)
  PROVE  StepOf(p)'
<1>0. PICK r : r = rd'[p] OBVIOUS
<1> DEFINE q == rd[p]
<1>1. /\ q.pc = "rows" /\ r.pc = "rows" /\ x \in q.todo
      /\ r.known = q.known /\ r.mode = q.mode /\ r.atStart = q.atStart /\ r.fp = q.fp
      /\ r.inlined = q.inlined \cup ({x} \cap Registered) /\ r.todo = q.todo \ {x}
  <2> DEFINE todo == q.todo \ {x}
             read == q.inlined \cup ({x} \cap Registered)
  <2>1. q \in Load BY DEF TypeOK
  <2>2. r = [q EXCEPT !.todo = todo, !.inlined = read] /\ q.pc = "rows" /\ x \in q.todo
    BY <1>0 DEF ReadInlined, TypeOK
  <2> HIDE DEF todo, read
  <2>3. /\ r.pc = "rows" /\ r.known = q.known /\ r.mode = q.mode /\ r.atStart = q.atStart
        /\ r.fp = q.fp /\ r.inlined = read /\ r.todo = todo
    BY <2>1, <2>2 DEF Load
  <2> QED BY <2>2, <2>3 DEF todo, read
<1>2. /\ UNCHANGED <<registry, loaded, overBudget, mirrorFp, inlined>>
      /\ \A o \in Reader \ {p} : rd'[o] = rd[o]
  BY DEF ReadInlined, serverVars, mirrorVars, TypeOK
<1>3. LoadInlined(q) /\ ReadsInlined(q)
  <2>1. LoadInlined(q) BY DEF InlinedInv
  <2> QED BY <1>1, <2>1 DEF LoadInlined, InlinedKept
<1> HIDE DEF q
<1>4. (r.mode # "full" => loaded') /\ Since(r)' /\ InlinedRead(q)
  BY <1>1, <1>2, <1>3 DEF LoadInlined, Since
<1>5. r.inlined \cap r.todo = {} /\ x \notin q.inlined BY <1>1, <1>4 DEF InlinedRead
<1>6. PICK S \in SUBSET Inl : q.fp = Fingerprint(S)
                              /\ NowOrGone(S, q.inlined = Registered \ q.todo)
  BY <1>4 DEF InlinedRead
<1>7. Registered' = Registered BY <1>2 DEF Registered
<1>8. NowOrGone(S, r.inlined = Registered \ r.todo)'
  <2>1. CASE Gone(S) BY <1>2, <2>1 DEF NowOrGone, Gone
  <2>2. CASE S = Registered /\ q.inlined = Registered \ q.todo
    <3>1. r.inlined = Registered \ r.todo BY <1>1, <2>2
    <3> QED BY <1>7, <2>2, <3>1 DEF NowOrGone
  <2> QED BY <1>6, <2>1, <2>2 DEF NowOrGone
<1>9. r.fp = Fingerprint(S)' BY <1>1, <1>6 DEF Fingerprint
<1>10. InlinedRead(r)' BY <1>5, <1>8, <1>9 DEF InlinedRead
<1>11. ReadsInlined(r)' BY <1>1, <1>3 DEF ReadsInlined
<1>12. LoadInlined(r)' BY <1>1, <1>4, <1>10, <1>11 DEF LoadInlined
<1>13. LoadInlined(rd[p])' BY <1>0, <1>12, Carry
<1>14. \A i \in Inl : IF i \in q.todo \ r.todo THEN i \in r.inlined <=> i \in Registered
                      ELSE i \in r.inlined <=> i \in q.inlined
  BY <1>1, <1>5
<1> QED BY <1>0, <1>1, <1>2, <1>13, <1>14, RowsStepOf DEF q

\* The mirror after a merge has the tables the load read, or those it had and the load kept, or
\* both; they are right for each load that read the fingerprint which is merged.
LEMMA MergedInlined ==
  ASSUME TypeOK, InlinedInv, NEW p \in Reader, Merge(p), ~Overtaken(rd[p]), ~overBudget'
  PROVE  /\ \A o \in Reader : rd[o].pc = "rows" /\ rd[o].fp = mirrorFp' => OfItsTime(rd[o], inlined', Inl)
         /\ \E S \in SUBSET Inl :
              mirrorFp' = Fingerprint(S) /\ NowOrGone(S, inlined' = Registered)
<1> DEFINE q == rd[p]
<1>1. /\ q.pc = "rows" /\ q.todo = {} /\ mirrorFp' = q.fp /\ inlined' = MergeInlined(q)
      /\ ~overBudget
  BY DEF Merge, GivenUp
<1>2. LoadInlined(q) /\ MirrorInlined /\ RegistryInv BY DEF InlinedInv
<1>3. ~Overtaken(q) OBVIOUS
<1>4. \A o \in Reader : MirrorFits(rd[o]) /\ ReadsFit(rd[o], q) BY DEF InlinedInv
<1> HIDE DEF q
<1>5. /\ q.mode # "full" => loaded
      /\ IF ReadsInlined(q) THEN InlinedRead(q) ELSE InlinedKept(q)
  BY <1>1, <1>2 DEF LoadInlined
<1>6. CASE ReadsInlined(q) /\ Erases(q)
  <2>1. inlined' = q.inlined BY <1>1, <1>6 DEF MergeInlined
  <2>2. ASSUME NEW o \in Reader, rd[o].pc = "rows", rd[o].fp = mirrorFp'
        PROVE  OfItsTime(rd[o], inlined', Inl)
    BY <1>1, <1>4, <1>6, <2>1, <2>2 DEF ReadsFit
  <2>3. PICK S \in SUBSET Inl : q.fp = Fingerprint(S)
                                /\ NowOrGone(S, q.inlined = Registered \ q.todo)
    BY <1>5, <1>6 DEF InlinedRead
  <2>4. NowOrGone(S, inlined' = Registered) BY <1>1, <2>1, <2>3 DEF NowOrGone
  <2> QED BY <1>1, <2>2, <2>3, <2>4
<1>7. CASE ~Erases(q)
  <2>1. /\ q.mode # "full" /\ q.fp = mirrorFp /\ loaded /\ inlined' = inlined \cup q.inlined
    BY <1>1, <1>5, <1>7 DEF MergeInlined, Erases, InlinedChanged
  <2>2. ASSUME NEW o \in Reader, rd[o].pc = "rows", rd[o].fp = mirrorFp'
        PROVE  OfItsTime(rd[o], inlined', Inl)
    <3>1. OfItsTime(rd[o], inlined, Inl) BY <1>1, <1>4, <2>1, <2>2 DEF MirrorFits
    <3>2. CASE ReadsInlined(q)
      <4>1. OfItsTime(rd[o], q.inlined, Inl) BY <1>1, <1>4, <2>2, <3>2 DEF ReadsFit
      <4> QED BY <2>1, <3>1, <4>1 DEF OfItsTime
    <3>3. CASE ~ReadsInlined(q)
      <4>1. inlined' = inlined BY <1>5, <2>1, <3>3 DEF InlinedKept
      <4> QED BY <3>1, <4>1
    <3> QED BY <3>2, <3>3
  <2>3. PICK S \in SUBSET Inl : mirrorFp = Fingerprint(S) /\ NowOrGone(S, inlined = Registered)
    BY <1>1, <1>2, <2>1 DEF MirrorInlined
  <2>4. NowOrGone(S, inlined' = Registered)
    <3>1. CASE Gone(S) BY <3>1 DEF NowOrGone
    <3>2. CASE ~Gone(S)
      <4>1. S = Registered /\ inlined = Registered BY <2>3, <3>2 DEF NowOrGone
      <4>2. q.inlined \subseteq Registered
        <5>1. CASE ReadsInlined(q)
          <6>1. PICK T \in SUBSET Inl : q.fp = Fingerprint(T)
                                        /\ NowOrGone(T, q.inlined = Registered \ q.todo)
            BY <1>5, <5>1 DEF InlinedRead
          <6>2. T = S BY <2>1, <2>3, <6>1 DEF Fingerprint
          <6> QED BY <3>2, <6>1, <6>2 DEF NowOrGone
        <5>2. CASE ~ReadsInlined(q) BY <1>5, <5>2 DEF InlinedKept
        <5> QED BY <5>1, <5>2
      <4> QED BY <2>1, <4>1, <4>2 DEF NowOrGone
    <3> QED BY <3>1, <3>2
  <2> QED BY <1>1, <2>1, <2>2, <2>3, <2>4
<1>8. Erases(q) => ReadsInlined(q)
  BY <1>3 DEF Erases, InlinedChanged, Overtaken, ReadsInlined
<1> QED BY <1>6, <1>7, <1>8

\* The second invariant, at the start.
LEMMA InlinedInit == Init => InlinedInv
<1> SUFFICES ASSUME Init PROVE InlinedInv OBVIOUS
<1>1. RegistryInv /\ MirrorInlined BY DEF Init, RegistryInv, MirrorInlined
<1>2. \A p \in Reader : rd[p].pc = "idle" BY DEF Init, Idle
<1> QED BY <1>1, <1>2 DEF InlinedInv, LoadInlined, MirrorFits, ReadsFit

\* A step of load p that leaves the mirror: the others and the mirror stay as they are.
LEMMA InlinedReadStep ==
  ASSUME TypeOK, InlinedInv, NEW p \in Reader, UNCHANGED <<serverVars, mirrorVars>>,
         \A o \in Reader \ {p} : rd'[o] = rd[o], StepOf(p)'
  PROVE  InlinedInv'
<1>1. UNCHANGED registry BY DEF serverVars
<1>2. RegistryMoves /\ UNCHANGED mirrorVars /\ loaded' = loaded
  BY <1>1, QuietMoves DEF InlinedInv, mirrorVars
<1>3. RegistryInv' /\ MirrorInlined'
  BY <1>2, MirrorInlinedStays DEF RegistryMoves, InlinedInv
<1>4. ASSUME NEW o \in Reader PROVE LoadInlined(rd[o])' /\ MirrorFits(rd[o])'
  <2>1. CASE o = p BY <2>1 DEF StepOf
  <2>2. CASE o # p
    <3>1. PICK r : r = rd'[o] /\ r = rd[o] BY <2>2
    <3>2. LoadInlined(r) /\ MirrorFits(r) BY <3>1 DEF InlinedInv
    <3>3. LoadInlined(r)' /\ MirrorFits(r)' BY <1>2, <3>2, LoadInlinedStays, MirrorFitsStays
    <3> QED BY <3>1, <3>3, Carry
  <2> QED BY <2>1, <2>2
<1>5. ASSUME NEW o \in Reader, NEW t \in Reader PROVE ReadsFit(rd[o], rd[t])'
  <2>1. CASE o = p \/ t = p BY <2>1 DEF StepOf
  <2>2. CASE o # p /\ t # p
    <3>1. PICK q, r : q = rd'[o] /\ q = rd[o] /\ r = rd'[t] /\ r = rd[t] BY <2>2
    <3>2. LoadInlined(q) /\ ReadsFit(q, r) BY <3>1 DEF InlinedInv
    <3>3. ReadsFit(q, r)' BY <1>2, <3>2, ReadsFitStays
    <3> QED BY <3>1, <3>3, CarryTwo
  <2> QED BY <2>1, <2>2
<1> QED BY <1>3, <1>4, <1>5 DEF InlinedInv

\* The server's transactions leave the loads and the mirror as they are.
LEMMA InlinedServerStep ==
  ASSUME TypeOK, InlinedInv, RegistryMoves, UNCHANGED <<mirrorVars, rd>> PROVE InlinedInv'
<1>1. UNCHANGED mirrorVars /\ UNCHANGED rd /\ loaded' = loaded BY DEF mirrorVars
<1>2. RegistryInv' /\ MirrorInlined'
  BY <1>1, MirrorInlinedStays DEF RegistryMoves, InlinedInv
<1>3. ASSUME NEW o \in Reader PROVE LoadInlined(rd[o])' /\ MirrorFits(rd[o])'
  <2>1. PICK r : r = rd'[o] /\ r = rd[o] BY <1>1
  <2>2. LoadInlined(r) /\ MirrorFits(r) BY <2>1 DEF InlinedInv
  <2>3. LoadInlined(r)' /\ MirrorFits(r)' BY <1>1, <2>2, LoadInlinedStays, MirrorFitsStays
  <2> QED BY <2>1, <2>3, Carry
<1>4. ASSUME NEW o \in Reader, NEW t \in Reader PROVE ReadsFit(rd[o], rd[t])'
  <2>1. PICK q, r : q = rd'[o] /\ q = rd[o] /\ r = rd'[t] /\ r = rd[t] BY <1>1
  <2>2. LoadInlined(q) /\ ReadsFit(q, r) BY <2>1 DEF InlinedInv
  <2>3. ReadsFit(q, r)' BY <2>2, ReadsFitStays
  <2> QED BY <2>1, <2>3, CarryTwo
<1> QED BY <1>2, <1>3, <1>4 DEF InlinedInv

\* A merge of a load that was not overtaken.
LEMMA InlinedMergeStep ==
  ASSUME TypeOK, InlinedInv, NEW p \in Reader, Merge(p), ~Overtaken(rd[p]) PROVE InlinedInv'
<1>1. /\ UNCHANGED serverVars /\ loaded' = TRUE
      /\ rd'[p].pc = "idle" /\ \A o \in Reader \ {p} : rd'[o] = rd[o]
  BY DEF Merge, TypeOK, Idle
<1>2. registry' = registry /\ RegistryMoves BY <1>1, QuietMoves DEF serverVars, InlinedInv
<1>3. RegistryInv' BY <1>2 DEF RegistryMoves
<1>4. MirrorInlined'
  <2> SUFFICES ASSUME ~overBudget'
               PROVE  \E S \in SUBSET Inl :
                         mirrorFp' = Fingerprint(S) /\ NowOrGone(S, inlined = Registered)'
    BY DEF MirrorInlined, NowOrGone, Gone, Registered, Fingerprint
  <2>1. PICK S \in SUBSET Inl :
           mirrorFp' = Fingerprint(S) /\ NowOrGone(S, inlined' = Registered)
    BY MergedInlined
  <2>2. NowOrGone(S, inlined = Registered)' BY <1>2, <2>1 DEF NowOrGone, Gone, Registered
  <2> QED BY <2>1, <2>2
<1>5. ASSUME NEW o \in Reader PROVE LoadInlined(rd[o])' /\ MirrorFits(rd[o])'
  <2>1. CASE o = p BY <1>1, <2>1 DEF LoadInlined, MirrorFits
  <2>2. CASE o # p
    <3>1. PICK r : r = rd'[o] /\ r = rd[o] BY <1>1, <2>2
    <3>2. LoadInlined(r) BY <3>1 DEF InlinedInv
    <3>3. LoadInlined(r)' BY <1>1, <1>2, <3>2, LoadInlinedStays
    <3>4. MirrorFits(r)'
      <4> SUFFICES ASSUME r.pc = "rows", ~overBudget', r.fp = mirrorFp'
                   PROVE  OfItsTime(r, inlined, Inl)'
        BY DEF MirrorFits
      <4>1. OfItsTime(r, inlined', Inl) BY <3>1, MergedInlined
      <4> QED BY <1>2, <4>1 DEF OfItsTime
    <3> QED BY <3>1, <3>3, <3>4, Carry
  <2> QED BY <2>1, <2>2
<1>6. ASSUME NEW o \in Reader, NEW t \in Reader PROVE ReadsFit(rd[o], rd[t])'
  <2>1. CASE o = p \/ t = p BY <1>1, <2>1 DEF ReadsFit
  <2>2. CASE o # p /\ t # p
    <3>1. PICK q, r : q = rd'[o] /\ q = rd[o] /\ r = rd'[t] /\ r = rd[t] BY <1>1, <2>2
    <3>2. LoadInlined(q) /\ ReadsFit(q, r) BY <3>1 DEF InlinedInv
    <3>3. ReadsFit(q, r)' BY <1>2, <3>2, ReadsFitStays
    <3> QED BY <3>1, <3>3, CarryTwo
  <2> QED BY <2>1, <2>2
<1> QED BY <1>3, <1>4, <1>5, <1>6 DEF InlinedInv

\* Every step keeps it, but the merge of a load that was overtaken.
LEMMA InlinedStep ==
  ASSUME TypeOK, InlinedInv, [Next]_vars, \A p \in Reader : Merge(p) => ~Overtaken(rd[p])
  PROVE  InlinedInv'
<1>1. CASE UNCHANGED vars
  <2>1. UNCHANGED registry /\ UNCHANGED <<mirrorVars, rd>> BY <1>1 DEF vars, serverVars
  <2>2. RegistryMoves BY <2>1, QuietMoves DEF InlinedInv
  <2> QED BY <2>1, <2>2, InlinedServerStep
<1>2. CASE Server
  <2>1. RegistryMoves BY <1>2, ServerMoves DEF InlinedInv
  <2>2. UNCHANGED <<mirrorVars, rd>> BY <1>2 DEF Server, Commit, Expire, Register, Drop
  <2> QED BY <2>1, <2>2, InlinedServerStep
<1>3. ASSUME NEW p \in Reader, Start(p) \/ ReadLatest(p) \/ ReadOldest(p) PROVE StepOf(p)'
  <2>1. LoadInlined(rd[p])' BY <1>3, StartInlined, EarlyInlined
  <2>2. rd'[p].pc # "rows"
    <3>1. rd[p] \in Load BY DEF TypeOK
    <3>2. CASE Start(p) BY <3>2 DEF Start, TypeOK, Idle
    <3>3. CASE ReadLatest(p)
      <4>1. rd'[p] = [rd[p] EXCEPT !.pc = "oldest", !.latest = latest]
        BY <3>3 DEF ReadLatest, TypeOK
      <4> QED BY <3>1, <4>1 DEF Load
    <3>4. CASE ReadOldest(p)
      <4>1. PICK s \in live : rd'[p] = [rd[p] EXCEPT !.pc = "fingerprint", !.oldest = s]
        BY <3>4 DEF ReadOldest, TypeOK
      <4> QED BY <3>1, <4>1 DEF Load
    <3> QED BY <1>3, <3>2, <3>3, <3>4
  <2> QED BY <2>1, <2>2, NotRowsYet
<1>4. ASSUME NEW p \in Reader, LoadCatalog(p), ~Merge(p), ~MergeNothing(p) PROVE InlinedInv'
  <2>1. StepOf(p)'
    BY <1>3, <1>4, FingerprintInlined, OtherRowInlined, ReadInlinedInlined DEF LoadCatalog
  <2>2. UNCHANGED <<serverVars, mirrorVars>> /\ \A o \in Reader \ {p} : rd'[o] = rd[o]
    BY <1>4 DEF LoadCatalog, Start, ReadLatest, ReadOldest, ReadFingerprint, ReadRow, ReadChild,
                ReadInlined, TypeOK
  <2> QED BY <2>1, <2>2, InlinedReadStep
<1>5. ASSUME NEW p \in Reader, MergeNothing(p) PROVE InlinedInv'
  <2>1. rd'[p].pc = "idle" /\ UNCHANGED <<serverVars, mirrorVars>>
        /\ \A o \in Reader \ {p} : rd'[o] = rd[o]
    BY <1>5 DEF MergeNothing, Idle, TypeOK
  <2>2. LoadInlined(rd[p])' BY <2>1 DEF LoadInlined
  <2> QED BY <2>1, <2>2, NotRowsYet, InlinedReadStep
<1>6. ASSUME NEW p \in Reader, Merge(p) PROVE InlinedInv' BY <1>6, InlinedMergeStep
<1> QED BY <1>1, <1>2, <1>4, <1>5, <1>6 DEF Next

\* It holds always where no load that was overtaken merges.
LEMMA InlinedInvariant == Spec /\ NoneOvertaken => []InlinedInv
<1>1. TypeOK /\ InlinedInv /\ [Next]_vars /\ [\A p \in Reader : Merge(p) => ~Overtaken(rd[p])]_vars
        => InlinedInv'
  <2> SUFFICES ASSUME TypeOK, InlinedInv, [Next]_vars,
                      [\A p \in Reader : Merge(p) => ~Overtaken(rd[p])]_vars
               PROVE  InlinedInv'
    OBVIOUS
  <2>1. CASE UNCHANGED vars
    <3>1. UNCHANGED registry /\ UNCHANGED <<mirrorVars, rd>> BY <2>1 DEF vars, serverVars
    <3>2. RegistryMoves BY <3>1, QuietMoves DEF InlinedInv
    <3> QED BY <3>1, <3>2, InlinedServerStep
  <2>2. CASE \A p \in Reader : Merge(p) => ~Overtaken(rd[p]) BY <2>2, InlinedStep
  <2> QED BY <2>1, <2>2
<1> QED BY <1>1, TypeCorrect, InlinedInit, PTL DEF Spec, NoneOvertaken

\* However loads overlap, as long as none merges that kept the mirror's tables and was overtaken:
\* the fingerprint a mirror keeps is of the tables beside it, so a load that asks only for the
\* fingerprint (ReadFingerprint) may take its word.
THEOREM FingerprintTold == Spec /\ NoneOvertaken => []FingerprintTruthful
<1>1. TypeOK /\ InlinedInv => FingerprintTruthful
  BY FingerprintTells DEF InlinedInv, FingerprintTruthful
<1> QED BY <1>1, TypeCorrect, InlinedInvariant, PTL

\* However loads overlap, with the same exception: each answers with the inlined data tables of the
\* time it ran, whether it read them, kept those of the mirror on the fingerprint's word, or merged
\* into a mirror that another load had brought up to date meanwhile.
THEOREM TablesOfTheirTime == Spec /\ NoneOvertaken => InlinedTablesCurrent
<1> DEFINE Current ==
      \A p \in Reader :
        Merge(p) /\ Answers(rd[p].ask)' =>
          \A i \in Inl :
            /\ rd[p].atStart[i] = "registered" /\ registry[i] = "registered" => i \in inlined'
            /\ rd[p].atStart[i] = "dropped" => i \notin inlined'
<1>1. /\ TypeOK /\ InlinedInv /\ [\A p \in Reader : Merge(p) => ~Overtaken(rd[p])]_vars
      => [Current]_vars
  <2> SUFFICES ASSUME TypeOK, InlinedInv, \A p \in Reader : Merge(p) => ~Overtaken(rd[p]),
                      NEW p \in Reader, Merge(p), Answers(rd[p].ask)', NEW i \in Inl
               PROVE  /\ rd[p].atStart[i] = "registered" /\ registry[i] = "registered"
                           => i \in inlined'
                      /\ rd[p].atStart[i] = "dropped" => i \notin inlined'
    OBVIOUS
  <2>1. ~overBudget' BY DEF Answers, GivenUp
  <2>2. rd[p].pc = "rows" /\ rd[p].fp = mirrorFp' BY DEF Merge
  <2>3. OfItsTime(rd[p], inlined', Inl) BY <2>1, <2>2, MergedInlined
  <2> QED BY <2>3 DEF OfItsTime
<1> QED BY <1>1, TypeCorrect, InlinedInvariant, PTL DEF NoneOvertaken, InlinedTablesCurrent
=============================================================================
