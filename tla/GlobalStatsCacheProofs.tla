----------------------- MODULE GlobalStatsCacheProofs -----------------------
(***************************************************************************)
(* Proofs about GlobalStatsCache, for any tables, transactions and bounds. *)
(*                                                                         *)
(* The inductive invariant: a load that has read the changes up to q.last  *)
(* holds, for every table it has not put aside to read again, stats no     *)
(* older than the last change up to there.  The entry is one such load's   *)
(* result.  That it never moves back needs the copy each load started      *)
(* from: while the entry has not moved, the load's stats are at least it.  *)
(***************************************************************************)
EXTENDS GlobalStatsCache, FiniteSetTheorems, TLAPS

Alive(t) == dropAt[t] = 0

ServerInv ==
  /\ latest \in ids /\ \A id \in ids : id <= latest
  /\ \A t \in Table :
       /\ \A c \in touched[t] : c > 0 /\ c <= latest /\ (Alive(t) => c <= stats[t])
       /\ stats[t] \in touched[t] \cup {Absent}

\* Every value was once committed.
Committed(S) == \A t \in Table : S[t] \in touched[t] \cup {Absent}

EntryInv ==
  /\ asOf <= latest
  /\ loaded => Knows(tables, asOf)
  /\ ~loaded => asOf = 0 /\ tables = NoStats
  /\ Committed(tables)

\* The tables load q will read again.
Pending(q) == IF q.pc = "changes" THEN q.reread ELSE q.todo

\* Every other table's stats are no older than the changes read so far.
KnowsTheRest(q) ==
  \A t \in Table : Alive(t) /\ t \notin Pending(q) =>
    \A c \in touched[t] : c <= q.last => c <= q.stats[t]

LoadInv(p, q) ==
  /\ q.pc # "idle" => wrote[p] = {}
  /\ q.base <= q.last /\ q.last <= latest /\ q.began <= latest
  /\ Committed(q.stats)
  /\ \A t \in q.dropped : ~Alive(t)
  /\ q.pc = "changes" => q.loaded /\ q.todo = {}
  /\ q.pc \in {"changes", "stats", "publish"} => KnowsTheRest(q)
  /\ q.pc \in {"stats", "publish"} => q.began <= q.last
  /\ q.pc = "publish" => q.todo = {}

Inv == ServerInv /\ EntryInv /\ \A p \in Reader : LoadInv(p, rd[p])

\* The entry has not moved since load q copied it.
Same(q) == q.current /\ loaded = q.loaded /\ asOf = q.base

CopyInv(q) ==
  /\ q.pc = "idle" => q.current
  /\ q.pc # "idle" /\ q.current => q.base <= asOf /\ (q.loaded => loaded)
  /\ q.pc = "latest" /\ q.loaded => q.base < latest
  /\ q.pc = "changes" /\ q.base = q.last => q.reread = {} /\ q.dropped = {}
  /\ q.pc \in {"changes", "stats", "publish"} /\ Same(q) =>
       /\ \A t \in Table : Alive(t) /\ t \notin q.todo => tables[t] <= q.stats[t]
       /\ q.loaded /\ q.base = q.last => q.todo = {} /\ q.stats = tables

OrderInv == \A p \in Reader : CopyInv(rd[p])

IInv == TypeOK /\ Inv /\ OrderInv

-----------------------------------------------------------------------------
(* Types *)

LEMMA IdleType == Idle \in Load
<1>1. NoStats \in [Table -> Stats] BY DEF NoStats, Stats
<1> QED BY <1>1 DEF Idle, Load

LEMMA TypeInit == Init => TypeOK
<1> SUFFICES ASSUME Init PROVE TypeOK OBVIOUS
<1>1. NoStats \in [Table -> Stats] /\ NoStats \in [Table -> Nat] BY DEF NoStats, Stats, Absent
<1>2. rd \in [Reader -> Load] BY IdleType DEF Init
<1>3. loaded \in BOOLEAN BY Zenon DEF Init
<1> QED BY <1>1, <1>2, <1>3 DEF Init, TypeOK

LEMMA TypeServer ==
  ASSUME TypeOK, Commit \/ Expire \/ \E p \in Reader : Write(p) \/ EndTransaction(p)
  PROVE  TypeOK'
<1> USE DEF TypeOK, entryVars, serverVars
<1>1. CASE Commit
  <2>1. latest' \in Nat /\ ids' \subseteq Nat /\ unreadable' \subseteq Nat BY <1>1 DEF Commit
  <2>2. stats' \in [Table -> Nat] /\ touched' \in [Table -> SUBSET Nat] BY <1>1 DEF Commit
  <2>3. dropAt' \in [Table -> Nat] BY <1>1 DEF Commit
  <2> QED BY <1>1, <2>1, <2>2, <2>3 DEF Commit
<1>2. CASE Expire
  <2>1. stats' \in [Table -> Nat] BY <1>2 DEF Expire, Absent
  <2>2. ids' \subseteq Nat /\ expired' \in Nat BY <1>2 DEF Expire
  <2> QED BY <1>2, <2>1, <2>2 DEF Expire
<1>3. ASSUME NEW p \in Reader, Write(p) PROVE TypeOK' BY <1>3 DEF Write
<1>4. ASSUME NEW p \in Reader, EndTransaction(p) PROVE TypeOK' BY <1>4 DEF EndTransaction
<1> QED BY <1>1, <1>2, <1>3, <1>4

LEMMA TypeEvict == TypeOK /\ Evict => TypeOK'
<1> SUFFICES ASSUME TypeOK, Evict PROVE TypeOK' OBVIOUS
<1>1. ASSUME NEW p \in Reader PROVE [rd[p] EXCEPT !.current = (rd[p].pc = "idle")] \in Load
  <2>1. rd[p] \in Load /\ (rd[p].pc = "idle") \in BOOLEAN BY DEF TypeOK
  <2> QED BY <2>1 DEF Load
<1>2. rd' \in [Reader -> Load] BY <1>1 DEF Evict
<1>3. NoStats \in [Table -> Stats] BY DEF NoStats, Stats
<1>4. loaded' \in BOOLEAN BY Zenon DEF Evict
<1> QED BY <1>2, <1>3, <1>4 DEF Evict, TypeOK, serverVars

LEMMA TypeLoad == ASSUME TypeOK, NEW p \in Reader, GetGlobalTableStats(p) PROVE TypeOK'
<1>1. NoStats \in [Table -> Stats] BY DEF NoStats, Stats
<1>2. rd[p] \in Load BY DEF TypeOK
<1>3. ASSUME rd'[p] \in Load, rd' = [rd EXCEPT ![p] = rd'[p]], UNCHANGED <<serverVars, wrote>>,
             loaded' \in BOOLEAN, asOf' \in Nat, tables' \in [Table -> Stats], evicted' = evicted
      PROVE  TypeOK'
  <2>1. rd' \in [Reader -> Load] BY <1>3 DEF TypeOK
  <2> QED BY <1>3, <2>1 DEF TypeOK, serverVars
<1>4. ASSUME UNCHANGED entryVars
      PROVE  /\ loaded' \in BOOLEAN /\ asOf' \in Nat /\ tables' \in [Table -> Stats]
             /\ evicted' = evicted
  BY <1>4 DEF TypeOK, entryVars
<1>5. CASE Start(p)
  <2> DEFINE pc == IF loaded THEN "changes" ELSE "latest"
             copy == IF loaded THEN tables ELSE NoStats
  <2>1. rd'[p] = [Idle EXCEPT !.pc = pc, !.began = latest, !.loaded = loaded,
                              !.base = asOf, !.last = asOf, !.stats = copy]
    BY <1>5 DEF Start, TypeOK
  <2>2. pc \in {"changes", "latest"} /\ copy \in [Table -> Stats] /\ latest \in Nat
        /\ asOf \in Nat /\ loaded \in BOOLEAN
    BY <1>1 DEF TypeOK
  <2> HIDE DEF pc, copy
  <2>3. rd'[p] \in Load BY <2>1, <2>2, IdleType DEF Load
  <2>4. rd' = [rd EXCEPT ![p] = rd'[p]] BY <1>5 DEF Start, TypeOK
  <2> QED BY <1>3, <1>4, <1>5, <2>3, <2>4 DEF Start
<1>6. CASE ReadChange(p)
  <2>1. PICK id \in ids :
          IF Follows(rd[p], id) /\ Reads(id)
          THEN rd' = [rd EXCEPT ![p] = [rd[p] EXCEPT
                        !.last = id,
                        !.reread = rd[p].reread \cup ChangedBy(id),
                        !.dropped = rd[p].dropped \cup DroppedBy(id)]]
          ELSE rd' = [rd EXCEPT ![p] = [rd[p] EXCEPT !.pc = "latest"]]
    BY <1>6 DEF ReadChange
  <2> DEFINE again == rd[p].reread \cup ChangedBy(id)
             gone == rd[p].dropped \cup DroppedBy(id)
  <2>2. again \in SUBSET Table /\ gone \in SUBSET Table /\ id \in Nat
    BY <1>2 DEF Load, ChangedBy, DroppedBy, TypeOK
  <2>3. \/ rd'[p] = [rd[p] EXCEPT !.last = id, !.reread = again, !.dropped = gone]
        \/ rd'[p] = [rd[p] EXCEPT !.pc = "latest"]
    BY <2>1 DEF TypeOK
  <2> HIDE DEF again, gone
  <2>4. rd'[p] \in Load BY <1>2, <2>2, <2>3 DEF Load
  <2>5. rd' = [rd EXCEPT ![p] = rd'[p]] BY <2>1 DEF TypeOK
  <2> QED BY <1>3, <1>4, <1>6, <2>4, <2>5 DEF ReadChange
<1>7. CASE EndOfChanges(p)
  <2> DEFINE left == [t \in Table |-> IF t \in rd[p].dropped THEN Absent ELSE rd[p].stats[t]]
  <2>1. left \in [Table -> Stats] BY <1>2 DEF Load, Stats
  <2>2. \/ rd'[p] = [rd[p] EXCEPT !.pc = "latest"]
        \/ rd'[p] = [rd[p] EXCEPT !.pc = "stats", !.todo = rd[p].reread, !.stats = left]
    BY <1>7 DEF EndOfChanges, TypeOK
  <2> HIDE DEF left
  <2>3. rd'[p] \in Load BY <1>2, <2>1, <2>2 DEF Load
  <2>4. rd' = [rd EXCEPT ![p] = rd'[p]] BY <1>7 DEF EndOfChanges, TypeOK
  <2> QED BY <1>3, <1>4, <1>7, <2>3, <2>4 DEF EndOfChanges
<1>8. CASE ReadLatest(p)
  <2>1. rd'[p] = [rd[p] EXCEPT !.pc = "stats", !.last = latest, !.todo = Table, !.stats = NoStats]
    BY <1>8 DEF ReadLatest, TypeOK
  <2>2. latest \in Nat BY DEF TypeOK
  <2>3. rd'[p] \in Load BY <1>1, <1>2, <2>1, <2>2 DEF Load
  <2>4. rd' = [rd EXCEPT ![p] = rd'[p]] BY <1>8 DEF ReadLatest, TypeOK
  <2> QED BY <1>3, <1>4, <1>8, <2>3, <2>4 DEF ReadLatest
<1>9. ASSUME NEW t \in Table, ReadStats(p, t) PROVE TypeOK'
  <2> DEFINE read == [rd[p].stats EXCEPT ![t] = StatsSeenBy(p, t)]
             left == rd[p].todo \ {t}
  <2>1. StatsSeenBy(p, t) \in Stats BY DEF StatsSeenBy, Stats, TypeOK
  <2>2. read \in [Table -> Stats] /\ left \in SUBSET Table BY <1>2, <2>1 DEF Load
  <2>3. rd'[p] = [rd[p] EXCEPT !.todo = left, !.stats = read] BY <1>9 DEF ReadStats, TypeOK
  <2> HIDE DEF read, left
  <2>4. rd'[p] \in Load BY <1>2, <2>2, <2>3 DEF Load
  <2>5. rd' = [rd EXCEPT ![p] = rd'[p]] BY <1>9 DEF ReadStats, TypeOK
  <2> QED BY <1>3, <1>4, <1>9, <2>4, <2>5 DEF ReadStats
<1>10. CASE Answer(p)
  <2>1. rd'[p] = [rd[p] EXCEPT !.pc = "publish"] BY <1>10 DEF Answer, TypeOK
  <2>2. rd'[p] \in Load BY <1>2, <2>1 DEF Load
  <2>3. rd' = [rd EXCEPT ![p] = rd'[p]] BY <1>10 DEF Answer, TypeOK
  <2> QED BY <1>3, <1>4, <1>10, <2>2, <2>3 DEF Answer
<1>11. CASE Publish(p)
  <2>1. rd'[p] = Idle /\ rd' = [rd EXCEPT ![p] = rd'[p]] BY <1>11 DEF Publish, TypeOK
  <2>2. asOf' \in Nat /\ tables' \in [Table -> Stats]
    BY <1>2, <1>11 DEF Publish, AsOfAfter, Load, TypeOK
  <2>3. loaded' \in BOOLEAN BY <1>11, Zenon DEF Publish, TypeOK
  <2> QED BY <1>3, <1>11, <2>1, <2>2, <2>3, IdleType DEF Publish
<1> QED BY <1>5, <1>6, <1>7, <1>8, <1>9, <1>10, <1>11 DEF GetGlobalTableStats

LEMMA TypeStep == TypeOK /\ [Next]_vars => TypeOK'
<1> SUFFICES ASSUME TypeOK, [Next]_vars PROVE TypeOK' OBVIOUS
<1>1. CASE UNCHANGED vars BY <1>1 DEF vars, serverVars, entryVars, TypeOK
<1>2. CASE Next BY <1>2, TypeServer, TypeEvict, TypeLoad DEF Next
<1> QED BY <1>1, <1>2

\* Every variable keeps its type: in particular the snapshot the cache is at stays a snapshot,
\* whatever load publishes.
THEOREM TypeCorrect == Spec => []TypeOK
<1>1. QED BY TypeInit, TypeStep, PTL DEF Spec

-----------------------------------------------------------------------------
(* The inductive invariant: the server *)

\* What every step of the server keeps: no table comes back, and changes are only added, after
\* the last snapshot.
Onward ==
  /\ latest <= latest'
  /\ \A t \in Table :
       /\ Alive(t)' => Alive(t)
       /\ touched[t] \subseteq touched'[t]
       /\ \A c \in touched'[t] : c \in touched[t] \/ c > latest

LEMMA InvInit == Init => Inv /\ OrderInv
<1> SUFFICES ASSUME Init PROVE Inv /\ OrderInv OBVIOUS
<1>1. \A t \in Table : stats[t] = 0 /\ tables[t] = 0 /\ touched[t] = {}
  BY DEF Init, NoStats, Absent
<1>2. ServerInv BY <1>1 DEF Init, ServerInv, Absent
<1>3. EntryInv BY <1>1 DEF Init, EntryInv, Committed, Absent, Knows
<1>4. ASSUME NEW p \in Reader PROVE LoadInv(p, rd[p]) /\ CopyInv(rd[p])
  <2>1. rd[p] = Idle BY DEF Init
  <2>2. Committed(Idle.stats) BY DEF Idle, Committed, NoStats, Absent
  <2> QED BY <2>1, <2>2 DEF Init, LoadInv, CopyInv, Idle
<1> QED BY <1>2, <1>3, <1>4 DEF Inv, OrderInv

LEMMA CommittedStays ==
  ASSUME Onward, NEW S, Committed(S) PROVE Committed(S)'
BY DEF Onward, Committed

LEMMA KnowsStays ==
  ASSUME TypeOK, TypeOK', Onward, NEW S \in [Table -> Stats], NEW s \in Nat, s <= latest,
         NEW T \in SUBSET Table,
         \A t \in T : Alive(t) => \A c \in touched[t] : c <= s => c <= S[t]
  PROVE  \A t \in T : Alive(t)' => \A c \in touched'[t] : c <= s => c <= S[t]
<1> SUFFICES ASSUME NEW t \in T, Alive(t)', NEW c \in touched'[t], c <= s PROVE c <= S[t]
  OBVIOUS
<1>1. Alive(t) /\ (c \in touched[t] \/ c > latest) BY DEF Onward
<1>2. latest \in Nat /\ c \in Nat BY DEF TypeOK
<1> QED BY <1>1, <1>2

\* A step of the server leaves the entry and the loads as true as they were.
LEMMA EntryStays ==
  ASSUME TypeOK, TypeOK', Inv, Onward, UNCHANGED <<loaded, asOf, tables>>
  PROVE  EntryInv'
<1>1. asOf \in Nat /\ latest \in Nat /\ latest' \in Nat /\ tables \in [Table -> Stats]
  BY DEF TypeOK
<1>2. asOf' <= latest' BY <1>1 DEF Onward, Inv, EntryInv
<1>3. Committed(tables)' BY CommittedStays DEF Inv, EntryInv, Committed
<1>4. loaded => Knows(tables, asOf)'
  <2>1. SUFFICES ASSUME loaded PROVE Knows(tables, asOf)' OBVIOUS
  <2>2. \A t \in Table : Alive(t) => \A c \in touched[t] : c <= asOf => c <= tables[t]
    BY <2>1 DEF Inv, EntryInv, Knows, Alive
  <2>3. asOf <= latest BY DEF Inv, EntryInv
  <2>4. \A t \in Table : Alive(t)' => \A c \in touched'[t] : c <= asOf => c <= tables[t]
    BY <1>1, <2>2, <2>3, KnowsStays
  <2> QED BY <2>4 DEF Knows, Alive
<1> QED BY <1>2, <1>3, <1>4 DEF EntryInv, Inv

LEMMA LoadStays ==
  ASSUME TypeOK, TypeOK', Inv, Onward, NEW p \in Reader,
         NEW q \in Load, LoadInv(p, q), q.pc # "idle" => wrote'[p] = {}
  PROVE  LoadInv(p, q)'
<1>1. /\ q.base \in Nat /\ q.last \in Nat /\ q.began \in Nat /\ q.stats \in [Table -> Stats]
      /\ q.reread \subseteq Table /\ q.todo \subseteq Table /\ q.dropped \subseteq Table
  BY DEF Load
<1>2. latest \in Nat /\ latest' \in Nat /\ latest <= latest' BY DEF TypeOK, Onward
<1>3. q.last <= latest' /\ q.began <= latest' BY <1>1, <1>2 DEF LoadInv
<1>4. Committed(q.stats)' BY CommittedStays DEF LoadInv, Committed
<1>5. \A t \in q.dropped : ~Alive(t)' BY <1>1 DEF LoadInv, Onward
<1>6. KnowsTheRest(q) => KnowsTheRest(q)'
  <2>1. SUFFICES ASSUME KnowsTheRest(q) PROVE KnowsTheRest(q)' OBVIOUS
  <2> DEFINE T == Table \ Pending(q)
  <2>2. \A t \in T : Alive(t) => \A c \in touched[t] : c <= q.last => c <= q.stats[t]
    BY <2>1 DEF KnowsTheRest
  <2>3. q.last <= latest BY DEF LoadInv
  <2>4. \A t \in T : Alive(t)' => \A c \in touched'[t] : c <= q.last => c <= q.stats[t]
    BY <1>1, <2>2, <2>3, KnowsStays
  <2> QED BY <2>4 DEF KnowsTheRest, Pending
<1> QED BY <1>3, <1>4, <1>5, <1>6 DEF LoadInv

LEMMA CopyStays ==
  ASSUME TypeOK, TypeOK', Onward, UNCHANGED <<loaded, asOf, tables>>,
         NEW q \in Load, CopyInv(q)
  PROVE  CopyInv(q)'
<1>1. latest \in Nat /\ latest' \in Nat /\ q.base \in Nat /\ asOf \in Nat BY DEF TypeOK, Load
<1>2. q.pc = "latest" /\ q.loaded => q.base < latest' BY <1>1 DEF CopyInv, Onward
<1>3. \A t \in Table : Alive(t)' => Alive(t) BY DEF Onward
<1> QED BY <1>2, <1>3 DEF CopyInv, Same

LEMMA InvServer ==
  ASSUME TypeOK, TypeOK', Inv, OrderInv,
         Commit \/ Expire \/ \E p \in Reader : Write(p) \/ EndTransaction(p)
  PROVE  Inv' /\ OrderInv'
<1>1. ASSUME Onward, ServerInv', UNCHANGED <<loaded, asOf, tables, rd>>,
             \A p \in Reader : rd[p].pc # "idle" => wrote'[p] = {}
      PROVE  Inv' /\ OrderInv'
  <2>1. EntryInv' BY <1>1, EntryStays
  <2>2. ASSUME NEW p \in Reader PROVE LoadInv(p, rd[p])' /\ CopyInv(rd[p])'
    <3>1. PICK q \in Load : q = rd[p] BY DEF TypeOK
    <3>2. LoadInv(p, q) /\ CopyInv(q) BY <3>1 DEF Inv, OrderInv
    <3>3. q.pc # "idle" => wrote'[p] = {} BY <1>1, <3>1
    <3>4. LoadInv(p, q)' /\ CopyInv(q)' BY <1>1, <3>2, <3>3, LoadStays, CopyStays
    <3>5. rd'[p] = q BY <1>1, <3>1
    <3> QED BY <3>4, <3>5
  <2> QED BY <1>1, <2>1, <2>2 DEF Inv, OrderInv
<1>2. latest \in Nat BY DEF TypeOK
<1>3. CASE Commit
  <2>1. PICK changed \in SUBSET {t \in Table : dropAt[t] = 0} :
          /\ touched' = [t \in Table |-> IF t \in changed THEN touched[t] \cup {latest + 1}
                                                          ELSE touched[t]]
          /\ stats' = [t \in Table |-> IF t \in changed THEN latest + 1 ELSE stats[t]]
          /\ \E gone \in SUBSET ({t \in Table : dropAt[t] = 0} \ changed) :
               dropAt' = [t \in Table |-> IF t \in gone THEN latest + 1 ELSE dropAt[t]]
    BY <1>3 DEF Commit
  <2>2. \A t \in Table : Alive(t)' => Alive(t) BY <1>2, <2>1 DEF Alive
  <2>3. latest' = latest + 1 /\ ids' = ids \cup {latest + 1} BY <1>3 DEF Commit
  <2>4. Onward BY <1>2, <2>1, <2>2, <2>3 DEF Onward
  <2>5. ASSUME NEW t \in Table
        PROVE  /\ \A c \in touched'[t] : c > 0 /\ c <= latest' /\ (Alive(t)' => c <= stats'[t])
               /\ stats'[t] \in touched'[t] \cup {Absent}
    <3>1. /\ \A c \in touched[t] : c > 0 /\ c <= latest /\ (Alive(t) => c <= stats[t])
          /\ stats[t] \in touched[t] \cup {Absent} /\ touched[t] \subseteq Nat
      BY DEF Inv, ServerInv, TypeOK
    <3>2. CASE t \in changed
      <4>1. touched'[t] = touched[t] \cup {latest + 1} /\ stats'[t] = latest + 1 BY <2>1, <3>2
      <4> QED BY <1>2, <2>3, <3>1, <4>1
    <3>3. CASE t \notin changed
      <4>1. touched'[t] = touched[t] /\ stats'[t] = stats[t] BY <2>1, <3>3
      <4> QED BY <1>2, <2>2, <2>3, <3>1, <4>1
    <3> QED BY <3>2, <3>3
  <2>6. latest' \in ids' /\ \A id \in ids' : id <= latest'
    BY <1>2, <2>3 DEF Inv, ServerInv, TypeOK
  <2>7. ServerInv' BY <2>5, <2>6 DEF ServerInv
  <2>8. \A p \in Reader : rd[p].pc # "idle" => wrote'[p] = {}
    BY <1>3 DEF Commit, Inv, LoadInv
  <2> QED BY <1>1, <1>3, <2>4, <2>7, <2>8 DEF Commit, entryVars
<1>4. CASE Expire
  <2>1. Onward BY <1>2, <1>4 DEF Expire, Onward, Alive
  <2>2. ServerInv' BY <1>4 DEF Expire, Inv, ServerInv, Alive
  <2>3. \A p \in Reader : rd[p].pc # "idle" => wrote'[p] = {}
    BY <1>4 DEF Expire, Inv, LoadInv
  <2> QED BY <1>1, <1>4, <2>1, <2>2, <2>3 DEF Expire, entryVars
<1>5. ASSUME NEW p \in Reader, Write(p) \/ EndTransaction(p) PROVE Inv' /\ OrderInv'
  <2>1. Onward BY <1>2, <1>5 DEF Write, EndTransaction, Onward, Alive, serverVars
  <2>2. ServerInv' BY <1>5 DEF Write, EndTransaction, Inv, ServerInv, Alive, serverVars
  <2>3. \A r \in Reader : rd[r].pc # "idle" => wrote'[r] = {}
    BY <1>5 DEF Write, EndTransaction, Inv, LoadInv, TypeOK
  <2> QED BY <1>1, <1>5, <2>1, <2>2, <2>3 DEF Write, EndTransaction, entryVars
<1> QED BY <1>3, <1>4, <1>5

-----------------------------------------------------------------------------
(* The inductive invariant: the entry and the loads *)

LEMMA NoStatsCommitted == Committed(NoStats)
BY DEF Committed, NoStats

LEMMA InvEvict == ASSUME TypeOK, TypeOK', Inv, OrderInv, Evict PROVE Inv' /\ OrderInv'
<1>1. ServerInv' BY DEF Evict, Inv, ServerInv, serverVars, Alive
<1>2. EntryInv'
  <2>1. loaded' = FALSE /\ asOf' = 0 /\ tables' = NoStats /\ latest' \in Nat
    BY DEF Evict, TypeOK
  <2>2. Committed(NoStats)' BY DEF Committed, NoStats
  <2> QED BY <2>1, <2>2 DEF EntryInv, Committed
<1>3. ASSUME NEW p \in Reader PROVE LoadInv(p, rd[p])' /\ CopyInv(rd[p])'
  <2>1. PICK q \in Load : q = rd[p] BY DEF TypeOK
  <2>2. LoadInv(p, q) /\ CopyInv(q) BY <2>1 DEF Inv, OrderInv
  <2>3. PICK n \in Load : n = rd'[p] BY DEF TypeOK
  <2>4. n = [q EXCEPT !.current = (q.pc = "idle")] BY <2>1, <2>3 DEF Evict
  <2>5. /\ n.pc = q.pc /\ n.began = q.began /\ n.loaded = q.loaded /\ n.base = q.base
        /\ n.last = q.last /\ n.reread = q.reread /\ n.dropped = q.dropped /\ n.todo = q.todo
        /\ n.stats = q.stats
    BY <2>4 DEF Load
  <2>6. n.current <=> q.pc = "idle" BY <2>4 DEF Load
  <2>7. LoadInv(p, n) BY <2>2, <2>5 DEF LoadInv, KnowsTheRest, Pending
  <2>8. LoadInv(p, n)' BY <2>7 DEF Evict, serverVars, LoadInv, Committed, Alive, KnowsTheRest
  <2>9. CopyInv(n)' BY <2>2, <2>5, <2>6 DEF Evict, serverVars, CopyInv, Same
  <2> QED BY <2>3, <2>8, <2>9
<1> QED BY <1>1, <1>2, <1>3 DEF Inv, OrderInv

\* A step of one load that leaves the entry alone disturbs no other load.
LEMMA LoadKeeps ==
  ASSUME TypeOK, TypeOK', Inv, OrderInv, NEW p \in Reader, NEW n \in Load,
         rd' = [rd EXCEPT ![p] = n], UNCHANGED <<serverVars, wrote>>,
         UNCHANGED <<loaded, asOf, tables>>, LoadInv(p, n), CopyInv(n)
  PROVE  Inv' /\ OrderInv'
<1>1. Onward BY DEF Onward, serverVars, Alive, TypeOK
<1>2. ServerInv' BY DEF Inv, ServerInv, serverVars, Alive
<1>3. EntryInv' BY <1>1, EntryStays
<1>4. ASSUME NEW r \in Reader PROVE LoadInv(r, rd[r])' /\ CopyInv(rd[r])'
  <2>1. PICK o \in Load : o = rd'[r] BY DEF TypeOK
  <2>2. LoadInv(r, o) /\ CopyInv(o) BY <2>1 DEF Inv, OrderInv, TypeOK
  <2>3. o.pc # "idle" => wrote'[r] = {} BY <2>2 DEF LoadInv
  <2>4. LoadInv(r, o)' /\ CopyInv(o)' BY <1>1, <2>2, <2>3, LoadStays, CopyStays
  <2> QED BY <2>1, <2>4
<1> QED BY <1>2, <1>3, <1>4 DEF Inv, OrderInv

LEMMA InvStart ==
  ASSUME TypeOK, TypeOK', Inv, OrderInv, NEW p \in Reader, Start(p) PROVE Inv' /\ OrderInv'
<1>1. PICK n \in Load : n = rd'[p] BY DEF TypeOK
<1>2. /\ n.pc = (IF loaded THEN "changes" ELSE "latest")
      /\ n.began = latest /\ n.loaded = loaded /\ n.base = asOf /\ n.last = asOf
      /\ n.stats = (IF loaded THEN tables ELSE NoStats) /\ n.current = TRUE
      /\ n.reread = {} /\ n.dropped = {} /\ n.todo = {}
  BY <1>1 DEF Start, Idle, TypeOK
<1>3. wrote[p] = {} BY DEF Start, ReadsPast
<1>4. latest \in Nat /\ asOf \in Nat /\ asOf <= latest BY DEF TypeOK, Inv, EntryInv
<1>5. Committed(n.stats) BY <1>2, NoStatsCommitted DEF Inv, EntryInv
<1>6. loaded => KnowsTheRest(n)
  BY <1>2 DEF Inv, EntryInv, Knows, KnowsTheRest, Alive
<1>7. LoadInv(p, n) BY <1>2, <1>3, <1>4, <1>5, <1>6 DEF LoadInv
<1>8. \A t \in Table : tables[t] <= tables[t] BY DEF TypeOK, Stats, Absent, Uncommitted
<1>9. CopyInv(n) BY <1>2, <1>4, <1>8 DEF CopyInv, Same
<1>10. rd' = [rd EXCEPT ![p] = n] BY <1>1 DEF Start, TypeOK
<1> QED BY <1>7, <1>9, <1>10, LoadKeeps DEF Start, entryVars

LEMMA InvReadChange ==
  ASSUME TypeOK, TypeOK', Inv, OrderInv, NEW p \in Reader, ReadChange(p)
  PROVE  Inv' /\ OrderInv'
<1>1. PICK q \in Load : q = rd[p] BY DEF TypeOK
<1>2. LoadInv(p, q) /\ CopyInv(q) BY <1>1 DEF Inv, OrderInv
<1>3. PICK n \in Load : n = rd'[p] BY DEF TypeOK
<1>4. PICK id \in ids :
        /\ IsNextChange(q, id)
        /\ IF Follows(q, id) /\ Reads(id)
           THEN rd' = [rd EXCEPT ![p] = [q EXCEPT !.last = id,
                                           !.reread = q.reread \cup ChangedBy(id),
                                           !.dropped = q.dropped \cup DroppedBy(id)]]
           ELSE rd' = [rd EXCEPT ![p] = [q EXCEPT !.pc = "latest"]]
  BY <1>1 DEF ReadChange
<1>5. id \in Nat /\ latest \in Nat /\ id > q.last /\ id <= latest
  BY <1>4 DEF TypeOK, Inv, ServerInv, IsNextChange
<1>6. /\ q.base \in Nat /\ q.last \in Nat /\ q.began \in Nat /\ q.stats \in [Table -> Stats]
      /\ q.dropped \subseteq Table
  BY DEF Load
<1>7. q.pc = "changes" BY <1>1 DEF ReadChange
<1>8. LoadInv(p, n) /\ CopyInv(n)
  <2>1. CASE Follows(q, id) /\ Reads(id)
    <3>1. n = [q EXCEPT !.last = id, !.reread = q.reread \cup ChangedBy(id),
                        !.dropped = q.dropped \cup DroppedBy(id)]
      BY <1>3, <1>4, <2>1 DEF TypeOK
    <3>2. /\ n.pc = "changes" /\ n.began = q.began /\ n.loaded = q.loaded /\ n.base = q.base
          /\ n.last = id /\ n.reread = q.reread \cup ChangedBy(id)
          /\ n.dropped = q.dropped \cup DroppedBy(id) /\ n.todo = q.todo
          /\ n.stats = q.stats /\ n.current = q.current
      BY <1>7, <3>1 DEF Load
    <3>3. KnowsTheRest(n)
      <4>1. SUFFICES ASSUME NEW t \in Table, Alive(t), t \notin n.reread,
                            NEW c \in touched[t], c <= id
                     PROVE  c <= q.stats[t]
        BY <3>2 DEF KnowsTheRest, Pending
      <4>2. c \in Nat /\ c # id BY <2>1, <3>2, <4>1 DEF ChangedBy, Reads, TypeOK
      <4>3. c <= q.last BY <1>6, <2>1, <4>1, <4>2 DEF Follows
      <4>4. t \notin q.reread BY <3>2, <4>1
      <4> QED BY <1>2, <1>7, <4>1, <4>3, <4>4 DEF LoadInv, KnowsTheRest, Pending
    <3>4. \A t \in n.dropped : ~Alive(t)
      BY <1>2, <1>5, <1>6, <3>2 DEF LoadInv, DroppedBy, Alive
    <3>5. LoadInv(p, n)
      BY <1>2, <1>5, <1>6, <1>7, <3>2, <3>3, <3>4 DEF LoadInv
    <3>6. n.base < n.last BY <1>2, <1>5, <1>6, <3>2 DEF LoadInv
    <3>7. CopyInv(n)
      BY <1>2, <1>6, <1>7, <3>2, <3>6 DEF CopyInv, Same
    <3> QED BY <3>5, <3>7
  <2>2. CASE ~(Follows(q, id) /\ Reads(id))
    <3>1. n = [q EXCEPT !.pc = "latest"] BY <1>3, <1>4, <2>2 DEF TypeOK
    <3>2. /\ n.pc = "latest" /\ n.began = q.began /\ n.loaded = q.loaded /\ n.base = q.base
          /\ n.last = q.last /\ n.dropped = q.dropped /\ n.stats = q.stats
          /\ n.current = q.current
      BY <3>1 DEF Load
    <3>3. LoadInv(p, n) BY <1>2, <1>7, <3>2 DEF LoadInv
    <3>4. n.base < latest BY <1>2, <1>5, <1>6, <3>2 DEF LoadInv
    <3>5. CopyInv(n) BY <1>2, <1>7, <3>2, <3>4 DEF CopyInv
    <3> QED BY <3>3, <3>5
  <2> QED BY <2>1, <2>2
<1>9. rd' = [rd EXCEPT ![p] = n] BY <1>3, <1>4 DEF TypeOK
<1> QED BY <1>8, <1>9, LoadKeeps DEF ReadChange, entryVars

LEMMA InvEndOfChanges ==
  ASSUME TypeOK, TypeOK', Inv, OrderInv, NEW p \in Reader, EndOfChanges(p)
  PROVE  Inv' /\ OrderInv'
<1>1. PICK q \in Load : q = rd[p] BY DEF TypeOK
<1>2. LoadInv(p, q) /\ CopyInv(q) BY <1>1 DEF Inv, OrderInv
<1>3. PICK n \in Load : n = rd'[p] BY DEF TypeOK
<1>4. /\ q.base \in Nat /\ q.last \in Nat /\ q.began \in Nat /\ q.stats \in [Table -> Stats]
      /\ q.dropped \subseteq Table /\ q.reread \subseteq Table
  BY DEF Load
<1>5. q.pc = "changes" /\ \A id \in ids : id <= q.last BY <1>1 DEF EndOfChanges
<1>6. latest <= q.last /\ latest \in Nat BY <1>5 DEF Inv, ServerInv, TypeOK
<1>7. LoadInv(p, n) /\ CopyInv(n)
  <2>1. CASE Cardinality(q.reread) > MaxRereads
    <3>1. n = [q EXCEPT !.pc = "latest"] BY <1>1, <1>3, <2>1 DEF EndOfChanges, TypeOK
    <3>2. /\ n.pc = "latest" /\ n.began = q.began /\ n.loaded = q.loaded /\ n.base = q.base
          /\ n.last = q.last /\ n.dropped = q.dropped /\ n.stats = q.stats
          /\ n.current = q.current
      BY <3>1 DEF Load
    <3>3. LoadInv(p, n) BY <1>2, <1>5, <3>2 DEF LoadInv
    <3>4. q.reread # {}
      <4>1. Cardinality({}) = 0 BY FS_EmptySet
      <4> QED BY <2>1, <4>1, StatsBoundsNat
    <3>5. n.base < latest BY <1>2, <1>4, <1>5, <1>6, <3>2, <3>4 DEF LoadInv, CopyInv
    <3>6. CopyInv(n) BY <1>2, <1>5, <3>2, <3>5 DEF CopyInv
    <3> QED BY <3>3, <3>6
  <2>2. CASE ~(Cardinality(q.reread) > MaxRereads)
    <3> DEFINE left == [t \in Table |-> IF t \in q.dropped THEN Absent ELSE q.stats[t]]
    <3>1. n = [q EXCEPT !.pc = "stats", !.todo = q.reread, !.stats = left]
      BY <1>1, <1>3, <2>2 DEF EndOfChanges, TypeOK
    <3>2. /\ n.pc = "stats" /\ n.began = q.began /\ n.loaded = q.loaded /\ n.base = q.base
          /\ n.last = q.last /\ n.dropped = q.dropped /\ n.todo = q.reread
          /\ n.current = q.current /\ n.stats = left
      BY <3>1 DEF Load
    <3>3. \A t \in Table : Alive(t) => n.stats[t] = q.stats[t] BY <1>2, <3>2 DEF LoadInv
    <3>4. Committed(n.stats) BY <1>2, <3>2 DEF LoadInv, Committed
    <3>5. KnowsTheRest(n)
      BY <1>2, <1>5, <3>2, <3>3 DEF LoadInv, KnowsTheRest, Pending
    <3>6. n.began <= n.last BY <1>2, <1>4, <1>6, <3>2 DEF LoadInv
    <3>7. LoadInv(p, n) BY <1>2, <1>5, <3>2, <3>4, <3>5, <3>6 DEF LoadInv
    <3>8. q.dropped = {} => n.stats = q.stats BY <1>4, <3>2
    <3> HIDE DEF left
    <3>9. Same(n) <=> Same(q) BY <3>2 DEF Same
    <3>10. ASSUME Same(n)
           PROVE  /\ \A t \in Table : Alive(t) /\ t \notin n.todo => tables[t] <= n.stats[t]
                  /\ n.loaded /\ n.base = n.last => n.todo = {} /\ n.stats = tables
      <4>1. \A t \in Table : Alive(t) => tables[t] <= n.stats[t]
        BY <1>2, <1>5, <3>3, <3>9, <3>10 DEF CopyInv, LoadInv
      <4>2. n.loaded /\ n.base = n.last => n.todo = {} /\ n.stats = tables
        BY <1>2, <1>5, <3>2, <3>8, <3>9, <3>10 DEF CopyInv
      <4> QED BY <4>1, <4>2
    <3>11. n.current => n.base <= asOf /\ (n.loaded => loaded)
      BY <1>2, <1>5, <3>2 DEF CopyInv
    <3> QED BY <3>2, <3>7, <3>10, <3>11 DEF CopyInv
  <2> QED BY <2>1, <2>2
<1>8. rd' = [rd EXCEPT ![p] = n] BY <1>3 DEF EndOfChanges, TypeOK
<1> QED BY <1>7, <1>8, LoadKeeps DEF EndOfChanges, entryVars

LEMMA InvReadLatest ==
  ASSUME TypeOK, TypeOK', Inv, OrderInv, NEW p \in Reader, ReadLatest(p)
  PROVE  Inv' /\ OrderInv'
<1>1. PICK q \in Load : q = rd[p] BY DEF TypeOK
<1>2. LoadInv(p, q) /\ CopyInv(q) BY <1>1 DEF Inv, OrderInv
<1>3. PICK n \in Load : n = rd'[p] BY DEF TypeOK
<1>4. q.base \in Nat /\ q.last \in Nat /\ q.began \in Nat /\ latest \in Nat BY DEF Load, TypeOK
<1>5. q.pc = "latest" BY <1>1 DEF ReadLatest
<1>6. n = [q EXCEPT !.pc = "stats", !.last = latest, !.todo = Table, !.stats = NoStats]
  BY <1>1, <1>3 DEF ReadLatest, TypeOK
<1>7. /\ n.pc = "stats" /\ n.began = q.began /\ n.loaded = q.loaded /\ n.base = q.base
      /\ n.last = latest /\ n.dropped = q.dropped /\ n.todo = Table
      /\ n.current = q.current /\ n.stats = NoStats
  BY <1>6 DEF Load
<1>8. KnowsTheRest(n) BY <1>7 DEF KnowsTheRest, Pending
<1>9. LoadInv(p, n) BY <1>2, <1>4, <1>5, <1>7, <1>8, NoStatsCommitted DEF LoadInv
<1>10. n.loaded => n.base # n.last BY <1>2, <1>4, <1>5, <1>7 DEF CopyInv
<1>11. CopyInv(n) BY <1>2, <1>5, <1>7, <1>10 DEF CopyInv
<1>12. rd' = [rd EXCEPT ![p] = n] BY <1>3 DEF ReadLatest, TypeOK
<1> QED BY <1>9, <1>11, <1>12, LoadKeeps DEF ReadLatest, entryVars

LEMMA InvReadStats ==
  ASSUME TypeOK, TypeOK', Inv, OrderInv, NEW p \in Reader, NEW t \in Table, ReadStats(p, t)
  PROVE  Inv' /\ OrderInv'
<1>1. PICK q \in Load : q = rd[p] BY DEF TypeOK
<1>2. LoadInv(p, q) /\ CopyInv(q) BY <1>1 DEF Inv, OrderInv
<1>3. PICK n \in Load : n = rd'[p] BY DEF TypeOK
<1>4. q.pc = "stats" /\ t \in q.todo BY <1>1 DEF ReadStats
<1>5. StatsSeenBy(p, t) = stats[t] BY <1>2, <1>4 DEF LoadInv, StatsSeenBy
<1>6. n = [q EXCEPT !.todo = q.todo \ {t}, !.stats = [q.stats EXCEPT ![t] = stats[t]]]
  BY <1>1, <1>3, <1>5 DEF ReadStats, TypeOK
<1>7. /\ n.pc = "stats" /\ n.began = q.began /\ n.loaded = q.loaded /\ n.base = q.base
      /\ n.last = q.last /\ n.dropped = q.dropped /\ n.todo = q.todo \ {t}
      /\ n.current = q.current /\ n.stats = [q.stats EXCEPT ![t] = stats[t]]
  BY <1>4, <1>6 DEF Load
<1>8. q.stats \in [Table -> Stats] BY DEF Load
<1>9. n.stats[t] = stats[t] /\ \A u \in Table : u # t => n.stats[u] = q.stats[u]
  BY <1>7, <1>8
<1>10. /\ stats[t] \in touched[t] \cup {Absent} /\ stats[t] \in Nat
       /\ Alive(t) => \A c \in touched[t] : c <= stats[t]
  BY DEF Inv, ServerInv, TypeOK
<1>11. Committed(n.stats) BY <1>2, <1>9, <1>10 DEF LoadInv, Committed
<1>12. KnowsTheRest(n)
  <2>1. KnowsTheRest(q) BY <1>2, <1>4 DEF LoadInv
  <2> QED BY <1>4, <1>7, <1>9, <1>10, <2>1 DEF KnowsTheRest, Pending
<1>13. LoadInv(p, n) BY <1>2, <1>4, <1>7, <1>11, <1>12 DEF LoadInv
<1>14. Alive(t) => tables[t] <= stats[t]
  <2>1. tables[t] \in touched[t] \cup {Absent} BY DEF Inv, EntryInv, Committed
  <2> QED BY <1>10, <2>1 DEF Absent
<1>15. ASSUME Same(n), NEW u \in Table, Alive(u), u \notin n.todo PROVE tables[u] <= n.stats[u]
  <2>1. CASE u = t BY <1>9, <1>14, <1>15, <2>1
  <2>2. CASE u # t
    <3>1. Same(q) /\ u \notin q.todo BY <1>7, <1>15, <2>2 DEF Same
    <3> QED BY <1>2, <1>4, <1>9, <1>15, <2>2, <3>1 DEF CopyInv
  <2> QED BY <2>1, <2>2
<1>16. ~(Same(q) /\ q.loaded /\ q.base = q.last) BY <1>2, <1>4 DEF CopyInv
<1>17. CopyInv(n) BY <1>2, <1>4, <1>7, <1>15, <1>16 DEF CopyInv, Same
<1>18. rd' = [rd EXCEPT ![p] = n] BY <1>3 DEF ReadStats, TypeOK
<1> QED BY <1>13, <1>17, <1>18, LoadKeeps DEF ReadStats, entryVars

LEMMA InvAnswer ==
  ASSUME TypeOK, TypeOK', Inv, OrderInv, NEW p \in Reader, Answer(p)
  PROVE  Inv' /\ OrderInv'
<1>1. PICK q \in Load : q = rd[p] BY DEF TypeOK
<1>2. LoadInv(p, q) /\ CopyInv(q) BY <1>1 DEF Inv, OrderInv
<1>3. PICK n \in Load : n = rd'[p] BY DEF TypeOK
<1>4. q.pc = "stats" /\ q.todo = {} BY <1>1 DEF Answer
<1>5. n = [q EXCEPT !.pc = "publish"] BY <1>1, <1>3 DEF Answer, TypeOK
<1>6. /\ n.pc = "publish" /\ n.began = q.began /\ n.loaded = q.loaded /\ n.base = q.base
      /\ n.last = q.last /\ n.dropped = q.dropped /\ n.todo = q.todo
      /\ n.current = q.current /\ n.stats = q.stats
  BY <1>5 DEF Load
<1>7. LoadInv(p, n) BY <1>2, <1>4, <1>6 DEF LoadInv, KnowsTheRest, Pending
<1>8. CopyInv(n) BY <1>2, <1>4, <1>6 DEF CopyInv, Same
<1>9. rd' = [rd EXCEPT ![p] = n] BY <1>3 DEF Answer, TypeOK
<1> QED BY <1>7, <1>8, <1>9, LoadKeeps DEF Answer, entryVars

LEMMA IdleInv == ASSUME TypeOK, Inv, NEW p \in Reader PROVE LoadInv(p, Idle) /\ CopyInv(Idle)
<1>1. Committed(Idle.stats) BY NoStatsCommitted DEF Idle
<1>2. latest \in Nat BY DEF TypeOK
<1> QED BY <1>1, <1>2 DEF Idle, LoadInv, CopyInv

\* A load that publishes moves the entry on, or leaves it as it is.
LEMMA PublishMoves ==
  ASSUME TypeOK, Inv, OrderInv, NEW p \in Reader, Publish(p)
  PROVE  \/ UNCHANGED <<loaded, asOf, tables>>
         \/ /\ loaded' = TRUE /\ asOf' = rd[p].last /\ tables' = rd[p].stats
            /\ loaded = rd[p].loaded /\ asOf = rd[p].base /\ asOf <= asOf'
            /\ rd[p].pc = "publish" /\ rd[p].todo = {}
            /\ \A t \in Table : Alive(t) => tables[t] <= tables'[t]
            /\ loaded /\ asOf' = asOf => tables' = tables
<1>1. PICK q \in Load : q = rd[p] BY DEF TypeOK
<1>2. LoadInv(p, q) /\ CopyInv(q) BY <1>1 DEF Inv, OrderInv
<1>3. q.pc = "publish" BY <1>1 DEF Publish
<1>4. q.todo = {} BY <1>2, <1>3 DEF LoadInv
<1>5. CASE q.current /\ Unmoved(q)
  <2>1. loaded' = TRUE /\ asOf' = q.last /\ tables' = q.stats
    BY <1>1, <1>5 DEF Publish, AsOfAfter
  <2>2. Same(q) /\ q.last >= asOf BY <1>5 DEF Unmoved, Same
  <2>3. asOf \in Nat /\ q.last \in Nat BY DEF TypeOK, Load
  <2>4. asOf <= asOf' BY <2>1, <2>2, <2>3
  <2>5. \A t \in Table : Alive(t) => tables[t] <= tables'[t]
    BY <1>2, <1>3, <1>4, <2>1, <2>2 DEF CopyInv
  <2>6. loaded /\ asOf' = asOf => tables' = tables
    BY <1>2, <1>3, <2>1, <2>2 DEF CopyInv, Same
  <2> QED BY <1>1, <1>3, <1>4, <2>1, <2>2, <2>4, <2>5, <2>6 DEF Same
<1>6. CASE ~(q.current /\ Unmoved(q)) BY <1>1, <1>6 DEF Publish
<1> QED BY <1>5, <1>6

LEMMA InvPublish ==
  ASSUME TypeOK, TypeOK', Inv, OrderInv, NEW p \in Reader, Publish(p)
  PROVE  Inv' /\ OrderInv'
<1>1. rd' = [rd EXCEPT ![p] = Idle] /\ UNCHANGED <<serverVars, wrote>> BY DEF Publish
<1>2. LoadInv(p, Idle) /\ CopyInv(Idle) BY IdleInv
<1>3. CASE UNCHANGED <<loaded, asOf, tables>>
  BY <1>1, <1>2, <1>3, IdleType, LoadKeeps
<1>4. CASE ~UNCHANGED <<loaded, asOf, tables>>
  <2>1. /\ loaded' = TRUE /\ asOf' = rd[p].last /\ tables' = rd[p].stats
        /\ loaded = rd[p].loaded /\ asOf = rd[p].base /\ asOf <= asOf'
        /\ rd[p].pc = "publish" /\ rd[p].todo = {}
        /\ loaded /\ asOf' = asOf => tables' = tables
    BY <1>4, PublishMoves
  <2>2. PICK q \in Load : q = rd[p] BY DEF TypeOK
  <2>3. LoadInv(p, q) BY <2>2 DEF Inv
  <2>4. ServerInv' BY <1>1 DEF Inv, ServerInv, serverVars, Alive
  <2>5. EntryInv'
    <3>1. asOf' <= latest' BY <1>1, <2>1, <2>2, <2>3 DEF LoadInv, serverVars
    <3>2. KnowsTheRest(q) /\ Pending(q) = {} BY <2>1, <2>2, <2>3 DEF LoadInv, Pending
    <3>3. Knows(tables, asOf)'
      BY <1>1, <2>1, <2>2, <3>2 DEF KnowsTheRest, Knows, Alive, serverVars
    <3>4. Committed(tables)' BY <1>1, <2>1, <2>2, <2>3 DEF LoadInv, Committed, serverVars
    <3> QED BY <2>1, <3>1, <3>3, <3>4 DEF EntryInv
  <2>6. Onward BY <1>1 DEF Onward, serverVars, Alive, TypeOK
  <2>7. ASSUME NEW r \in Reader PROVE LoadInv(r, rd[r])' /\ CopyInv(rd[r])'
    <3>1. PICK o \in Load : o = rd'[r] BY DEF TypeOK
    <3>2. LoadInv(r, o) /\ CopyInv(o) BY <1>1, <1>2, <3>1 DEF Inv, OrderInv, TypeOK
    <3>3. o.pc # "idle" => wrote'[r] = {} BY <1>1, <3>2 DEF LoadInv
    <3>4. LoadInv(r, o)' BY <2>6, <3>2, <3>3, LoadStays
    <3>5. o.base \in Nat /\ asOf \in Nat /\ asOf' \in Nat BY DEF Load, TypeOK
    <3>6. o.pc # "idle" /\ o.current => o.base <= asOf' BY <2>1, <3>2, <3>5 DEF CopyInv
    <3>7. ASSUME o.pc \in {"changes", "stats", "publish"}, Same(o)'
          PROVE  Same(o) /\ tables' = tables
      <4>1. o.current /\ o.loaded = TRUE /\ o.base = asOf' BY <2>1, <3>7 DEF Same
      <4>2. o.base <= asOf /\ loaded = TRUE BY <3>2, <3>7, <4>1 DEF CopyInv
      <4>3. asOf' = asOf BY <2>1, <3>5, <4>1, <4>2
      <4> QED BY <2>1, <4>1, <4>2, <4>3 DEF Same
    <3>8. /\ o.pc = "idle" => o.current
          /\ o.pc = "latest" /\ o.loaded => o.base < latest'
          /\ o.pc = "changes" /\ o.base = o.last => o.reread = {} /\ o.dropped = {}
      BY <1>1, <3>2 DEF CopyInv, serverVars
    <3>9. o.pc \in {"changes", "stats", "publish"} /\ Same(o)' =>
             /\ \A t \in Table : Alive(t)' /\ t \notin o.todo => tables'[t] <= o.stats[t]
             /\ o.loaded /\ o.base = o.last => o.todo = {} /\ o.stats = tables'
      BY <1>1, <3>2, <3>7 DEF CopyInv, serverVars, Alive
    <3>10. CopyInv(o)' BY <2>1, <3>6, <3>8, <3>9 DEF CopyInv
    <3> QED BY <3>1, <3>4, <3>10
  <2> QED BY <2>4, <2>5, <2>7 DEF Inv, OrderInv
<1> QED BY <1>3, <1>4

-----------------------------------------------------------------------------
(* The theorems *)

LEMMA IInvStep == IInv /\ [Next]_vars => IInv'
<1> SUFFICES ASSUME TypeOK, Inv, OrderInv, [Next]_vars PROVE IInv' BY DEF IInv
<1>1. TypeOK' BY TypeStep
<1>2. CASE UNCHANGED vars
  <2>1. Inv' BY <1>2 DEF vars, serverVars, entryVars, Inv, ServerInv, EntryInv, LoadInv, Alive,
          Committed, Knows, KnowsTheRest, Pending
  <2>2. OrderInv' BY <1>2 DEF vars, serverVars, entryVars, OrderInv, CopyInv, Same, Alive
  <2> QED BY <1>1, <2>1, <2>2 DEF IInv
<1>3. CASE Next
  <2>1. CASE Commit \/ Expire \/ \E p \in Reader : Write(p) \/ EndTransaction(p)
    BY <1>1, <2>1, InvServer DEF IInv
  <2>2. CASE Evict BY <1>1, <2>2, InvEvict DEF IInv
  <2>3. ASSUME NEW p \in Reader, GetGlobalTableStats(p) PROVE IInv'
    <3>1. CASE Start(p) BY <1>1, <3>1, InvStart DEF IInv
    <3>2. CASE ReadChange(p) BY <1>1, <3>2, InvReadChange DEF IInv
    <3>3. CASE EndOfChanges(p) BY <1>1, <3>3, InvEndOfChanges DEF IInv
    <3>4. CASE ReadLatest(p) BY <1>1, <3>4, InvReadLatest DEF IInv
    <3>5. ASSUME NEW t \in Table, ReadStats(p, t) PROVE IInv'
      BY <1>1, <3>5, InvReadStats DEF IInv
    <3>6. CASE Answer(p) BY <1>1, <3>6, InvAnswer DEF IInv
    <3>7. CASE Publish(p) BY <1>1, <3>7, InvPublish DEF IInv
    <3> QED BY <2>3, <3>1, <3>2, <3>3, <3>4, <3>5, <3>6, <3>7 DEF GetGlobalTableStats
  <2> QED BY <1>3, <2>1, <2>2, <2>3 DEF Next
<1> QED BY <1>2, <1>3

LEMMA IInvAlways == Spec => []IInv
<1>1. Init => IInv BY TypeInit, InvInit DEF IInv
<1> QED BY <1>1, IInvStep, PTL DEF Spec

\* The cache includes every change up to its snapshot, to any number of tables, whatever commits,
\* expiries and evictions interleave with the reads of any number of transactions: the comment
\* "reading it after could miss one for good" cannot come true.
THEOREM NoChangeMissed == Spec => []CacheMissesNoChange
<1>1. IInv => CacheMissesNoChange BY DEF IInv, Inv, EntryInv, CacheMissesNoChange
<1> QED BY <1>1, IInvAlways, PTL

\* A load's answer includes every commit before it began.
THEOREM AnswersCurrent == Spec => []AnswersAreCurrent
<1>1. IInv => AnswersAreCurrent
  <2>1. SUFFICES ASSUME IInv, NEW p \in Reader, rd[p].pc = "publish"
                 PROVE  Knows(rd[p].stats, rd[p].began)
    BY DEF AnswersAreCurrent
  <2>2. PICK q \in Load : q = rd[p] BY <2>1 DEF IInv, TypeOK
  <2>3. LoadInv(p, q) /\ q.pc = "publish" BY <2>1, <2>2 DEF IInv, Inv
  <2>4. KnowsTheRest(q) /\ Pending(q) = {} /\ q.began <= q.last
    BY <2>3 DEF LoadInv, Pending
  <2>5. q.began \in Nat /\ q.last \in Nat /\ \A t \in Table : touched[t] \subseteq Nat
    BY <2>1 DEF Load, IInv, TypeOK
  <2>6. ASSUME NEW t \in Table, Alive(t), NEW c \in touched[t], c <= q.began
        PROVE  c <= q.stats[t]
    <3>1. c \in Nat /\ c <= q.last BY <2>4, <2>5, <2>6
    <3> QED BY <2>4, <2>6, <3>1 DEF KnowsTheRest
  <2> QED BY <2>2, <2>6 DEF Knows, Alive
<1> QED BY <1>1, IInvAlways, PTL

\* Nothing a transaction may still roll back gets into the cache.
THEOREM NothingUncommitted == Spec => []OnlyCommittedStats
<1>1. IInv => OnlyCommittedStats
  BY DEF IInv, Inv, EntryInv, Committed, OnlyCommittedStats
<1> QED BY <1>1, IInvAlways, PTL

\* Between evictions the cache never moves back, in its snapshot or in the stats of any table.
THEOREM CacheMovesOn == Spec => CacheNeverMovesBack
<1> DEFINE Step ==
      evicted' = evicted =>
        /\ loaded => loaded'
        /\ asOf' >= asOf
        /\ \A t \in Table : dropAt[t] = 0 => tables'[t] >= tables[t]
<1>1. IInv /\ IInv' /\ [Next]_vars => Step
  <2> SUFFICES ASSUME TypeOK, TypeOK', Inv, OrderInv, [Next]_vars, evicted' = evicted
               PROVE  /\ loaded => loaded'
                      /\ asOf' >= asOf
                      /\ \A t \in Table : dropAt[t] = 0 => tables'[t] >= tables[t]
    BY DEF IInv
  <2>1. asOf \in Nat /\ asOf' \in Nat BY DEF TypeOK
  <2>2. \A t \in Table : tables[t] \in Int /\ tables'[t] \in Int
    BY DEF TypeOK, Stats, Absent, Uncommitted
  <2>3. ASSUME UNCHANGED <<loaded, asOf, tables>>
        PROVE  /\ loaded => loaded'
               /\ asOf' >= asOf
               /\ \A t \in Table : dropAt[t] = 0 => tables'[t] >= tables[t]
    BY <2>1, <2>2, <2>3
  <2>4. ~Evict BY DEF Evict, TypeOK
  <2>5. ASSUME NEW p \in Reader, Publish(p)
        PROVE  /\ loaded => loaded'
               /\ asOf' >= asOf
               /\ \A t \in Table : dropAt[t] = 0 => tables'[t] >= tables[t]
    BY <2>1, <2>2, <2>3, <2>5, PublishMoves DEF Alive
  <2>6. CASE ~\E p \in Reader : Publish(p)
    <3>1. UNCHANGED <<loaded, asOf, tables>>
      BY <2>4, <2>6 DEF Next, vars, entryVars, Commit, Expire, Write, EndTransaction,
         GetGlobalTableStats, Start, ReadChange, EndOfChanges, ReadLatest, ReadStats, Answer
    <3> QED BY <2>3, <3>1
  <2> QED BY <2>5, <2>6
<1>2. Spec => [][Step]_vars BY <1>1, IInvAlways, PTL DEF Spec
<1> QED BY <1>2 DEF CacheNeverMovesBack
=============================================================================
