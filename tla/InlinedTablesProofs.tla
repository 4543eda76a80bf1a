------------------------- MODULE InlinedTablesProofs -------------------------
(***************************************************************************)
(* Proofs about InlinedTables, for any commits, lake tables and crashes,   *)
(* where commits that may need an inlined table of one name do not         *)
(* overlap, and only a commit that finds its table registered may lose a   *)
(* deadlock.                                                               *)
(*                                                                         *)
(* The names of two commits under way differ, because their lake tables    *)
(* do; so what one found out about its name on the second connection - a   *)
(* leftover, no table, the table it made - is still so when its batch      *)
(* runs, and what the registry names is nobody's leftover.                 *)
(***************************************************************************)
EXTENDS InlinedTables, TLAPS

\* Commits of one kind on one lake table, and any two that create one, are apart.
OneNameApart == \A v, w \in Writer : Work[v] = Work[w] => <<v, w>> \in Apart

\* A commit that may lose a deadlock does not make its inlined table, or makes it with its lake table.
VictimsFind == \A w \in Victims : Work[w].kind = "insert" => Work[w].table \in Inlined

Name == (Nat \ {0}) \X Nat
Snapshot == [id : Nat \ {0}, schema : Nat, table : Nat]
Named == {"probe", "drop", "create", "batch", "written"}
Phase == {"build", "retry"} \cup Named \cup Ended
Attempt == [pc : Phase, base : Snapshot \cup {[id |-> 0]}, table : Nat, schema : Nat, name : Name \cup {<<>>},
            registers : BOOLEAN, leftover : BOOLEAN, known : [commit : Nat, name : Name] \cup {NoName}]
Creates(w) == Work[w].kind = "create"
Entry(t, name) == [table |-> t, name |-> name]

\* What the registry names is there, and an inlined table of a lake table that was there at first has
\* that table's columns.
ServerOK(s, reg, tab) ==
  /\ s \in Snapshot /\ Existing <= s.table
  /\ reg \subseteq [table : Nat, name : Name]
  /\ \A r \in reg : r.table = r.name[1] /\ r.table <= s.table /\ r.name \in DOMAIN tab
  /\ \A t \in Inlined : \E r \in reg : r.table = t
  /\ tab = [name \in DOMAIN tab |-> tab[name]] /\ DOMAIN tab \subseteq Name
  /\ \A name \in DOMAIN tab :
       /\ tab[name] = [columns |-> tab[name].columns, rows |-> tab[name].rows]
       /\ tab[name].rows \subseteq Writer
       /\ name[1] <= Existing => tab[name].columns = [kind |-> "insert", table |-> name[1]]

\* What commit w may rely on, with the attempt q, the snapshot s, the registry reg and the tables tab.
CommitOK(w, q, s, reg, tab) ==
  /\ q \in Attempt /\ q.pc # "refused"
  /\ q.pc = "idle" => q.known = NoName
  /\ q.pc \notin Ended => q.base \in Snapshot /\ q.base.id <= s.id /\ (Creates(w) => q.base.table = s.table)
  /\ q.pc \in Named =>
       /\ q.name \in Name /\ q.name[1] = q.table
       /\ q.table = (IF Creates(w) THEN s.table + 1 ELSE Work[w].table)
       /\ q.registers => \A r \in reg : r.table # q.table
       /\ ~q.registers => ~Creates(w) /\ Entry(q.table, q.name) \in reg
  /\ q.pc \in {"probe", "drop", "create"} => q.registers
  /\ q.pc = "drop" => q.name \in DOMAIN tab
  /\ q.pc = "create" => q.name \notin DOMAIN tab
  /\ q.pc \in {"batch", "written"} => q.name \in DOMAIN tab /\ tab[q.name].columns = Columns(w)
  /\ q.pc = "written" => q.base.id = s.id
  /\ q.pc = "committed" => Entry(q.table, q.name) \in reg /\ w \in tab[q.name].rows

\* The name remembered for a lake table that was there: good for the attempt it was made in, or registered.
Remembered(w, q, reg) == q.known # NoName /\ Entry(Work[w].table, q.known.name) \in reg
KnownOK(w, q, s, reg) ==
  ~Creates(w) =>
    /\ q.pc = "build" => q.known.commit # q.base.id + 1 \/ Remembered(w, q, reg)
    /\ q.pc \in Named => q.known.commit = q.base.id + 1 /\ (q.registers \/ Remembered(w, q, reg))
    /\ q.pc = "retry" => q.known.commit <= s.id \/ Remembered(w, q, reg)

\* One batch at a time is in, and commits under way differ in what they do.
PairsOK(t) ==
  \A v, w \in Writer : v # w =>
    /\ ~(t[v].pc = "written" /\ t[w].pc = "written")
    /\ t[v].pc \notin Ended /\ t[w].pc \notin Ended => Work[v] # Work[w]

CommitsOK == \A w \in Writer : CommitOK(w, tx[w], snapshot, registry, tables) /\ KnownOK(w, tx[w], snapshot, registry)

IInv ==
  /\ tx \in [Writer -> Attempt] /\ deadlocks \subseteq Victims /\ crashes \in 0 .. Crashes
  /\ ServerOK(snapshot, registry, tables)
  /\ CommitsOK
  /\ PairsOK(tx)

-----------------------------------------------------------------------------
(* Lemmas *)

\* The others, without one.
LEMMA Taken ==
  ASSUME NEW f, NEW name
  PROVE  LET g == Restrict(f, DOMAIN f \ {name})
         IN  /\ DOMAIN g = DOMAIN f \ {name} /\ g = [x \in DOMAIN g |-> g[x]]
             /\ \A x \in DOMAIN g : g[x] = f[x]
  BY DEF Restrict

\* What a commit does; a lake table that was there at first has a number up to Existing.
LEMMA WorkFacts ==
  ASSUME NEW w \in Writer
  PROVE  /\ Existing \in Nat
         /\ Creates(w) => Work[w] = [kind |-> "create"]
         /\ ~Creates(w) =>
              /\ Work[w].kind = "insert" /\ Work[w].table \in Nat \ {0} /\ Work[w].table <= Existing
              /\ Work[w] = [kind |-> "insert", table |-> Work[w].table]
              /\ Columns(w) = [kind |-> "insert", table |-> Work[w].table]
  <1>1. Work[w] = [kind |-> "create"] \/ \E t \in 1 .. Existing : Work[w] = [kind |-> "insert", table |-> t]
    BY InlinedAssumption
  <1>2. Existing \in Nat
    BY InlinedAssumption
  <1>3. CASE Work[w] = [kind |-> "create"]
    BY <1>2, <1>3 DEF Creates
  <1>4. ASSUME NEW t \in 1 .. Existing, Work[w] = [kind |-> "insert", table |-> t]
        PROVE  /\ ~Creates(w) /\ Work[w].kind = "insert" /\ Work[w].table = t
               /\ Columns(w) = [kind |-> "insert", table |-> t]
    BY <1>4 DEF Creates, Columns
  <1>5. \A t \in 1 .. Existing : t \in Nat \ {0} /\ t <= Existing
    BY <1>2
  <1> QED BY <1>1, <1>2, <1>3, <1>4, <1>5

\* What the invariant says of one commit.
LEMMA Facts ==
  ASSUME IInv, NEW w \in Writer
  PROVE  /\ tx[w] \in Attempt /\ CommitOK(w, tx[w], snapshot, registry, tables)
         /\ KnownOK(w, tx[w], snapshot, registry) /\ ServerOK(snapshot, registry, tables)
         /\ snapshot \in Snapshot
  BY DEF IInv, CommitsOK, ServerOK

\* Two commits under way that have a name each have different ones.
LEMMA NamesDiffer ==
  ASSUME IInv, NEW v \in Writer, NEW w \in Writer, v # w, tx[v].pc \in Named, tx[w].pc \in Named
  PROVE  tx[v].table # tx[w].table /\ tx[v].name # tx[w].name
  <1>1. Work[v] # Work[w]
    BY DEF IInv, PairsOK, Named, Ended
  <1>2. ASSUME NEW u \in Writer, tx[u].pc \in Named
        PROVE  /\ tx[u].table = (IF Creates(u) THEN snapshot.table + 1 ELSE Work[u].table)
               /\ tx[u].name[1] = tx[u].table
    BY <1>2, Facts DEF CommitOK
  <1>3. snapshot.table \in Nat /\ Existing <= snapshot.table
    BY Facts DEF ServerOK, Snapshot
  <1>4. tx[v].table # tx[w].table
    <2>1. CASE Creates(v) /\ Creates(w)
      BY <1>1, <2>1, WorkFacts
    <2>2. CASE ~Creates(v) /\ ~Creates(w)
      BY <1>1, <1>2, <2>2, WorkFacts
    <2>3. CASE Creates(v) /\ ~Creates(w)
      <3>1. tx[v].table = snapshot.table + 1 /\ tx[w].table = Work[w].table
        BY <1>2, <2>3
      <3>2. Work[w].table \in Nat /\ Work[w].table <= Existing /\ Existing \in Nat
        BY <2>3, WorkFacts
      <3> QED BY <1>3, <3>1, <3>2
    <2>4. CASE ~Creates(v) /\ Creates(w)
      <3>1. tx[w].table = snapshot.table + 1 /\ tx[v].table = Work[v].table
        BY <1>2, <2>4
      <3>2. Work[v].table \in Nat /\ Work[v].table <= Existing /\ Existing \in Nat
        BY <2>4, WorkFacts
      <3> QED BY <1>3, <3>1, <3>2
    <2> QED BY <2>1, <2>2, <2>3, <2>4
  <1> QED BY <1>2, <1>4

\* A step of commit w that leaves the server's state as it is.
LEMMA StepInv ==
  ASSUME IInv, NEW w \in Writer, NEW r \in Attempt, tx' = [tx EXCEPT ![w] = r],
         deadlocks' \subseteq Victims, crashes' \in 0 .. Crashes,
         ServerOK(snapshot', registry', tables'),
         CommitOK(w, r, snapshot', registry', tables'), KnownOK(w, r, snapshot', registry'),
         \A v \in Writer \ {w} : /\ CommitOK(v, tx[v], snapshot', registry', tables')
                                 /\ KnownOK(v, tx[v], snapshot', registry')
                                 /\ ~(r.pc = "written" /\ tx[v].pc = "written")
                                 /\ r.pc \notin Ended /\ tx[v].pc \notin Ended => Work[v] # Work[w]
  PROVE  IInv'
  <1>1. tx' \in [Writer -> Attempt] /\ \A v \in Writer : tx'[v] = IF v = w THEN r ELSE tx[v]
    BY DEF IInv
  <1>2. ASSUME NEW v \in Writer
        PROVE  CommitOK(v, tx'[v], snapshot', registry', tables') /\ KnownOK(v, tx'[v], snapshot', registry')
    BY <1>1
  <1>3. PairsOK(tx')
    BY <1>1 DEF IInv, PairsOK
  <1> QED BY <1>1, <1>2, <1>3 DEF IInv, CommitsOK

\* A step that changes only what its own commit knows.
LEMMA QuietStep ==
  ASSUME IInv, NEW w \in Writer, NEW r \in Attempt, tx' = [tx EXCEPT ![w] = r],
         UNCHANGED <<snapshot, registry, tables>>,
         deadlocks' \subseteq Victims, crashes' \in 0 .. Crashes,
         CommitOK(w, r, snapshot, registry, tables), KnownOK(w, r, snapshot, registry),
         r.pc # "written", r.pc \notin Ended => tx[w].pc \notin Ended
  PROVE  IInv'
  <1>1. \A v \in Writer \ {w} : r.pc \notin Ended /\ tx[v].pc \notin Ended => Work[v] # Work[w]
    BY DEF IInv, PairsOK
  <1> QED BY <1>1, Facts, StepInv

-----------------------------------------------------------------------------
(* The commit loop *)

\* A commit that begins is alone with its lake table.
LEMMA BeginStep ==
  ASSUME IInv, OneNameApart, NEW w \in Writer, Begin(w)
  PROVE  IInv'
  <1> DEFINE r == [tx[w] EXCEPT !.pc = "build", !.base = snapshot]
  <1>1. tx[w] \in Attempt /\ snapshot \in Snapshot /\ tx[w].pc = "idle" /\ tx[w].known = NoName
        /\ ServerOK(snapshot, registry, tables)
    BY Facts DEF Begin, CommitOK
  <1>2. r \in Attempt /\ r.pc = "build" /\ r.base = snapshot /\ r.known = NoName
    BY <1>1 DEF Attempt, Phase
  <1>3. tx' = [tx EXCEPT ![w] = r]
    BY DEF Begin
  <1> HIDE DEF r
  <1>4. \A v \in Writer \ {w} : tx[v].pc \notin Ended => Work[v] # Work[w]
    BY DEF Begin, OneNameApart
  <1>5. CommitOK(w, r, snapshot, registry, tables)
    BY <1>1, <1>2 DEF CommitOK, Ended, Named, Snapshot
  <1>6. KnownOK(w, r, snapshot, registry)
    BY <1>1, <1>2 DEF KnownOK, NoName, Named, Snapshot
  <1>7. UNCHANGED <<snapshot, registry, tables, deadlocks, crashes>>
    BY DEF Begin
  <1>8. deadlocks' \subseteq Victims /\ crashes' \in 0 .. Crashes
    BY <1>7 DEF IInv
  <1> QED BY <1>1, <1>2, <1>3, <1>4, <1>5, <1>6, <1>7, <1>8, Facts, StepInv

\* One that begins again remembers only a name that was registered.
LEMMA RetryStep ==
  ASSUME IInv, NEW w \in Writer, Retry(w)
  PROVE  IInv'
  <1> DEFINE r == [tx[w] EXCEPT !.pc = "build", !.base = snapshot]
  <1>1. tx[w] \in Attempt /\ snapshot \in Snapshot /\ tx[w].pc = "retry" /\ KnownOK(w, tx[w], snapshot, registry)
    BY Facts DEF Retry
  <1>2. r \in Attempt /\ r.pc = "build" /\ r.base = snapshot /\ r.known = tx[w].known
    BY <1>1 DEF Attempt, Phase
  <1>3. tx' = [tx EXCEPT ![w] = r] /\ UNCHANGED <<snapshot, registry, tables, deadlocks, crashes>>
    BY DEF Retry
  <1> HIDE DEF r
  <1>4. CommitOK(w, r, snapshot, registry, tables)
    BY <1>1, <1>2 DEF CommitOK, Ended, Named, Snapshot
  <1>5. KnownOK(w, r, snapshot, registry)
    <2>1. r.known.commit = snapshot.id + 1 => ~(r.known.commit <= snapshot.id)
      BY <1>1 DEF Snapshot
    <2> QED BY <1>1, <1>2, <2>1 DEF KnownOK, Remembered, Named
  <1>6. deadlocks' \subseteq Victims /\ crashes' \in 0 .. Crashes
    BY <1>3 DEF IInv
  <1> QED BY <1>1, <1>2, <1>3, <1>4, <1>5, <1>6, QuietStep DEF Ended

\* A lake table that is made has a number nobody else has.
LEMMA BuildCreateStep ==
  ASSUME IInv, NEW w \in Writer, BuildCreate(w)
  PROVE  IInv'
  <1> DEFINE b == tx[w].base
             name == <<b.table + 1, b.schema + 1>>
             known == [commit |-> b.id + 1, name |-> name]
             r == [tx[w] EXCEPT !.pc = "probe", !.table = b.table + 1, !.schema = b.schema + 1,
                                !.name = name, !.registers = TRUE, !.known = known]
  <1>1. /\ tx[w] \in Attempt /\ snapshot \in Snapshot /\ tx[w].pc = "build" /\ Creates(w)
        /\ CommitOK(w, tx[w], snapshot, registry, tables) /\ ServerOK(snapshot, registry, tables)
    BY Facts DEF BuildCreate, Creates
  <1>2. b \in Snapshot /\ b.table = snapshot.table /\ b.id <= snapshot.id
    BY <1>1 DEF CommitOK, Ended
  <1>3. /\ name \in Name /\ name[1] = b.table + 1 /\ known \in [commit : Nat, name : Name]
        /\ b.table + 1 \in Nat /\ b.schema + 1 \in Nat
    BY <1>2 DEF Name, Snapshot
  <1> HIDE DEF name, known
  <1>4. /\ r \in Attempt /\ r.pc = "probe" /\ r.base = b /\ r.table = b.table + 1 /\ r.name = name /\ r.registers
    BY <1>1, <1>3 DEF Attempt, Phase, Named
  <1>5. tx' = [tx EXCEPT ![w] = r] /\ UNCHANGED <<snapshot, registry, tables, deadlocks, crashes>>
    BY DEF BuildCreate, name, known
  <1> HIDE DEF r
  <1>6. \A e \in registry : e.table # r.table
    BY <1>1, <1>2, <1>4 DEF ServerOK, Snapshot
  <1>7. CommitOK(w, r, snapshot, registry, tables)
    BY <1>1, <1>2, <1>3, <1>4, <1>6 DEF CommitOK, Named, Ended
  <1>8. KnownOK(w, r, snapshot, registry)
    BY <1>1 DEF KnownOK
  <1>9. deadlocks' \subseteq Victims /\ crashes' \in 0 .. Crashes
    BY <1>5 DEF IInv
  <1> QED BY <1>1, <1>4, <1>5, <1>7, <1>8, <1>9, QuietStep DEF Ended

\* The name remembered, or the latest registered: either is in the registry.
LEMMA BuildFoundStep ==
  ASSUME IInv, NEW w \in Writer, BuildKnown(w) \/ BuildLatest(w)
  PROVE  IInv'
  <1> DEFINE b == tx[w].base
             t == Work[w].table
  <1>1. /\ tx[w] \in Attempt /\ snapshot \in Snapshot /\ tx[w].pc = "build" /\ ~Creates(w)
        /\ CommitOK(w, tx[w], snapshot, registry, tables) /\ KnownOK(w, tx[w], snapshot, registry)
        /\ ServerOK(snapshot, registry, tables)
        /\ UNCHANGED <<snapshot, registry, tables, deadlocks, crashes>>
    BY Facts DEF BuildKnown, BuildLatest, Creates
  <1>2. b \in Snapshot /\ b.id <= snapshot.id
    BY <1>1 DEF CommitOK, Ended
  <1>3. t \in Nat /\ t <= Existing /\ Columns(w) = [kind |-> "insert", table |-> t]
    BY <1>1, WorkFacts
  <1>4. ASSUME NEW r \in Attempt, NEW name, Entry(t, name) \in registry, tx' = [tx EXCEPT ![w] = r],
               r.pc = "batch", r.base = b, r.table = t, r.name = name, ~r.registers,
               r.known.commit = b.id + 1, r.known # NoName, r.known.name = name
        PROVE  IInv'
    <2>1. Entry(t, name).table = t /\ Entry(t, name).name = name
      BY DEF Entry
    <2>2. name \in Name /\ name[1] = t /\ name \in DOMAIN tables
      BY <1>1, <1>4, <2>1 DEF ServerOK
    <2>3. tables[name].columns = Columns(w)
      BY <1>1, <1>3, <2>2 DEF ServerOK
    <2>4. CommitOK(w, r, snapshot, registry, tables)
      BY <1>1, <1>2, <1>4, <2>2, <2>3 DEF CommitOK, Named, Ended
    <2>5. KnownOK(w, r, snapshot, registry)
      BY <1>4 DEF KnownOK, Remembered, Named
    <2>6. deadlocks' \subseteq Victims /\ crashes' \in 0 .. Crashes
      BY <1>1 DEF IInv
    <2> QED BY <1>1, <1>4, <2>4, <2>5, <2>6, QuietStep DEF Ended
  <1>5. CASE BuildKnown(w)
    <2> DEFINE r == [tx[w] EXCEPT !.pc = "batch", !.table = t, !.schema = b.schema,
                                  !.name = tx[w].known.name, !.registers = FALSE]
    <2>1. tx[w].known.commit = b.id + 1 /\ Remembered(w, tx[w], registry)
      BY <1>1, <1>5 DEF BuildKnown, IsKnown, KnownOK
    <2>2. tx[w].known \in [commit : Nat, name : Name] /\ Entry(t, tx[w].known.name) \in registry
      BY <1>1, <2>1 DEF Remembered, Attempt
    <2>3. /\ r \in Attempt /\ r.pc = "batch" /\ r.base = b /\ r.table = t /\ r.name = tx[w].known.name
          /\ ~r.registers /\ r.known = tx[w].known
      BY <1>1, <1>2, <1>3, <2>2 DEF Attempt, Phase, Named, Snapshot
    <2>4. tx' = [tx EXCEPT ![w] = r]
      BY <1>5 DEF BuildKnown
    <2> HIDE DEF r
    <2> QED BY <1>4, <2>1, <2>2, <2>3, <2>4 DEF Remembered
  <1>6. CASE BuildLatest(w)
    <2>1. PICK e \in Names(t) :
            tx' = [tx EXCEPT ![w].pc = "batch", ![w].table = e.table, ![w].schema = b.schema,
                             ![w].name = e.name, ![w].registers = FALSE,
                             ![w].known = [commit |-> b.id + 1, name |-> e.name]]
      BY <1>6 DEF BuildLatest
    <2>2. e \in registry /\ e.table = t /\ e.name \in Name /\ e = Entry(t, e.name)
      BY <1>1, <2>1 DEF Names, Entry, ServerOK
    <2> DEFINE known == [commit |-> b.id + 1, name |-> e.name]
               r == [tx[w] EXCEPT !.pc = "batch", !.table = e.table, !.schema = b.schema,
                                  !.name = e.name, !.registers = FALSE, !.known = known]
    <2>3. known \in [commit : Nat, name : Name] /\ known # NoName /\ known.commit = b.id + 1 /\ known.name = e.name
      <3>1. known \in [commit : Nat, name : Name] /\ known.commit = b.id + 1 /\ known.name = e.name
        BY <1>2, <2>2 DEF Snapshot
      <3>2. known.commit # NoName.commit
        BY <1>2, <3>1 DEF NoName, Snapshot
      <3> QED BY <3>1, <3>2
    <2> HIDE DEF known
    <2>4. /\ r \in Attempt /\ r.pc = "batch" /\ r.base = b /\ r.table = t /\ r.name = e.name
          /\ ~r.registers /\ r.known = known
      BY <1>1, <1>2, <1>3, <2>2, <2>3 DEF Attempt, Phase, Named, Snapshot
    <2>5. tx' = [tx EXCEPT ![w] = r]
      BY <2>1 DEF known
    <2> HIDE DEF r
    <2> QED BY <1>4, <2>2, <2>3, <2>4, <2>5
  <1> QED BY <1>5, <1>6

\* A first inlined table is named for its lake table.
LEMMA BuildFirstStep ==
  ASSUME IInv, NEW w \in Writer, BuildFirst(w)
  PROVE  IInv'
  <1> DEFINE b == tx[w].base
             t == Work[w].table
             name == <<t, b.schema + 1>>
             known == [commit |-> b.id + 1, name |-> name]
             r == [tx[w] EXCEPT !.pc = "probe", !.table = t, !.schema = b.schema + 1,
                                !.name = name, !.registers = TRUE, !.known = known]
  <1>1. /\ tx[w] \in Attempt /\ snapshot \in Snapshot /\ tx[w].pc = "build" /\ ~Creates(w)
        /\ CommitOK(w, tx[w], snapshot, registry, tables) /\ Names(t) = {}
    BY Facts DEF BuildFirst, Creates
  <1>2. b \in Snapshot /\ b.id <= snapshot.id
    BY <1>1 DEF CommitOK, Ended
  <1>3. t \in Nat \ {0}
    BY <1>1, WorkFacts
  <1>4. /\ name \in Name /\ name[1] = t /\ known \in [commit : Nat, name : Name] /\ known.commit = b.id + 1
        /\ b.schema + 1 \in Nat
    BY <1>2, <1>3 DEF Name, Snapshot
  <1> HIDE DEF name, known
  <1>5. /\ r \in Attempt /\ r.pc = "probe" /\ r.base = b /\ r.table = t /\ r.name = name /\ r.registers
        /\ r.known = known
    BY <1>1, <1>3, <1>4 DEF Attempt, Phase, Named
  <1>6. tx' = [tx EXCEPT ![w] = r] /\ UNCHANGED <<snapshot, registry, tables, deadlocks, crashes>>
    BY DEF BuildFirst, known, name
  <1> HIDE DEF r
  <1>7. \A e \in registry : e.table # t
    BY <1>1 DEF Names
  <1>8. CommitOK(w, r, snapshot, registry, tables)
    BY <1>1, <1>2, <1>4, <1>5, <1>7 DEF CommitOK, Named, Ended
  <1>9. KnownOK(w, r, snapshot, registry)
    BY <1>4, <1>5 DEF KnownOK, Named
  <1>10. deadlocks' \subseteq Victims /\ crashes' \in 0 .. Crashes
    BY <1>6 DEF IInv
  <1> QED BY <1>1, <1>5, <1>6, <1>8, <1>9, <1>10, QuietStep DEF Ended

-----------------------------------------------------------------------------
(* The second connection *)

\* What the probe finds stays so: the name is of this commit only.
LEMMA ProbeStep ==
  ASSUME IInv, NEW w \in Writer, Probe(w)
  PROVE  IInv'
  <1> DEFINE q == tx[w]
             r == [q EXCEPT !.leftover = IsLeftover(q.name),
                            !.pc = IF IsLeftover(q.name) THEN "drop" ELSE "create"]
  <1>1. /\ q \in Attempt /\ q.pc = "probe" /\ CommitOK(w, q, snapshot, registry, tables)
        /\ KnownOK(w, q, snapshot, registry) /\ ServerOK(snapshot, registry, tables)
    BY Facts DEF Probe
  <1>2. /\ r \in Attempt /\ r.pc = (IF IsLeftover(q.name) THEN "drop" ELSE "create")
        /\ r.base = q.base /\ r.table = q.table /\ r.name = q.name /\ r.registers = q.registers /\ r.known = q.known
    BY <1>1 DEF Attempt, Phase, Named, IsLeftover, Exists, Registered
  <1>3. tx' = [tx EXCEPT ![w] = r] /\ UNCHANGED <<snapshot, registry, tables, deadlocks, crashes>>
    BY DEF Probe
  <1> HIDE DEF r
  <1>4. ~Registered(q.name)
    BY <1>1 DEF CommitOK, ServerOK, Registered, Named
  <1>5. IF IsLeftover(q.name) THEN q.name \in DOMAIN tables ELSE q.name \notin DOMAIN tables
    BY <1>4 DEF IsLeftover, Exists
  <1>6. CommitOK(w, r, snapshot, registry, tables)
    BY <1>1, <1>2, <1>5 DEF CommitOK, Named, Ended
  <1>7. KnownOK(w, r, snapshot, registry)
    BY <1>1, <1>2 DEF KnownOK, Named, Remembered
  <1>8. deadlocks' \subseteq Victims /\ crashes' \in 0 .. Crashes
    BY <1>3 DEF IInv
  <1> QED BY <1>1, <1>2, <1>3, <1>6, <1>7, <1>8, QuietStep DEF Ended

\* What the other commits rely on when the table of one that registers it comes or goes.
LEMMA OthersStay ==
  ASSUME IInv, NEW w \in Writer, tx[w].pc \in Named, tx[w].registers, NEW tab,
         \A name \in Name \ {tx[w].name} :
            (name \in DOMAIN tab <=> name \in DOMAIN tables) /\ (name \in DOMAIN tables => tab[name] = tables[name])
  PROVE  \A v \in Writer \ {w} :
           CommitOK(v, tx[v], snapshot, registry, tab) /\ KnownOK(v, tx[v], snapshot, registry)
  <1> TAKE v \in Writer \ {w}
  <1>1. /\ tx[v] \in Attempt /\ CommitOK(v, tx[v], snapshot, registry, tables)
        /\ KnownOK(v, tx[v], snapshot, registry) /\ ServerOK(snapshot, registry, tables)
    BY Facts
  <1>2. CommitOK(w, tx[w], snapshot, registry, tables)
    BY Facts
  <1>3. tx[v].pc \in Named => tx[v].name \in Name \ {tx[w].name}
    BY <1>1, NamesDiffer DEF CommitOK
  <1>4. tx[v].pc = "committed" => tab[tx[v].name] = tables[tx[v].name]
    <2> SUFFICES ASSUME tx[v].pc = "committed" PROVE tab[tx[v].name] = tables[tx[v].name]
      OBVIOUS
    <2>1. Entry(tx[v].table, tx[v].name) \in registry
      BY <1>1 DEF CommitOK
    <2>2. tx[v].name \in Name /\ tx[v].name[1] = tx[v].table /\ tx[v].name \in DOMAIN tables
      BY <1>1, <2>1 DEF ServerOK, Entry
    <2>3. tx[v].table # tx[w].table
      BY <1>2, <2>1 DEF CommitOK, Entry
    <2> QED BY <1>2, <2>2, <2>3 DEF CommitOK
  <1>5. tx[v].pc \in {"drop", "create", "batch", "written"} =>
          /\ tx[v].name \in DOMAIN tab <=> tx[v].name \in DOMAIN tables
          /\ tx[v].name \in DOMAIN tables => tab[tx[v].name] = tables[tx[v].name]
    BY <1>3 DEF Named
  <1> QED BY <1>1, <1>4, <1>5 DEF CommitOK

\* What is dropped was a leftover.
LEMMA DropLeftoverStep ==
  ASSUME IInv, NEW w \in Writer, DropLeftover(w)
  PROVE  IInv'
  <1> DEFINE q == tx[w]
             r == [q EXCEPT !.pc = "create"]
             g == Restrict(tables, DOMAIN tables \ {q.name})
  <1>1. /\ q \in Attempt /\ q.pc = "drop" /\ CommitOK(w, q, snapshot, registry, tables)
        /\ KnownOK(w, q, snapshot, registry) /\ ServerOK(snapshot, registry, tables)
        /\ UNCHANGED <<snapshot, registry, deadlocks, crashes>> /\ tables' = g
    BY Facts DEF DropLeftover
  <1>2. q.name \in DOMAIN tables /\ q.registers /\ q.name \in Name /\ q.name[1] = q.table
        /\ \A e \in registry : e.table # q.table
    BY <1>1 DEF CommitOK, Named
  <1>3. tx' = [tx EXCEPT ![w] = r]
    BY <1>2 DEF DropLeftover, Exists
  <1>4. /\ r \in Attempt /\ r.pc = "create" /\ r.base = q.base /\ r.table = q.table /\ r.name = q.name
        /\ r.registers = q.registers /\ r.known = q.known
    BY <1>1 DEF Attempt, Phase, Named
  <1>5. /\ DOMAIN g = DOMAIN tables \ {q.name} /\ g = [x \in DOMAIN g |-> g[x]]
        /\ \A x \in DOMAIN g : g[x] = tables[x]
    BY Taken
  <1> HIDE DEF r, g
  <1>6. ServerOK(snapshot, registry, g)
    <2>1. \A e \in registry : e.name \in DOMAIN g
      BY <1>1, <1>2, <1>5 DEF ServerOK
    <2>2. /\ DOMAIN g \subseteq Name
          /\ \A name \in DOMAIN g :
               /\ g[name] = [columns |-> g[name].columns, rows |-> g[name].rows]
               /\ g[name].rows \subseteq Writer
               /\ name[1] <= Existing => g[name].columns = [kind |-> "insert", table |-> name[1]]
      BY <1>1, <1>5 DEF ServerOK
    <2> QED BY <1>1, <1>5, <2>1, <2>2 DEF ServerOK
  <1>7. CommitOK(w, r, snapshot, registry, g)
    BY <1>1, <1>2, <1>4, <1>5 DEF CommitOK, Named, Ended
  <1>8. KnownOK(w, r, snapshot, registry)
    BY <1>1, <1>4 DEF KnownOK, Named, Remembered
  <1>9. \A v \in Writer \ {w} :
          /\ CommitOK(v, tx[v], snapshot, registry, g) /\ KnownOK(v, tx[v], snapshot, registry)
          /\ r.pc \notin Ended /\ tx[v].pc \notin Ended => Work[v] # Work[w]
    <2>1. \A v \in Writer \ {w} : CommitOK(v, tx[v], snapshot, registry, g) /\ KnownOK(v, tx[v], snapshot, registry)
      <3>1. q.pc \in Named
        BY <1>1 DEF Named
      <3>2. \A name \in Name \ {q.name} :
              (name \in DOMAIN g <=> name \in DOMAIN tables) /\ (name \in DOMAIN tables => g[name] = tables[name])
        BY <1>5
      <3> QED BY <1>2, <3>1, <3>2, OthersStay
    <2>2. \A v \in Writer \ {w} : tx[v].pc \notin Ended => Work[v] # Work[w]
      BY <1>1 DEF IInv, PairsOK, Ended
    <2> QED BY <2>1, <2>2
  <1>10. deadlocks' \subseteq Victims /\ crashes' \in 0 .. Crashes
    BY <1>1 DEF IInv
  <1> QED BY <1>1, <1>3, <1>4, <1>6, <1>7, <1>8, <1>9, <1>10, StepInv

\* What is made is empty.
LEMMA CreateTableStep ==
  ASSUME IInv, NEW w \in Writer, CreateTable(w)
  PROVE  IInv'
  <1> DEFINE q == tx[w]
             r == [q EXCEPT !.pc = "batch"]
             g == WithTable(q.name, w)
  <1>1. /\ q \in Attempt /\ q.pc = "create" /\ CommitOK(w, q, snapshot, registry, tables)
        /\ KnownOK(w, q, snapshot, registry) /\ ServerOK(snapshot, registry, tables)
        /\ UNCHANGED <<snapshot, registry, deadlocks, crashes>> /\ tx' = [tx EXCEPT ![w] = r]
    BY Facts DEF CreateTable
  <1>2. /\ q.name \notin DOMAIN tables /\ q.registers /\ q.name \in Name /\ q.name[1] = q.table
        /\ q.table = (IF Creates(w) THEN snapshot.table + 1 ELSE Work[w].table)
    BY <1>1 DEF CommitOK, Named
  <1>3. tables' = g
    BY <1>2 DEF CreateTable, Exists
  <1>4. /\ r \in Attempt /\ r.pc = "batch" /\ r.base = q.base /\ r.table = q.table /\ r.name = q.name
        /\ r.registers = q.registers /\ r.known = q.known
    BY <1>1 DEF Attempt, Phase, Named
  <1>5. /\ DOMAIN g = {q.name} \cup DOMAIN tables /\ g = [x \in DOMAIN g |-> g[x]]
        /\ g[q.name] = [columns |-> Columns(w), rows |-> {}]
        /\ \A x \in DOMAIN tables : g[x] = tables[x]
    BY <1>2 DEF WithTable
  <1> HIDE DEF r, g
  <1>6. ServerOK(snapshot, registry, g)
    <2>1. q.name[1] <= Existing => Columns(w) = [kind |-> "insert", table |-> q.name[1]]
      <3>1. CASE Creates(w)
        <4>1. snapshot.table \in Nat /\ Existing <= snapshot.table /\ Existing \in Nat
          BY <1>1, WorkFacts DEF ServerOK, Snapshot
        <4> QED BY <1>2, <3>1, <4>1
      <3>2. CASE ~Creates(w)
        BY <1>2, <3>2, WorkFacts
      <3> QED BY <3>1, <3>2
    <2>2. /\ DOMAIN g \subseteq Name
          /\ \A name \in DOMAIN g :
               /\ g[name] = [columns |-> g[name].columns, rows |-> g[name].rows]
               /\ g[name].rows \subseteq Writer
               /\ name[1] <= Existing => g[name].columns = [kind |-> "insert", table |-> name[1]]
      BY <1>1, <1>2, <1>5, <2>1 DEF ServerOK
    <2>3. \A e \in registry : e.name \in DOMAIN g
      BY <1>1, <1>5 DEF ServerOK
    <2> QED BY <1>1, <1>5, <2>2, <2>3 DEF ServerOK
  <1>7. CommitOK(w, r, snapshot, registry, g)
    BY <1>1, <1>4, <1>5 DEF CommitOK, Named, Ended
  <1>8. KnownOK(w, r, snapshot, registry)
    BY <1>1, <1>4 DEF KnownOK, Named, Remembered
  <1>9. \A v \in Writer \ {w} : CommitOK(v, tx[v], snapshot, registry, g) /\ KnownOK(v, tx[v], snapshot, registry)
    <2>1. q.pc \in Named
      BY <1>1 DEF Named
    <2>2. \A name \in Name \ {q.name} :
            (name \in DOMAIN g <=> name \in DOMAIN tables) /\ (name \in DOMAIN tables => g[name] = tables[name])
      BY <1>5
    <2> QED BY <1>2, <2>1, <2>2, OthersStay
  <1>10. \A v \in Writer \ {w} : tx[v].pc \notin Ended => Work[v] # Work[w]
    BY <1>1 DEF IInv, PairsOK, Ended
  <1>11. deadlocks' \subseteq Victims /\ crashes' \in 0 .. Crashes
    BY <1>1 DEF IInv
  <1> QED BY <1>1, <1>3, <1>4, <1>6, <1>7, <1>8, <1>9, <1>10, <1>11, StepInv

-----------------------------------------------------------------------------
(* The batch *)

\* The batch is never refused, waits for the one before it, or is tried again.
LEMMA BatchSteps ==
  ASSUME IInv, VictimsFind, NEW w \in Writer, RunBatch(w) \/ BatchConflicts(w) \/ Deadlocked(w)
  PROVE  IInv'
  <1> DEFINE q == tx[w]
             r(pc) == [q EXCEPT !.pc = pc]
  <1>1. /\ q \in Attempt /\ q.pc = "batch" /\ CommitOK(w, q, snapshot, registry, tables)
        /\ KnownOK(w, q, snapshot, registry) /\ ServerOK(snapshot, registry, tables) /\ snapshot \in Snapshot
        /\ UNCHANGED <<snapshot, registry, tables>>
        /\ deadlocks' \subseteq Victims /\ crashes' \in 0 .. Crashes
    BY Facts DEF RunBatch, BatchConflicts, Deadlocked, IInv
  <1>2. \A pc \in {"written", "retry"} :
          /\ r(pc) \in Attempt /\ r(pc).pc = pc /\ r(pc).base = q.base /\ r(pc).table = q.table
          /\ r(pc).name = q.name /\ r(pc).registers = q.registers /\ r(pc).known = q.known
    BY <1>1 DEF Attempt, Phase, Named
  <1>3. q.base \in Snapshot /\ q.base.id <= snapshot.id
    BY <1>1 DEF CommitOK, Ended
  <1> HIDE DEF r
  <1>4. CASE RunBatch(w)
    <2>1. Writable(w)
      BY <1>1 DEF Writable, Exists, CommitOK
    <2>2. /\ tx' = [tx EXCEPT ![w] = r("written")] /\ q.base.id = snapshot.id
          /\ \A v \in Written : tx[v].base.id # q.base.id
      BY <1>4, <2>1 DEF RunBatch, r
    <2>3. \A v \in Writer : tx[v].pc # "written"
      BY <2>2, Facts DEF Written, CommitOK
    <2>4. CommitOK(w, r("written"), snapshot, registry, tables) /\ KnownOK(w, r("written"), snapshot, registry)
      BY <1>1, <1>2, <2>2 DEF CommitOK, KnownOK, Named, Ended, Remembered
    <2>5. \A v \in Writer \ {w} : tx[v].pc \notin Ended => Work[v] # Work[w]
      BY <1>1 DEF IInv, PairsOK, Ended
    <2> QED BY <1>1, <1>2, <2>2, <2>3, <2>4, <2>5, Facts, StepInv
  <1>5. ASSUME tx' = [tx EXCEPT ![w] = r("retry")],
               ~Creates(w) => q.known.commit <= snapshot.id \/ Remembered(w, q, registry)
        PROVE  IInv'
    <2>1. CommitOK(w, r("retry"), snapshot, registry, tables)
      BY <1>1, <1>2 DEF CommitOK, Named, Ended
    <2>2. KnownOK(w, r("retry"), snapshot, registry)
      BY <1>2, <1>5 DEF KnownOK, Named, Remembered
    <2> QED BY <1>1, <1>2, <1>5, <2>1, <2>2, QuietStep DEF Ended
  <1>6. CASE BatchConflicts(w)
    <2>1. tx' = [tx EXCEPT ![w] = r("retry")] /\ q.base.id < snapshot.id
      BY <1>6 DEF BatchConflicts, r
    <2>2. ~Creates(w) => q.known.commit = q.base.id + 1
      BY <1>1 DEF KnownOK, Named
    <2>3. q.base.id + 1 <= snapshot.id
      BY <1>1, <1>3, <2>1 DEF Snapshot
    <2> QED BY <1>5, <2>1, <2>2, <2>3
  <1>7. CASE Deadlocked(w)
    <2>1. tx' = [tx EXCEPT ![w] = r("retry")] /\ w \in Victims
      BY <1>7 DEF Deadlocked, r
    <2>2. ~Creates(w) => Remembered(w, q, registry)
      <3> SUFFICES ASSUME ~Creates(w) PROVE Remembered(w, q, registry)
        OBVIOUS
      <3>1. Work[w].table \in Inlined
        BY <2>1, WorkFacts DEF VictimsFind
      <3>2. q.table = Work[w].table /\ \E e \in registry : e.table = q.table
        BY <1>1, <3>1 DEF CommitOK, ServerOK, Named
      <3> QED BY <1>1, <3>2 DEF CommitOK, KnownOK, Named
    <2> QED BY <1>5, <2>1, <2>2
  <1> QED BY <1>4, <1>6, <1>7

\* What a commit registers it has filled.
LEMMA CommitStep ==
  ASSUME IInv, NEW w \in Writer, Commit(w)
  PROVE  IInv'
  <1> DEFINE q == tx[w]
             r == [q EXCEPT !.pc = "committed"]
             s == [id |-> q.base.id + 1, schema |-> q.schema,
                   table |-> IF Creates(w) THEN q.table ELSE snapshot.table]
             reg == registry \cup (IF q.registers THEN {Entry(q.table, q.name)} ELSE {})
             g == [tables EXCEPT ![q.name].rows = @ \cup {w}]
  <1>1. /\ q \in Attempt /\ q.pc = "written" /\ CommitOK(w, q, snapshot, registry, tables)
        /\ ServerOK(snapshot, registry, tables) /\ snapshot \in Snapshot
    BY Facts DEF Commit
  <1>2. /\ snapshot' = s /\ registry' = reg /\ tables' = g /\ tx' = [tx EXCEPT ![w] = r]
        /\ UNCHANGED <<deadlocks, crashes>>
    BY DEF Commit, Creates, Entry
  <1>3. /\ q.name \in Name /\ q.name[1] = q.table /\ q.name \in DOMAIN tables
        /\ q.table = (IF Creates(w) THEN snapshot.table + 1 ELSE Work[w].table)
        /\ q.registers => \A e \in registry : e.table # q.table
        /\ ~q.registers => ~Creates(w) /\ Entry(q.table, q.name) \in registry
        /\ q.base.id = snapshot.id
    BY <1>1 DEF CommitOK, Named
  <1>4. r \in Attempt /\ r.pc = "committed" /\ r.table = q.table /\ r.name = q.name
    BY <1>1 DEF Attempt, Phase, Ended
  <1>5. /\ s \in Snapshot /\ s.id = snapshot.id + 1 /\ s.table = (IF Creates(w) THEN snapshot.table + 1 ELSE snapshot.table)
        /\ snapshot.table <= s.table /\ q.table \in Nat /\ q.table <= s.table
    <2>1. q.schema \in Nat /\ q.table \in Nat /\ snapshot.id \in Nat /\ snapshot.table \in Nat
      BY <1>1 DEF Attempt, Snapshot
    <2>2. ~Creates(w) => q.table <= snapshot.table
      <3>1. Existing <= snapshot.table /\ Existing \in Nat
        BY <1>1, WorkFacts DEF ServerOK
      <3>2. ~Creates(w) => q.table = Work[w].table /\ Work[w].table <= Existing
        BY <1>3, WorkFacts
      <3> QED BY <2>1, <3>1, <3>2
    <2>3. s.id = snapshot.id + 1 /\ s.schema = q.schema
          /\ s.table = (IF Creates(w) THEN snapshot.table + 1 ELSE snapshot.table)
      BY <1>3
    <2>4. s.id \in Nat \ {0} /\ s.schema \in Nat /\ s.table \in Nat
      BY <2>1, <2>3
    <2>5. s \in Snapshot
      BY <2>4 DEF Snapshot
    <2> HIDE DEF s
    <2> QED BY <1>3, <2>1, <2>2, <2>3, <2>5
  <1>6. /\ DOMAIN g = DOMAIN tables /\ g = [x \in DOMAIN g |-> g[x]]
        /\ \A x \in DOMAIN tables \ {q.name} : g[x] = tables[x]
        /\ g[q.name] = [columns |-> tables[q.name].columns, rows |-> tables[q.name].rows \cup {w}]
    <2>1. tables = [x \in DOMAIN tables |-> tables[x]]
          /\ tables[q.name] = [columns |-> tables[q.name].columns, rows |-> tables[q.name].rows]
      BY <1>1, <1>3 DEF ServerOK
    <2>2. g = [x \in DOMAIN tables |-> IF x = q.name THEN [tables[q.name] EXCEPT !.rows = @ \cup {w}] ELSE tables[x]]
      OBVIOUS
    <2>3. PICK columns, rows : tables[q.name] = [columns |-> columns, rows |-> rows]
      BY <2>1
    <2>4. [tables[q.name] EXCEPT !.rows = @ \cup {w}] = [columns |-> columns, rows |-> rows \cup {w}]
      BY <2>3
    <2>5. tables[q.name].columns = columns /\ tables[q.name].rows = rows
      BY <2>3
    <2> HIDE DEF g
    <2> QED BY <1>3, <2>2, <2>4, <2>5
  <1>7. Entry(q.table, q.name).table = q.table /\ Entry(q.table, q.name).name = q.name
    BY DEF Entry
  <1>8. \A e \in reg : e \in registry \/ (e = Entry(q.table, q.name) /\ q.registers)
    OBVIOUS
  <1>9. registry \subseteq reg /\ Entry(q.table, q.name) \in reg
    BY <1>3
  <1> HIDE DEF r, s, reg, g
  <1>10. ServerOK(s, reg, g)
    <2>1. /\ reg \subseteq [table : Nat, name : Name]
          /\ \A e \in reg : e.table = e.name[1] /\ e.table <= s.table /\ e.name \in DOMAIN g
      <3> SUFFICES ASSUME NEW e \in reg
                   PROVE  /\ e \in [table : Nat, name : Name]
                          /\ e.table = e.name[1] /\ e.table <= s.table /\ e.name \in DOMAIN g
        OBVIOUS
      <3>1. CASE e \in registry
        <4>1. e \in [table : Nat, name : Name] /\ e.table = e.name[1] /\ e.table <= snapshot.table /\ e.name \in DOMAIN g
          BY <1>1, <1>6, <3>1 DEF ServerOK
        <4>2. e.table \in Nat /\ s.table \in Nat /\ snapshot.table \in Nat
          BY <1>1, <1>5, <4>1 DEF Snapshot
        <4> QED BY <1>5, <4>1, <4>2
      <3>2. CASE e = Entry(q.table, q.name)
        BY <1>3, <1>5, <1>6, <1>7, <3>2 DEF Entry
      <3> QED BY <1>8, <3>1, <3>2
    <2>2. Existing <= s.table
      <3>1. Existing <= snapshot.table /\ Existing \in Nat /\ snapshot.table \in Nat /\ s.table \in Nat
        BY <1>1, <1>5, WorkFacts DEF ServerOK, Snapshot
      <3> QED BY <1>5, <3>1
    <2>3. \A t \in Inlined : \E e \in reg : e.table = t
      BY <1>1, <1>9 DEF ServerOK
    <2>4. /\ DOMAIN g \subseteq Name
          /\ \A name \in DOMAIN g :
               /\ g[name] = [columns |-> g[name].columns, rows |-> g[name].rows]
               /\ g[name].rows \subseteq Writer
               /\ name[1] <= Existing => g[name].columns = [kind |-> "insert", table |-> name[1]]
      BY <1>1, <1>3, <1>6 DEF ServerOK
    <2> QED BY <1>5, <1>6, <2>1, <2>2, <2>3, <2>4 DEF ServerOK
  <1>11. CommitOK(w, r, s, reg, g)
    BY <1>1, <1>4, <1>6, <1>9 DEF CommitOK, Named, Ended
  <1>12. KnownOK(w, r, s, reg)
    BY <1>4 DEF KnownOK, Named
  <1>13. ASSUME NEW v \in Writer \ {w}
         PROVE  CommitOK(v, tx[v], s, reg, g) /\ KnownOK(v, tx[v], s, reg)
    <2> DEFINE p == tx[v]
    <2>1. /\ p \in Attempt /\ CommitOK(v, p, snapshot, registry, tables) /\ KnownOK(v, p, snapshot, registry)
      BY Facts
    <2>2. p.pc # "written" /\ (p.pc \notin Ended => ~(Creates(v) /\ Creates(w)))
      <3>1. p.pc # "written" /\ (p.pc \notin Ended => Work[v] # Work[w])
        BY <1>1 DEF IInv, PairsOK, Ended
      <3> QED BY <3>1, WorkFacts
    <2>3. p.pc \notin Ended =>
            p.base \in Snapshot /\ p.base.id <= s.id /\ (Creates(v) => p.base.table = s.table)
      <3>1. p.pc \notin Ended => p.base \in Snapshot /\ p.base.id <= snapshot.id
        BY <2>1 DEF CommitOK
      <3>2. p.pc \notin Ended => p.base.id <= s.id
        BY <1>1, <1>5, <3>1 DEF Snapshot
      <3> QED BY <1>5, <2>1, <2>2, <3>1, <3>2 DEF CommitOK
    <2>4. p.pc \in Named =>
            /\ p.table = (IF Creates(v) THEN s.table + 1 ELSE Work[v].table)
            /\ p.registers => \A e \in reg : e.table # p.table
      <3> SUFFICES ASSUME p.pc \in Named
                   PROVE  /\ p.table = (IF Creates(v) THEN s.table + 1 ELSE Work[v].table)
                          /\ p.registers => \A e \in reg : e.table # p.table
        OBVIOUS
      <3>1. p.table # q.table
        BY <1>1, NamesDiffer DEF Named
      <3>2. p.pc \notin Ended
        BY DEF Named, Ended
      <3>3. p.table = (IF Creates(v) THEN s.table + 1 ELSE Work[v].table)
        BY <1>5, <2>1, <2>2, <3>2 DEF CommitOK
      <3>4. p.registers => \A e \in registry : e.table # p.table
        BY <2>1 DEF CommitOK
      <3> QED BY <1>7, <1>8, <3>1, <3>3, <3>4
    <2>5. \A name \in DOMAIN tables : tables[name].columns = g[name].columns /\ tables[name].rows \subseteq g[name].rows
      BY <1>6
    <2>6. p.pc = "committed" => p.name \in DOMAIN tables
      BY <1>1, <2>1 DEF CommitOK, ServerOK, Entry
    <2>7. CommitOK(v, p, s, reg, g)
      BY <1>6, <1>9, <2>1, <2>2, <2>3, <2>4, <2>5, <2>6 DEF CommitOK
    <2>8. KnownOK(v, p, s, reg)
      <3>1. Remembered(v, p, registry) => Remembered(v, p, reg)
        BY <1>9 DEF Remembered
      <3>2. p.known.commit \in Nat
        BY <2>1 DEF Attempt, NoName
      <3>3. p.known.commit <= snapshot.id => p.known.commit <= s.id
        BY <1>1, <1>5, <3>2 DEF Snapshot
      <3> QED BY <2>1, <3>1, <3>3 DEF KnownOK
    <2> QED BY <2>7, <2>8
  <1>14. \A v \in Writer \ {w} : r.pc # "written" /\ r.pc \in Ended
    BY <1>4 DEF Ended
  <1>15. deadlocks' \subseteq Victims /\ crashes' \in 0 .. Crashes
    BY <1>2 DEF IInv
  <1> QED BY <1>2, <1>4, <1>10, <1>11, <1>12, <1>13, <1>14, <1>15, StepInv

\* A commit that ends halfway leaves a leftover.
LEMMA CrashStep ==
  ASSUME IInv, NEW w \in Writer, Crash(w)
  PROVE  IInv'
  <1> DEFINE r == [Idle EXCEPT !.pc = "gone"]
  <1>1. r \in Attempt /\ r.pc = "gone"
    BY DEF Idle, Attempt, Phase, Ended, NoName
  <1>2. /\ UNCHANGED <<snapshot, registry, tables, deadlocks>> /\ tx' = [tx EXCEPT ![w] = r]
        /\ crashes < Crashes /\ crashes' = crashes + 1
    BY DEF Crash
  <1> HIDE DEF r
  <1>3. CommitOK(w, r, snapshot, registry, tables) /\ KnownOK(w, r, snapshot, registry)
    BY <1>1 DEF CommitOK, KnownOK, Named, Ended
  <1>4. deadlocks' \subseteq Victims /\ crashes' \in 0 .. Crashes
    BY <1>2, InlinedAssumption DEF IInv
  <1> QED BY <1>1, <1>2, <1>3, <1>4, QuietStep DEF Ended

-----------------------------------------------------------------------------
(* The invariant *)

\* At the start every registered table is there.
LEMMA InitInv == Init => IInv
  <1> SUFFICES ASSUME Init PROVE IInv
    OBVIOUS
  <1>1. Existing \in Nat /\ Inlined \subseteq 1 .. Existing /\ Crashes \in Nat
    BY InlinedAssumption
  <1>2. snapshot = [id |-> 1, schema |-> 1, table |-> Existing] /\ snapshot \in Snapshot
    BY <1>1 DEF Init, Snapshot
  <1>3. registry = {Entry(t, <<t, 1>>) : t \in Inlined} /\ DOMAIN tables = Inlined \X {1}
        /\ tables = [name \in DOMAIN tables |-> tables[name]]
        /\ \A name \in DOMAIN tables :
              tables[name] = [columns |-> [kind |-> "insert", table |-> name[1]], rows |-> {}]
    BY DEF Init, Entry
  <1>4. \A t \in Inlined : /\ t \in Nat \ {0} /\ t <= Existing /\ <<t, 1>> \in Name /\ <<t, 1>>[1] = t
                           /\ Entry(t, <<t, 1>>).table = t /\ Entry(t, <<t, 1>>).name = <<t, 1>>
                           /\ Entry(t, <<t, 1>>) \in [table : Nat, name : Name]
                           /\ <<t, 1>> \in DOMAIN tables
    BY <1>1, <1>3 DEF Name, Entry
  <1>5. ServerOK(snapshot, registry, tables)
    <2>1. /\ registry \subseteq [table : Nat, name : Name]
          /\ \A e \in registry : e.table = e.name[1] /\ e.table <= snapshot.table /\ e.name \in DOMAIN tables
          /\ \A t \in Inlined : \E e \in registry : e.table = t
      <3>1. ASSUME NEW e \in registry
            PROVE  /\ e \in [table : Nat, name : Name] /\ e.name \in DOMAIN tables
                   /\ e.table = e.name[1] /\ e.table <= snapshot.table
        <4>1. PICK t \in Inlined : e = Entry(t, <<t, 1>>)
          BY <1>3
        <4>2. snapshot.table = Existing
          BY <1>2
        <4> QED BY <1>4, <4>1, <4>2
      <3>2. ASSUME NEW t \in Inlined PROVE \E e \in registry : e.table = t
        <4>1. Entry(t, <<t, 1>>) \in registry
          BY <1>3
        <4> QED BY <1>4, <4>1
      <3> QED BY <3>1, <3>2
    <2>2. /\ DOMAIN tables \subseteq Name
          /\ \A name \in DOMAIN tables :
               /\ tables[name] = [columns |-> tables[name].columns, rows |-> tables[name].rows]
               /\ tables[name].rows \subseteq Writer
               /\ name[1] <= Existing => tables[name].columns = [kind |-> "insert", table |-> name[1]]
      <3> SUFFICES ASSUME NEW name \in DOMAIN tables
                   PROVE  /\ name \in Name
                          /\ tables[name] = [columns |-> tables[name].columns, rows |-> tables[name].rows]
                          /\ tables[name].rows \subseteq Writer
                          /\ tables[name].columns = [kind |-> "insert", table |-> name[1]]
        OBVIOUS
      <3>1. PICK t \in Inlined : name = <<t, 1>>
        BY <1>3
      <3>2. tables[name] = [columns |-> [kind |-> "insert", table |-> name[1]], rows |-> {}]
        BY <1>3
      <3> QED BY <1>4, <3>1, <3>2
    <2>3. Existing <= snapshot.table
      BY <1>1, <1>2
    <2> QED BY <1>2, <1>3, <2>1, <2>2, <2>3 DEF ServerOK
  <1>6. tx = [w \in Writer |-> Idle] /\ deadlocks = {} /\ crashes = 0
    BY DEF Init
  <1>7. Idle \in Attempt /\ Idle.pc = "idle" /\ Idle.known = NoName
    BY DEF Idle, Attempt, Phase, Ended, NoName
  <1>8. \A w \in Writer : CommitOK(w, Idle, snapshot, registry, tables) /\ KnownOK(w, Idle, snapshot, registry)
    BY <1>7 DEF CommitOK, KnownOK, Named, Ended
  <1> QED BY <1>1, <1>5, <1>6, <1>7, <1>8 DEF IInv, CommitsOK, PairsOK, Ended

\* Every step keeps the invariant.
LEMMA NextInv ==
  ASSUME OneNameApart, VictimsFind
  PROVE  IInv /\ [Next]_vars => IInv'
  <1> SUFFICES ASSUME IInv, [Next]_vars PROVE IInv'
    OBVIOUS
  <1>1. CASE UNCHANGED vars
    BY <1>1 DEF vars, IInv, CommitsOK
  <1>2. ASSUME NEW w \in Writer,
               \/ Begin(w) \/ Retry(w)
               \/ BuildCreate(w) \/ BuildKnown(w) \/ BuildLatest(w) \/ BuildFirst(w)
               \/ Probe(w) \/ DropLeftover(w) \/ CreateTable(w)
               \/ RunBatch(w) \/ BatchConflicts(w) \/ Deadlocked(w)
               \/ Commit(w) \/ Crash(w)
        PROVE  IInv'
    BY <1>2, BeginStep, RetryStep, BuildCreateStep, BuildFoundStep, BuildFirstStep, ProbeStep,
       DropLeftoverStep, CreateTableStep, BatchSteps, CommitStep, CrashStep
  <1> QED BY <1>1, <1>2 DEF Next

-----------------------------------------------------------------------------
(* Theorems *)

\* The inductive invariant holds, for any commits, where those of one name are apart.
THEOREM Invariance ==
  ASSUME OneNameApart, VictimsFind
  PROVE  Spec => []IInv
  BY InitInv, NextInv, PTL DEF Spec

\* Every variable keeps its type.
THEOREM Typing ==
  ASSUME OneNameApart, VictimsFind
  PROVE  Spec => []TypeOK
  <1>1. IInv => TypeOK
    <2> SUFFICES ASSUME IInv PROVE TypeOK
      OBVIOUS
    <2>1. \A w \in Writer : tx[w].pc \in Phase \ {"refused"}
      BY Facts DEF Attempt, CommitOK
    <2>2. ServerOK(snapshot, registry, tables) /\ deadlocks \subseteq Victims /\ crashes \in 0 .. Crashes
      BY DEF IInv
    <2> QED BY <2>1, <2>2 DEF TypeOK, ServerOK, Snapshot, Name, Phase, Named
  <1> QED BY <1>1, Invariance, PTL

\* The rows of every commit are where a reader looks for them: what the registry names is nobody's
\* leftover, and what a commit writes to is in the registry or put there by its own batch.
THEOREM RowsFound ==
  ASSUME OneNameApart, VictimsFind
  PROVE  Spec => []RowsAreFound
  <1>1. IInv => RowsAreFound
    <2> SUFFICES ASSUME IInv, NEW w \in Writer, tx[w].pc = "committed"
                 PROVE  \E r \in Names(tx[w].table) : Exists(r.name) /\ w \in tables[r.name].rows
      BY DEF RowsAreFound
    <2> DEFINE e == Entry(tx[w].table, tx[w].name)
    <2>1. e \in registry /\ w \in tables[tx[w].name].rows
      BY Facts DEF CommitOK
    <2>2. e.table = tx[w].table /\ e.name = tx[w].name
      BY DEF Entry
    <2>3. e.name \in DOMAIN tables
      BY <2>1, Facts DEF ServerOK
    <2> QED BY <2>1, <2>2, <2>3 DEF Names, Exists
  <1> QED BY <1>1, Invariance, PTL

\* No commit is refused over its inlined table: what it probed for, dropped or made is as it left it
\* when its batch runs.
THEOREM NoneIsRefused ==
  ASSUME OneNameApart, VictimsFind
  PROVE  Spec => []NoneRefused
  <1>1. IInv => NoneRefused
    BY Facts DEF NoneRefused, CommitOK
  <1> QED BY <1>1, Invariance, PTL
=============================================================================
