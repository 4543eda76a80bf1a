----------------------- MODULE CatalogAssemblyProofs -----------------------
(***************************************************************************)
(* Proofs about CatalogAssembly, for any bounds, columns and keys: that    *)
(* the rows on the server, and those a mirror holds, tell the lake of      *)
(* every snapshot, each thing of it once and with its children.            *)
(***************************************************************************)
EXTENDS CatalogAssembly, FiniteSetTheorems, WellFoundedInduction, TLAPS

Parents == {MACRO_ROW, PARTITION_ROW, SORT_ROW}
Children == {MACRO_IMPL_ROW, MACRO_PARAMETER_ROW, PARTITION_COLUMN_ROW, SORT_EXPRESSION_ROW}
Kinds == {SCHEMA_ROW, TABLE_ROW, COLUMN_ROW, TAG_ROW, COLUMN_TAG_ROW, INLINED_TABLE_ROW, VIEW_ROW}
           \cup Parents \cup Children

\* How many ids a row has.
Width(kind) == CASE kind \in {SCHEMA_ROW, TAG_ROW} -> 1
                 [] kind = COLUMN_ROW -> 4
                 [] kind \in {MACRO_PARAMETER_ROW, PARTITION_COLUMN_ROW, SORT_EXPRESSION_ROW} -> 3
                 [] OTHER -> 2

-----------------------------------------------------------------------------
(* What the rows of a lake say *)

Line(kind, ids, name) == [kind |-> kind, ids |-> ids, name |-> name]
LineOf(r) == Line(r.kind, r.ids, r.name)

TableLines(t, table) ==
  {Line(COLUMN_ROW, <<t, c, c, table.columns[c].parent>>, table.columns[c].name) : c \in Live(table)}
    \cup {Line(COLUMN_TAG_ROW, <<t, c>>, table.columns[c].tag) : c \in {d \in Live(table) : table.columns[d].tag # Null}}
    \cup {Line(k, <<table.spec[k].id, t>>, 0) : k \in {k \in Specs : table.spec[k].id # Null}}

ObjectLines(o, object) ==
  {Line(object.kind, <<o, object.schema>>, 0)}
    \cup (IF object.kind = MACRO_ROW \/ object.tag = Null THEN {} ELSE {Line(TAG_ROW, <<o>>, object.tag)})
    \cup (IF object.kind = TABLE_ROW THEN TableLines(o, object) ELSE {})

Lines(lake) == {Line(SCHEMA_ROW, <<s>>, 0) : s \in lake.schemas}
                 \cup UNION {ObjectLines(o, lake.objects[o]) : o \in DOMAIN lake.objects}

\* The versions of rows that a snapshot sees; a comment that was taken away says nothing.
VersionsAt(rows, s) == {r \in rows : IsVersioned(r.kind) /\ VisibleAt(r, s)}
Speaks(r) == r.kind = TAG_ROW => r.name # Null

ChildrenOf(rows, p) == {r \in rows : IsChild(r) /\ Parent(r, p)}
ChildRows(lake, kind, ids) ==
  IF kind = MACRO_ROW
    THEN {Row(MACRO_IMPL_ROW, <<ids[1], i>>, 0) : i \in 1..2}
           \cup {Row(MACRO_PARAMETER_ROW, <<ids[1], 2, i>>, 0) : i \in 1..2}
    ELSE LET fields == lake.objects[ids[2]].spec[kind].fields
         IN  {Row(FieldOf(kind), <<ids[1], i, fields[i]>>, 0) : i \in DOMAIN fields}

SameThing(r, q) == r.kind = q.kind /\ \A i \in 1..KeyIds(r.kind) : r.ids[i] = q.ids[i]

\* The rows tell the lake at snapshot s: what they say is the lake, each thing is said once, and
\* every macro and spec has its own children and no others.
Tells(rows, s, lake) ==
  /\ {LineOf(r) : r \in {q \in VersionsAt(rows, s) : Speaks(q)}} = Lines(lake)
  /\ \A r, q \in VersionsAt(rows, s) : SameThing(r, q) => r = q
  /\ \A p \in VersionsAt(rows, s) : p.kind \in Parents => ChildrenOf(rows, p) = ChildRows(lake, p.kind, p.ids)

-----------------------------------------------------------------------------
(* The invariant *)

Column == [parent : Int, name : Nat \cup {Null}, tag : Int]
ViewObject == [kind : {VIEW_ROW}, schema : Nat, tag : Int]
MacroObject == [kind : {MACRO_ROW}, schema : Nat]
TableObject == [kind : {TABLE_ROW}, schema : Nat, tag : Int,
                columns : UNION {[1..n -> Column] : n \in Nat},
                spec : [Specs -> [id : Int, fields : Seq(Nat)]]]
LakeType == [schemas : SUBSET Nat,
             objects : UNION {[D -> ViewObject \cup MacroObject \cup TableObject] : D \in SUBSET Nat}]

\* A row has the ids of its kind, of which the first was given out; a version has an interval, of
\* snapshots so far.
RowOK(r, n, last) ==
  /\ r = [kind |-> r.kind, ids |-> r.ids, name |-> r.name, begin |-> r.begin, end |-> r.end]
  /\ r.kind \in Kinds /\ r.ids \in [1..Width(r.kind) -> Int] /\ r.name \in Int
  /\ r.ids[1] \in 0..(n - 1)
  /\ IF IsVersioned(r.kind)
       THEN /\ r.begin \in 1..last /\ r.end \in (1..last) \cup {Open} /\ r.begin < r.end
       ELSE r.begin = 0 /\ r.end = Open /\ r.name = 0

LakeOK(lake, n) ==
  /\ lake \in LakeType
  /\ \A s \in lake.schemas : s < n
  /\ \A o \in DOMAIN lake.objects : o < n

ServerInv ==
  /\ next \in Nat /\ shown \in Seq(LakeType) /\ Latest \in 1..MaxSnapshot /\ oldest \in 1..Latest
  /\ \A s \in 1..Latest : LakeOK(shown[s], next)
  /\ \A r \in history : RowOK(r, next, Latest) /\ (IsVersioned(r.kind) => r.end > oldest)
  /\ \A r, q \in history : Key(r) = Key(q) => r = q
  /\ \A p, q \in history : p.kind \in Parents /\ p.kind = q.kind /\ p.ids[1] = q.ids[1] => p = q
  /\ \A s \in oldest..Latest : Tells(history, s, shown[s])

\* The versions still to end in a mirror are those of the server, as it knew them.
Unended(r) == [r EXCEPT !.end = Open]
HeldOpen == {r \in held : IsVersioned(r.kind) /\ r.end = Open}
Told == {r \in history : IsVersioned(r.kind) /\ r.begin <= asOf /\ asOf < r.end}

MirrorInv ==
  /\ asOf \in 0..Latest /\ base \in 0..asOf /\ base <= oldest
  /\ IF asOf = 0 THEN held = {} /\ known = {} ELSE oldest <= asOf /\ base # 0
  /\ \A r \in held : /\ RowOK(r, next, Latest)
                     /\ IsVersioned(r.kind) => r.begin <= asOf /\ (r.end <= asOf \/ r.end = Open)
  /\ HeldOpen = {Unended(r) : r \in Told}
  /\ {r \in held : r.kind = INLINED_TABLE_ROW} = known
  /\ \A p \in history : p.kind \in Parents =>
       ChildrenOf(held, p) = IF p.begin <= asOf THEN ChildrenOf(history, p) ELSE {}
  /\ \A p \in history, q \in held :
       p.kind \in Parents /\ p.kind = q.kind /\ p.ids[1] = q.ids[1] => p.begin <= asOf
  /\ asOf # 0 => \A s \in base..asOf : Tells(held, s, shown[s])

IInv == ServerInv /\ MirrorInv

-----------------------------------------------------------------------------
(* Lemmas about rows *)

USE DEF SCHEMA_ROW, TABLE_ROW, COLUMN_ROW, TAG_ROW, COLUMN_TAG_ROW, INLINED_TABLE_ROW, VIEW_ROW,
        MACRO_ROW, MACRO_IMPL_ROW, MACRO_PARAMETER_ROW, PARTITION_ROW, PARTITION_COLUMN_ROW,
        SORT_ROW, SORT_EXPRESSION_ROW

\* The kinds that have versions, those that have children, and those that are children.
LEMMA KindFacts ==
  ASSUME NEW kind \in Kinds
  PROVE  /\ IsVersioned(kind) <=> kind \notin Children \cup {INLINED_TABLE_ROW}
         /\ kind \in Parents \cup Specs => IsVersioned(kind)
         /\ kind \in Children => ParentKind(kind) \in Parents
         /\ KeyIds(kind) \in 1..Width(kind) /\ Width(kind) \in 1..4
  BY DEF Kinds, IsVersioned, Children, Parents, Specs, ParentKind, KeyIds, Width

LEMMA ChildFacts ==
  ASSUME NEW r, r.kind \in Kinds
  PROVE  IsChild(r) <=> r.kind \in Children
  BY KindFacts DEF IsChild, Kinds, Children, Parents

\* Rows of one key are of one kind, with the same ids, begun at one snapshot.
LEMMA KeyFacts ==
  ASSUME NEW r, NEW q, r.kind \in Kinds, Key(r) = Key(q)
  PROVE  /\ r.kind = q.kind /\ r.ids[1] = q.ids[1]
         /\ \A i \in 1..KeyIds(r.kind) : r.ids[i] = q.ids[i]
         /\ IsVersioned(r.kind) => r.begin = q.begin
  <1> DEFINE f == [i \in 1..KeyIds(r.kind) |-> r.ids[i]]
             g == [i \in 1..KeyIds(q.kind) |-> q.ids[i]]
  <1>1. r.kind = q.kind /\ f = g /\ (IsVersioned(r.kind) => r.begin = q.begin)
    BY Zenon DEF Key
  <1>2. \A i \in 1..KeyIds(r.kind) : r.ids[i] = q.ids[i]
    <2> TAKE i \in 1..KeyIds(r.kind)
    <2>1. f[i] = g[i] /\ f[i] = r.ids[i] /\ g[i] = q.ids[i]
      BY <1>1
    <2> QED BY <2>1
  <1>3. 1 \in 1..KeyIds(r.kind)
    BY KindFacts
  <1> QED BY <1>1, <1>2, <1>3

\* A row of a kind is a row of that kind when it has ended.
LEMMA EndFacts ==
  ASSUME NEW r, NEW n, NEW last, RowOK(r, n, last), NEW e
  PROVE  LET q == [r EXCEPT !.end = e]
         IN  /\ q = [kind |-> r.kind, ids |-> r.ids, name |-> r.name, begin |-> r.begin, end |-> e]
             /\ q.kind = r.kind /\ q.ids = r.ids /\ q.name = r.name /\ q.begin = r.begin /\ q.end = e
             /\ Key(q) = Key(r)
  <1>1. r = [kind |-> r.kind, ids |-> r.ids, name |-> r.name, begin |-> r.begin, end |-> r.end]
    BY DEF RowOK
  <1> QED BY <1>1 DEF Key

\* An end forgotten is all that sets a row that a mirror holds open apart from that of the server.
LEMMA UnendedFacts ==
  ASSUME NEW r, NEW n, NEW last, RowOK(r, n, last)
  PROVE  /\ Unended(r).kind = r.kind /\ Unended(r).ids = r.ids /\ Unended(r).name = r.name
         /\ Unended(r).begin = r.begin /\ Unended(r).end = Open
         /\ Key(Unended(r)) = Key(r) /\ [Unended(r) EXCEPT !.end = r.end] = r
         /\ r.end = Open => Unended(r) = r
  <1>1. r = [kind |-> r.kind, ids |-> r.ids, name |-> r.name, begin |-> r.begin, end |-> r.end]
    BY DEF RowOK
  <1>2. Unended(r) = [kind |-> r.kind, ids |-> r.ids, name |-> r.name, begin |-> r.begin, end |-> Open]
    BY <1>1 DEF Unended
  <1>3. [Unended(r) EXCEPT !.end = r.end] = r
    BY <1>1, <1>2
  <1> QED BY <1>1, <1>2, <1>3 DEF Key

-----------------------------------------------------------------------------
(* A load *)

Reading == IF asOf = 0 THEN ReadHistory ELSE ReadChanges
Loaded == Merged(held, Reading)

\* Both reads want the same of a row: that its version began, or ended, after the mirror's snapshot;
\* that the row it is a child of began after it; of inlined tables, that they are not the mirror's.
LEMMA ReadingFacts ==
  ASSUME IInv
  PROVE  /\ Reading \subseteq history
         /\ \A r \in history : IsVersioned(r.kind) =>
              (r \in Reading <=> r.begin > asOf \/ (r.end # Open /\ r.end > asOf))
         /\ \A r \in history : IsChild(r) =>
              (r \in Reading <=> \E p \in history : Parent(r, p) /\ p.begin > asOf)
         /\ \A r \in Inlined : r \in Reading <=> asOf = 0 \/ Inlined # known
  <1>1. \A r \in history : /\ RowOK(r, next, Latest) /\ r.kind \in Kinds
                           /\ IsVersioned(r.kind) => r.end > oldest /\ r.begin \in 1..Latest
    BY DEF IInv, ServerInv, RowOK
  <1>2. asOf \in Nat
    BY DEF IInv, MirrorInv, ServerInv
  <1>3. \A r \in history, p \in history : IsChild(r) /\ Parent(r, p) => IsVersioned(p.kind)
    BY <1>1, KindFacts, ChildFacts DEF Parent
  <1>4. \A r \in Inlined : r \in history /\ r.kind = INLINED_TABLE_ROW
    BY DEF Inlined
  <1>5. CASE asOf = 0
    <2>1. \A r \in history : IsVersioned(r.kind) => r.begin > asOf
      BY <1>1, <1>5
    <2>2. \A r : r \in Reading <=>
            \/ r \in history /\ IsVersioned(r.kind) /\ (r.end = Open \/ r.end > oldest)
            \/ r \in history /\ IsChild(r) /\ \E p \in history : Parent(r, p) /\ (p.end = Open \/ p.end > oldest)
            \/ r \in Inlined
      BY <1>5 DEF Reading, ReadHistory, Branches
    <2> QED BY <2>1, <2>2, <1>1, <1>3, <1>4, <1>5 DEF IsChild, IsVersioned
  <1>6. CASE asOf # 0
    <2>1. \A r : r \in Reading <=>
            \/ r \in history /\ IsVersioned(r.kind) /\ (r.begin > asOf \/ (r.end # Open /\ r.end > asOf))
            \/ r \in history /\ IsChild(r) /\ \E p \in history : Parent(r, p) /\ p.begin > asOf
            \/ r \in Inlined /\ Inlined # known
      BY <1>6 DEF Reading, ReadChanges, Branches
    <2> QED BY <2>1, <1>4, <1>6 DEF IsChild, IsVersioned
  <1> QED BY <1>5, <1>6

\* What a merge is, where no two rows that are read have one key.
LEMMA MergedFacts ==
  ASSUME NEW rows, NEW read, \A r, q \in read : Key(r) = Key(q) => r = q
  PROVE  \A x : x \in Merged(rows, read) <=>
           \/ x \in read /\ \A h \in Kept(rows) : Key(h) # Key(x)
           \/ x \in Kept(rows) /\ (x.end # Open \/ \A r \in read : Key(r) # Key(x))
           \/ \E h \in Kept(rows), r \in read : h.end = Open /\ Key(r) = Key(h) /\ x = [h EXCEPT !.end = r.end]
  <1> DEFINE kept == Kept(rows)
  <1>1. \A r \in read : WithKey(read, Key(r)) = r
    <2> TAKE r \in read
    <2>1. WithKey(read, Key(r)) \in read /\ Key(WithKey(read, Key(r))) = Key(r)
      BY DEF WithKey
    <2> QED BY <2>1
  <1> DEFINE Keys(some) == {Key(r) : r \in some}
             old == {IF r.end = Open /\ Key(r) \in Keys(read) THEN [r EXCEPT !.end = WithKey(read, Key(r)).end] ELSE r : r \in kept}
             new == {WithKey(read, key) : key \in Keys(read) \ Keys(kept)}
  <1>2. Merged(rows, read) = old \cup new
    BY DEF Merged
  <1>3. \A x : x \in new <=> x \in read /\ \A h \in kept : Key(h) # Key(x)
    <2>1. ASSUME NEW x \in new PROVE x \in read /\ \A h \in kept : Key(h) # Key(x)
      <3>1. PICK key \in Keys(read) \ Keys(kept) : x = WithKey(read, key)
        BY <2>1
      <3>2. PICK r \in read : key = Key(r)
        BY <3>1
      <3> QED BY <3>1, <3>2, <1>1
    <2>2. ASSUME NEW x \in read, \A h \in kept : Key(h) # Key(x) PROVE x \in new
      <3>1. Key(x) \in Keys(read) \ Keys(kept) /\ WithKey(read, Key(x)) = x
        BY <2>2, <1>1
      <3> QED BY <3>1
    <2> QED BY <2>1, <2>2
  <1>4. \A x : x \in old <=>
          \/ x \in kept /\ (x.end # Open \/ \A r \in read : Key(r) # Key(x))
          \/ \E h \in kept, r \in read : h.end = Open /\ Key(r) = Key(h) /\ x = [h EXCEPT !.end = r.end]
    <2>1. ASSUME NEW x \in old
          PROVE \/ x \in kept /\ (x.end # Open \/ \A r \in read : Key(r) # Key(x))
                \/ \E h \in kept, r \in read : h.end = Open /\ Key(r) = Key(h) /\ x = [h EXCEPT !.end = r.end]
      <3>1. PICK h \in kept : x = IF h.end = Open /\ Key(h) \in Keys(read)
                                    THEN [h EXCEPT !.end = WithKey(read, Key(h)).end] ELSE h
        BY <2>1
      <3>2. CASE h.end = Open /\ Key(h) \in Keys(read)
        <4>1. PICK r \in read : Key(h) = Key(r)
          BY <3>2
        <4> QED BY <4>1, <3>1, <3>2, <1>1
      <3>3. CASE ~(h.end = Open /\ Key(h) \in Keys(read))
        BY <3>1, <3>3
      <3> QED BY <3>2, <3>3
    <2>2. ASSUME NEW x \in kept, x.end # Open \/ \A r \in read : Key(r) # Key(x) PROVE x \in old
      <3>1. ~(x.end = Open /\ Key(x) \in Keys(read))
        BY <2>2
      <3> QED BY <3>1
    <2>3. ASSUME NEW h \in kept, NEW r \in read, h.end = Open, Key(r) = Key(h)
          PROVE  [h EXCEPT !.end = r.end] \in old
      <3>1. Key(h) \in Keys(read) /\ WithKey(read, Key(h)) = r
        BY <2>3, <1>1
      <3> QED BY <3>1, <2>3
    <2> QED BY <2>1, <2>2, <2>3
  <1> HIDE DEF old, new
  <1> QED BY <1>2, <1>3, <1>4

\* What a load leaves: the versions that the mirror knows to have ended, and all those of the server
\* that had not; the inlined tables of the server; the children of each parent that is there.
LEMMA LoadedRows ==
  ASSUME IInv
  PROVE  /\ \A x : x \in Loaded /\ IsVersioned(x.kind) <=>
              \/ x \in held /\ IsVersioned(x.kind) /\ x.end # Open
              \/ x \in history /\ IsVersioned(x.kind) /\ asOf < x.end
         /\ {x \in Loaded : x.kind = INLINED_TABLE_ROW} = Inlined
         /\ \A x : x \in Loaded /\ IsChild(x) <=> (x \in held \/ x \in Reading) /\ IsChild(x)
         /\ \A x \in Loaded : RowOK(x, next, Latest)
  <1> DEFINE kept == Kept(held)
  <1>0. kept = {r \in held : Inlined = known \/ r.kind # INLINED_TABLE_ROW}
    BY DEF Kept
  <1> HIDE DEF kept
  <1>1. /\ \A r \in history : RowOK(r, next, Latest) /\ r.kind \in Kinds
        /\ \A r \in held : RowOK(r, next, Latest) /\ r.kind \in Kinds
    BY DEF IInv, ServerInv, MirrorInv, RowOK
  <1>2. \A r, q \in history : Key(r) = Key(q) => r = q
    BY DEF IInv, ServerInv
  <1>3. Reading \subseteq history
    BY ReadingFacts
  <1>4. \A x : x \in Loaded <=>
           \/ x \in Reading /\ \A h \in kept : Key(h) # Key(x)
           \/ x \in kept /\ (x.end # Open \/ \A r \in Reading : Key(r) # Key(x))
           \/ \E h \in kept, r \in Reading : h.end = Open /\ Key(r) = Key(h) /\ x = [h EXCEPT !.end = r.end]
    <2> DEFINE read == Reading
    <2>1. \A r, q \in read : Key(r) = Key(q) => r = q
      BY <1>2, <1>3
    <2> HIDE DEF read
    <2>2. \A x : x \in Merged(held, read) <=>
           \/ x \in read /\ \A h \in kept : Key(h) # Key(x)
           \/ x \in kept /\ (x.end # Open \/ \A r \in read : Key(r) # Key(x))
           \/ \E h \in kept, r \in read : h.end = Open /\ Key(r) = Key(h) /\ x = [h EXCEPT !.end = r.end]
      BY <2>1, MergedFacts DEF kept
    <2> QED BY <2>2 DEF Loaded, read
  \* A version that is read and whose key the mirror has is one that it has open.
  <1>5. ASSUME NEW h \in kept, NEW r \in Reading, Key(h) = Key(r)
        PROVE  /\ IsVersioned(h.kind) /\ IsVersioned(r.kind)
               /\ h.end = Open => r.end # Open /\ r = [h EXCEPT !.end = r.end] /\ asOf < r.end
    <2>1. h.kind = r.kind /\ h.ids[1] = r.ids[1] /\ r \in history /\ r.kind \in Kinds
      BY <1>1, <1>3, <1>5, KeyFacts
    <2>2. ~IsChild(r)
      <3> SUFFICES ASSUME IsChild(r) PROVE FALSE
        OBVIOUS
      <3>1. PICK p \in history : Parent(r, p) /\ p.begin > asOf
        BY <2>1, ReadingFacts
      <3>2. p.kind \in Parents
        BY <2>1, KindFacts, ChildFacts, <3>1 DEF Parent
      <3>3. h \in ChildrenOf(held, p)
        BY <1>0, <2>1, <3>1 DEF ChildrenOf, Parent, IsChild
      <3>4. ~(p.begin <= asOf)
        BY <3>1, <1>1, <3>2, KindFacts DEF RowOK, IInv, MirrorInv, ServerInv
      <3> QED BY <3>2, <3>3, <3>4 DEF IInv, MirrorInv
    <2>3. r.kind # INLINED_TABLE_ROW
      <3> SUFFICES ASSUME r.kind = INLINED_TABLE_ROW PROVE FALSE
        OBVIOUS
      <3>1. Inlined = known /\ r \in Inlined /\ h \in held
        BY <1>0, <2>1 DEF Inlined
      <3>2. asOf = 0
        BY <3>1, ReadingFacts
      <3> QED BY <3>1, <3>2 DEF IInv, MirrorInv
    <2>4. IsVersioned(h.kind) /\ IsVersioned(r.kind)
      BY <2>1, <2>2, <2>3 DEF IsChild
    <2>5. ASSUME h.end = Open
          PROVE  r.end # Open /\ r = [h EXCEPT !.end = r.end] /\ asOf < r.end
      <3>1. h \in HeldOpen
        BY <1>0, <2>4, <2>5 DEF HeldOpen
      <3>2. PICK q \in Told : h = Unended(q)
        BY <3>1 DEF IInv, MirrorInv
      <3>3. q \in history /\ RowOK(q, next, Latest) /\ q.begin <= asOf /\ asOf < q.end
        BY <3>2, <1>1 DEF Told
      <3>4. Key(h) = Key(q) /\ [h EXCEPT !.end = q.end] = q
        BY <3>2, <3>3, UnendedFacts
      <3>5. q = r
        BY <3>3, <3>4, <2>1, <1>5, <1>2
      <3>6. ~(q.begin > asOf)
        BY <3>3, <1>1, <2>4, <3>5 DEF RowOK, IInv, MirrorInv, ServerInv
      <3>7. r.end # Open
        BY <3>5, <3>6, <2>1, <2>4, ReadingFacts
      <3> QED BY <3>3, <3>4, <3>5, <3>7
    <2> QED BY <2>4, <2>5
  <1>6. ASSUME NEW h \in kept, IsVersioned(h.kind), h.end = Open
        PROVE  \E q \in history : /\ Key(q) = Key(h) /\ q = [h EXCEPT !.end = q.end] /\ asOf < q.end
                                  /\ IsVersioned(q.kind) /\ q.begin <= asOf /\ (q.end = Open => q = h)
    <2>1. h \in HeldOpen
      BY <1>0, <1>6 DEF HeldOpen
    <2>2. PICK q \in Told : h = Unended(q)
      BY <2>1 DEF IInv, MirrorInv
    <2>3. q \in history /\ RowOK(q, next, Latest) /\ asOf < q.end /\ IsVersioned(q.kind) /\ q.begin <= asOf
      BY <2>2, <1>1 DEF Told
    <2> QED BY <2>2, <2>3, UnendedFacts
  <1>7. ASSUME NEW q \in history, IsVersioned(q.kind), asOf < q.end
        PROVE  q \in Loaded
    <2>0. q.begin \in Int /\ asOf \in Int
      BY <1>1, <1>7 DEF RowOK, IInv, MirrorInv, ServerInv
    <2>1. CASE q.begin > asOf
      <3>1. q \in Reading
        BY <2>1, <1>7, ReadingFacts
      <3>2. \A h \in kept : Key(h) # Key(q)
        <4> SUFFICES ASSUME NEW h \in kept, Key(h) = Key(q) PROVE FALSE
          OBVIOUS
        <4>1. IsVersioned(h.kind) /\ h.begin = q.begin
          BY <1>1, <1>5, <3>1, KeyFacts
        <4>2. h.begin <= asOf
          BY <1>0, <4>1 DEF IInv, MirrorInv
        <4> QED BY <4>1, <4>2, <2>1, <2>0
      <3> QED BY <3>1, <3>2, <1>4
    <2>2. CASE ~(q.begin > asOf)
      <3>1. q \in Told
        BY <2>0, <2>2, <1>7 DEF Told
      <3>2. Unended(q) \in held /\ Unended(q).end = Open /\ Key(Unended(q)) = Key(q)
            /\ IsVersioned(Unended(q).kind) /\ q = [Unended(q) EXCEPT !.end = q.end]
        <4>1. Unended(q) \in HeldOpen
          BY <3>1 DEF IInv, MirrorInv
        <4>2. RowOK(q, next, Latest)
          BY <1>1
        <4> QED BY <4>1, <4>2, <1>7, UnendedFacts DEF HeldOpen
      <3>3. Unended(q) \in kept
        BY <1>0, <3>2 DEF IsVersioned
      <3>4. CASE q \in Reading
        BY <3>2, <3>3, <3>4, <1>4
      <3>5. CASE q \notin Reading
        <4>1. q.end = Open
          BY <3>5, <2>2, <1>7, ReadingFacts, <1>1 DEF RowOK
        <4>2. Unended(q) = q
          BY <4>1, <1>1, UnendedFacts
        <4>3. \A r \in Reading : Key(r) # Key(q)
          BY <3>5, <1>2, <1>3
        <4> QED BY <4>2, <4>3, <3>3, <1>4
      <3> QED BY <3>4, <3>5
    <2> QED BY <2>1, <2>2
  <1>8. \A x : x \in Loaded /\ IsVersioned(x.kind) <=>
              \/ x \in held /\ IsVersioned(x.kind) /\ x.end # Open
              \/ x \in history /\ IsVersioned(x.kind) /\ asOf < x.end
    <2>1. ASSUME NEW x \in Loaded, IsVersioned(x.kind)
          PROVE  \/ x \in held /\ IsVersioned(x.kind) /\ x.end # Open
                 \/ x \in history /\ IsVersioned(x.kind) /\ asOf < x.end
      <3>1. CASE x \in Reading
        <4>1. x \in history /\ RowOK(x, next, Latest) /\ (x.begin > asOf \/ x.end > asOf)
          BY <3>1, <1>1, <1>3, <2>1, ReadingFacts
        <4>2. asOf < x.end
          BY <4>1, <2>1 DEF RowOK, IInv, MirrorInv, ServerInv, Open
        <4> QED BY <4>1, <4>2, <2>1
      <3>2. CASE x \in kept /\ (x.end # Open \/ \A r \in Reading : Key(r) # Key(x))
        <4>1. CASE x.end # Open
          BY <1>0, <4>1, <3>2, <2>1
        <4>2. CASE x.end = Open /\ \A r \in Reading : Key(r) # Key(x)
          <5>1. PICK q \in history : /\ Key(q) = Key(x) /\ q = [x EXCEPT !.end = q.end] /\ asOf < q.end
                                     /\ IsVersioned(q.kind) /\ q.begin <= asOf /\ (q.end = Open => q = x)
            BY <1>6, <3>2, <4>2, <2>1
          <5>2. q.end = Open
            BY <5>1, <4>2, ReadingFacts
          <5>3. q = x
            BY <5>1, <5>2
          <5> QED BY <5>1, <5>3
        <4> QED BY <4>1, <4>2, <3>2
      <3>3. CASE \E h \in kept, r \in Reading : h.end = Open /\ Key(r) = Key(h) /\ x = [h EXCEPT !.end = r.end]
        <4>1. PICK h \in kept, r \in Reading : h.end = Open /\ Key(r) = Key(h) /\ x = [h EXCEPT !.end = r.end]
          BY <3>3
        <4>2. x = r /\ asOf < r.end
          BY <4>1, <1>5
        <4> QED BY <4>2, <2>1, <1>3
      <3> QED BY <3>1, <3>2, <3>3, <1>4
    <2>2. ASSUME NEW x \in held, IsVersioned(x.kind), x.end # Open PROVE x \in Loaded
      <3>1. x \in kept
        BY <1>0, <2>2 DEF IsVersioned
      <3> QED BY <3>1, <2>2, <1>4
    <2> QED BY <2>1, <2>2, <1>7
  <1>9. \A x : x \in Loaded /\ ~IsVersioned(x.kind) <=>
                 (x \in kept \/ x \in Reading) /\ ~IsVersioned(x.kind)
    <2>1. ASSUME NEW x \in Loaded, ~IsVersioned(x.kind) PROVE x \in kept \/ x \in Reading
      <3>1. ASSUME NEW h \in kept, NEW r \in Reading, h.end = Open, Key(r) = Key(h),
                   x = [h EXCEPT !.end = r.end]
            PROVE  FALSE
        BY <3>1, <2>1, <1>5
      <3> QED BY <3>1, <1>4
    <2>2. ASSUME NEW x \in kept, ~IsVersioned(x.kind) PROVE x \in Loaded
      BY <2>2, <1>4, <1>5
    <2>3. ASSUME NEW x \in Reading, ~IsVersioned(x.kind) PROVE x \in Loaded
      BY <2>3, <1>4, <1>5
    <2> QED BY <2>1, <2>2, <2>3
  <1>10. {x \in Loaded : x.kind = INLINED_TABLE_ROW} = Inlined
    <2>1. \A x : x \in kept /\ x.kind = INLINED_TABLE_ROW <=> x \in known /\ Inlined = known
      BY <1>0 DEF IInv, MirrorInv
    <2>2. \A x : x \in Reading /\ x.kind = INLINED_TABLE_ROW <=> x \in Inlined /\ (asOf = 0 \/ Inlined # known)
      BY <1>3, ReadingFacts DEF Inlined
    <2>3. \A x : x \in Inlined => x.kind = INLINED_TABLE_ROW
      BY DEF Inlined
    <2>4. \A x : x.kind = INLINED_TABLE_ROW => ~IsVersioned(x.kind)
      BY DEF IsVersioned
    <2>5. ASSUME NEW x PROVE x \in Loaded /\ x.kind = INLINED_TABLE_ROW <=> x \in Inlined
      <3>1. x \in Loaded /\ x.kind = INLINED_TABLE_ROW <=> (x \in kept \/ x \in Reading) /\ x.kind = INLINED_TABLE_ROW
        BY <1>9, <2>4
      <3> QED BY <3>1, <2>1, <2>2, <2>3
    <2> QED BY <2>5
  <1>11. \A x : x \in Loaded /\ IsChild(x) <=> (x \in held \/ x \in Reading) /\ IsChild(x)
    BY <1>0, <1>9 DEF IsChild
  <1>12. ASSUME NEW x \in Loaded PROVE RowOK(x, next, Latest)
    <2>1. CASE IsVersioned(x.kind)
      BY <2>1, <1>8, <1>1
    <2>2. CASE ~IsVersioned(x.kind)
      BY <1>0, <2>2, <1>9, <1>1, <1>3
    <2> QED BY <2>1, <2>2
  <1> QED BY <1>8, <1>10, <1>11, <1>12

\* Rows that differ only in what a snapshot does not see tell the same lake there.
LEMMA TellsAlike ==
  ASSUME NEW X, NEW Y, NEW s, NEW lake, Tells(X, s, lake), VersionsAt(Y, s) = VersionsAt(X, s),
         \A p \in VersionsAt(X, s) : p.kind \in Parents => ChildrenOf(Y, p) = ChildrenOf(X, p)
  PROVE  Tells(Y, s, lake)
  BY DEF Tells

\* So do rows of which each that the snapshot sees has one like it but for its end.
Like(x, y) == x.kind = y.kind /\ x.ids = y.ids /\ x.name = y.name

LEMMA TellsLike ==
  ASSUME NEW X, NEW Y, NEW s, NEW lake, Tells(X, s, lake),
         \A y \in VersionsAt(Y, s) : \E x \in VersionsAt(X, s) : Like(x, y),
         \A x \in VersionsAt(X, s) : \E y \in VersionsAt(Y, s) : Like(x, y),
         \A x \in VersionsAt(X, s), y, z \in VersionsAt(Y, s) : Like(x, y) /\ Like(x, z) => y = z,
         \A x \in VersionsAt(X, s), y \in VersionsAt(Y, s) :
           Like(x, y) /\ x.kind \in Parents => ChildrenOf(Y, y) = ChildrenOf(X, x)
  PROVE  Tells(Y, s, lake)
  <1>1. \A x, y : Like(x, y) => /\ LineOf(x) = LineOf(y) /\ (Speaks(x) <=> Speaks(y)) /\ x.kind = y.kind
                                /\ x.ids = y.ids
    BY DEF Like, LineOf, Line, Speaks
  <1>2. {LineOf(r) : r \in {q \in VersionsAt(Y, s) : Speaks(q)}} = Lines(lake)
    <2>1. {LineOf(r) : r \in {q \in VersionsAt(X, s) : Speaks(q)}} = Lines(lake)
      BY DEF Tells
    <2>2. ASSUME NEW y \in VersionsAt(Y, s), Speaks(y) PROVE LineOf(y) \in Lines(lake)
      <3>1. PICK x \in VersionsAt(X, s) : Like(x, y)
        OBVIOUS
      <3> QED BY <3>1, <2>1, <2>2, <1>1
    <2>3. ASSUME NEW x \in VersionsAt(X, s), Speaks(x)
          PROVE  LineOf(x) \in {LineOf(r) : r \in {q \in VersionsAt(Y, s) : Speaks(q)}}
      <3>1. PICK y \in VersionsAt(Y, s) : Like(x, y)
        OBVIOUS
      <3> QED BY <3>1, <2>3, <1>1
    <2> QED BY <2>1, <2>2, <2>3
  <1>3. ASSUME NEW y \in VersionsAt(Y, s), NEW z \in VersionsAt(Y, s), SameThing(y, z) PROVE y = z
    <2>1. PICK x \in VersionsAt(X, s) : Like(x, y)
      OBVIOUS
    <2>2. PICK w \in VersionsAt(X, s) : Like(w, z)
      OBVIOUS
    <2>3. SameThing(x, w)
      BY <1>3, <2>1, <2>2, <1>1 DEF SameThing
    <2>4. x = w
      BY <2>3 DEF Tells
    <2> QED BY <2>1, <2>2, <2>4
  <1>4. ASSUME NEW p \in VersionsAt(Y, s), p.kind \in Parents PROVE ChildrenOf(Y, p) = ChildRows(lake, p.kind, p.ids)
    <2>1. PICK x \in VersionsAt(X, s) : Like(x, p)
      OBVIOUS
    <2>2. x.kind \in Parents /\ ChildRows(lake, x.kind, x.ids) = ChildRows(lake, p.kind, p.ids)
      <3>1. x.kind = p.kind /\ x.ids = p.ids
        BY <2>1, <1>1
      <3>2. ChildRows(lake, x.kind, x.ids) = ChildRows(lake, p.kind, p.ids)
        BY <3>1
      <3> QED BY <3>1, <3>2, <1>4
    <2>3. ChildrenOf(X, x) = ChildRows(lake, x.kind, x.ids)
      BY <2>2 DEF Tells
    <2> QED BY <2>1, <2>2, <2>3
  <1> QED BY <1>2, <1>3, <1>4 DEF Tells

\* Every parent on the server has its children in a mirror that was loaded, and a parent the mirror
\* had before has those that it had.
LEMMA LoadedChildren ==
  ASSUME IInv
  PROVE  /\ \A p \in history : p.kind \in Parents => ChildrenOf(Loaded, p) = ChildrenOf(history, p)
         /\ \A q \in held : q.kind \in Parents => ChildrenOf(Loaded, q) = ChildrenOf(held, q)
  <1>1. \A x : x \in Loaded /\ IsChild(x) <=> (x \in held \/ x \in Reading) /\ IsChild(x)
    BY LoadedRows
  <1>2. /\ Reading \subseteq history
        /\ \A r \in history : IsChild(r) =>
              (r \in Reading <=> \E p \in history : Parent(r, p) /\ p.begin > asOf)
    BY ReadingFacts
  <1>3. /\ \A p \in history : p.kind \in Parents =>
              ChildrenOf(held, p) = IF p.begin <= asOf THEN ChildrenOf(history, p) ELSE {}
        /\ \A p \in history, q \in held :
              p.kind \in Parents /\ p.kind = q.kind /\ p.ids[1] = q.ids[1] => p.begin <= asOf
        /\ asOf \in Int
    BY DEF IInv, MirrorInv, ServerInv
  <1>4. \A p \in history : p.kind \in Parents => p.begin \in Int
    <2> TAKE p \in history
    <2>1. RowOK(p, next, Latest)
      BY DEF IInv, ServerInv
    <2> QED BY <2>1, KindFacts DEF RowOK
  <1>5. ASSUME NEW p \in history, p.kind \in Parents
        PROVE  ChildrenOf(Loaded, p) = ChildrenOf(history, p)
    <2>1. CASE p.begin <= asOf
      <3>1. ChildrenOf(held, p) = ChildrenOf(history, p)
        BY <1>3, <1>5, <2>1
      <3> QED BY <3>1, <1>1, <1>2 DEF ChildrenOf
    <2>2. CASE p.begin > asOf
      <3>1. ChildrenOf(held, p) = {}
        BY <1>3, <1>4, <1>5, <2>2
      <3>2. \A x \in history : IsChild(x) /\ Parent(x, p) => x \in Reading
        BY <1>2, <2>2
      <3> QED BY <3>1, <3>2, <1>1, <1>2 DEF ChildrenOf
    <2> QED BY <2>1, <2>2, <1>3, <1>4, <1>5
  <1>6. ASSUME NEW q \in held, q.kind \in Parents
        PROVE  ChildrenOf(Loaded, q) = ChildrenOf(held, q)
    <2>1. ASSUME NEW x \in Reading, IsChild(x), Parent(x, q) PROVE FALSE
      <3>1. PICK p \in history : Parent(x, p) /\ p.begin > asOf
        BY <1>2, <2>1
      <3>2. p.kind = q.kind /\ p.ids[1] = q.ids[1]
        BY <2>1, <3>1 DEF Parent
      <3> QED BY <3>1, <3>2, <1>3, <1>4, <1>6
    <2> QED BY <2>1, <1>1 DEF ChildrenOf
  <1> QED BY <1>5, <1>6

\* The rows of a load tell the lake of every snapshot left, up to the latest.
LEMMA LoadedTells ==
  ASSUME IInv, NEW s \in oldest..Latest
  PROVE  Tells(Loaded, s, shown[s])
  <1>1. /\ \A x : x \in Loaded /\ IsVersioned(x.kind) <=>
              \/ x \in held /\ IsVersioned(x.kind) /\ x.end # Open
              \/ x \in history /\ IsVersioned(x.kind) /\ asOf < x.end
    BY LoadedRows
  <1>2. /\ \A r \in history : RowOK(r, next, Latest)
        /\ \A r \in held : RowOK(r, next, Latest)
        /\ \A r \in held : IsVersioned(r.kind) => r.begin <= asOf /\ (r.end <= asOf \/ r.end = Open)
        /\ asOf \in Int /\ s \in Int /\ oldest \in Int /\ base \in Int
        /\ base <= oldest /\ oldest <= s /\ s <= Latest /\ Latest \in Int /\ Latest < Open
        /\ HeldOpen = {Unended(r) : r \in Told}
    BY BoundTypes DEF IInv, ServerInv, MirrorInv, Open
  <1>3. CASE s > asOf
    <2>1. VersionsAt(Loaded, s) = VersionsAt(history, s)
      <3>1. ASSUME NEW x, IsVersioned(x.kind), VisibleAt(x, s)
            PROVE  x \in Loaded <=> x \in history
        <4>1. ASSUME x \in held PROVE x.end = Open
          <5>1. x.end <= asOf \/ x.end = Open
            BY <4>1, <3>1, <1>2
          <5>2. s < x.end
            BY <3>1 DEF VisibleAt
          <5>3. RowOK(x, next, Latest)
            BY <4>1, <1>2
          <5> QED BY <5>1, <5>2, <5>3, <3>1, <1>2, <1>3 DEF RowOK
        <4>2. ASSUME x \in history PROVE asOf < x.end
          <5>2. s < x.end
            BY <3>1 DEF VisibleAt
          <5>3. RowOK(x, next, Latest)
            BY <4>2, <1>2
          <5> QED BY <5>2, <5>3, <3>1, <1>2, <1>3 DEF RowOK, Open
        <4> QED BY <4>1, <4>2, <1>1, <3>1
      <3> QED BY <3>1 DEF VersionsAt
    <2>2. \A p \in VersionsAt(history, s) : p.kind \in Parents => ChildrenOf(Loaded, p) = ChildrenOf(history, p)
      BY LoadedChildren DEF VersionsAt
    <2>3. Tells(history, s, shown[s])
      BY DEF IInv, ServerInv
    <2> QED BY <2>1, <2>2, <2>3, TellsAlike
  <1>4. CASE ~(s > asOf)
    <2>0. Tells(held, s, shown[s])
      <3>1. asOf # 0 /\ s \in base..asOf
        BY <1>2, <1>4 DEF IInv, MirrorInv, ServerInv
      <3> QED BY <3>1 DEF IInv, MirrorInv
    \* What the server has of a row that the mirror has open.
    <2>1. ASSUME NEW q \in history, IsVersioned(q.kind), asOf < q.end, VisibleAt(q, s)
          PROVE  Unended(q) \in VersionsAt(held, s) /\ Like(Unended(q), q) /\ Unended(q).end = Open
      <3>1. RowOK(q, next, Latest)
        BY <1>2
      <3>2. Unended(q) \in HeldOpen
        <4>1. q.begin <= s
          BY <2>1 DEF VisibleAt
        <4>2. q \in Told
          BY <4>1, <2>1, <3>1, <1>2, <1>4 DEF Told, RowOK
        <4> QED BY <4>2, <1>2
      <3>3. VisibleAt(Unended(q), s)
        <4>1. Unended(q).begin = q.begin /\ Unended(q).kind = q.kind /\ Unended(q).end = Open
          BY <3>1, UnendedFacts
        <4>2. q.begin <= s /\ s < Open
          BY <2>1, <1>2 DEF VisibleAt, Open
        <4> QED BY <4>1, <4>2 DEF VisibleAt
      <3> QED BY <3>1, <3>2, <3>3, UnendedFacts DEF HeldOpen, VersionsAt, Like
    <2>2. ASSUME NEW h \in VersionsAt(held, s), h.end = Open
          PROVE  \E q \in VersionsAt(Loaded, s) : q \in history /\ h = Unended(q) /\ Like(h, q) /\ asOf < q.end
      <3>1. h \in HeldOpen
        BY <2>2 DEF HeldOpen, VersionsAt
      <3>2. PICK q \in Told : h = Unended(q)
        BY <3>1, <1>2
      <3>3. q \in history /\ RowOK(q, next, Latest) /\ IsVersioned(q.kind) /\ asOf < q.end
        BY <3>2, <1>2 DEF Told
      <3>4. Like(h, q) /\ h.begin = q.begin
        BY <3>2, <3>3, UnendedFacts DEF Like
      <3>5. VisibleAt(q, s)
        BY <3>3, <3>4, <2>2, <1>2, <1>4 DEF VersionsAt, VisibleAt, RowOK
      <3> QED BY <3>2, <3>3, <3>4, <3>5, <1>1 DEF VersionsAt
    <2>3. ASSUME NEW h \in VersionsAt(held, s), h.end # Open
          PROVE  h \in VersionsAt(Loaded, s) /\ Like(h, h)
      BY <2>3, <1>1 DEF VersionsAt, Like
    \* The row that the mirror had for one it has now.
    <2> DEFINE Earlier(y) == IF y \in held /\ y.end # Open THEN y ELSE Unended(y)
    <2>4. ASSUME NEW y \in VersionsAt(Loaded, s)
          PROVE  /\ Earlier(y) \in VersionsAt(held, s) /\ Like(Earlier(y), y)
                 /\ \/ y \in held /\ y.end # Open
                    \/ y \in history /\ Unended(y) = Earlier(y) /\ Earlier(y).end = Open
      <3>1. y \in Loaded /\ IsVersioned(y.kind) /\ VisibleAt(y, s)
        BY DEF VersionsAt
      <3>2. CASE y \in held /\ y.end # Open
        <4>1. y \in VersionsAt(held, s) /\ Like(y, y)
          BY <3>1, <3>2 DEF VersionsAt, Like
        <4> QED BY <4>1, <3>2
      <3>3. CASE ~(y \in held /\ y.end # Open)
        <4>1. y \in history /\ asOf < y.end
          BY <3>1, <3>3, <1>1
        <4> QED BY <4>1, <3>1, <3>3, <2>1
      <3> QED BY <3>2, <3>3
    <2>5. ASSUME NEW x \in VersionsAt(held, s), NEW y \in VersionsAt(Loaded, s), Like(x, y)
          PROVE  x = Earlier(y)
      <3>1. SameThing(x, Earlier(y))
        BY <2>4, <2>5 DEF Like, SameThing
      <3> QED BY <3>1, <2>0, <2>4 DEF Tells
    <2> HIDE DEF Earlier
    <2>6. \A y \in VersionsAt(Loaded, s) : \E x \in VersionsAt(held, s) : Like(x, y)
      BY <2>4
    <2>7. \A x \in VersionsAt(held, s) : \E y \in VersionsAt(Loaded, s) : Like(x, y)
      BY <2>2, <2>3
    <2>8. ASSUME NEW x \in VersionsAt(held, s), NEW y \in VersionsAt(Loaded, s),
                 NEW z \in VersionsAt(Loaded, s), Like(x, y), Like(x, z)
          PROVE  y = z
      <3>1. x = Earlier(y) /\ x = Earlier(z)
        BY <2>5, <2>8
      <3>2. CASE y \in held /\ y.end # Open /\ z \in held /\ z.end # Open
        BY <3>1, <3>2 DEF Earlier
      <3>3. CASE y \in history /\ z \in history /\ Unended(y) = Unended(z)
        <4>1. Key(y) = Key(z)
          BY <3>3, <1>2, UnendedFacts
        <4> QED BY <4>1, <3>3 DEF IInv, ServerInv
      <3>4. CASE y \in held /\ y.end # Open /\ Earlier(z).end = Open
        BY <3>1, <3>4 DEF Earlier
      <3>5. CASE z \in held /\ z.end # Open /\ Earlier(y).end = Open
        BY <3>1, <3>5 DEF Earlier
      <3> QED BY <3>1, <3>2, <3>3, <3>4, <3>5, <2>4
    <2>9. ASSUME NEW x \in VersionsAt(held, s), NEW y \in VersionsAt(Loaded, s), Like(x, y), x.kind \in Parents
          PROVE  ChildrenOf(Loaded, y) = ChildrenOf(held, x)
      <3>1. x \in held /\ ChildrenOf(Loaded, x) = ChildrenOf(held, x)
        BY <2>9, LoadedChildren DEF VersionsAt
      <3>2. ChildrenOf(Loaded, y) = ChildrenOf(Loaded, x)
        BY <2>9 DEF Like, ChildrenOf, Parent
      <3> QED BY <3>1, <3>2
    <2> QED BY <2>0, <2>6, <2>7, <2>8, <2>9, TellsLike
  <1> QED BY <1>3, <1>4

\* What is pruned no snapshot left can see, and it is only versions.
LEMMA PrunedFacts ==
  ASSUME NEW rows
  PROVE  /\ Pruned(rows) \subseteq rows
         /\ \A s : s >= oldest /\ s \in Int /\ oldest \in Int
                   /\ (\A r \in rows : IsVersioned(r.kind) => r.end \in Int) =>
                     VersionsAt(Pruned(rows), s) = VersionsAt(rows, s)
         /\ \A p : ChildrenOf(Pruned(rows), p) = ChildrenOf(rows, p)
         /\ \A r \in rows : r.end = Open \/ ~IsVersioned(r.kind) => r \in Pruned(rows)
  BY DEF Pruned, VersionsAt, VisibleAt, ChildrenOf, IsChild

LEMMA ServerUnchanged ==
  ASSUME ServerInv, UNCHANGED server
  PROVE  ServerInv'
  BY DEF ServerInv, server, Latest

\* A load keeps the invariant.
LEMMA LoadKeeps ==
  ASSUME IInv, Load
  PROVE  IInv'
  <1>1. /\ held' = IF asOf # 0 /\ oldest > base THEN Pruned(Loaded) ELSE Loaded
        /\ asOf' = Latest /\ base' = oldest /\ known' = Inlined
        /\ UNCHANGED server
    BY DEF Load, Loaded, Reading
  <1>2. ServerInv /\ ServerInv' /\ Latest' = Latest /\ history' = history /\ oldest' = oldest /\ next' = next
        /\ shown' = shown
    BY <1>1, ServerUnchanged DEF IInv, server, Latest
  <1>3. /\ \A r \in history : RowOK(r, next, Latest) /\ (IsVersioned(r.kind) => r.end > oldest)
        /\ oldest \in 1..Latest /\ Latest \in 1..MaxSnapshot /\ Latest \in Int /\ oldest \in Int /\ Latest < Open
        /\ asOf \in Int /\ asOf <= Latest
    BY <1>2, BoundTypes DEF ServerInv, IInv, MirrorInv, Open
  <1>4. \A x : x \in Loaded /\ IsVersioned(x.kind) <=>
              \/ x \in held /\ IsVersioned(x.kind) /\ x.end # Open
              \/ x \in history /\ IsVersioned(x.kind) /\ asOf < x.end
    BY LoadedRows
  <1>5. {x \in Loaded : x.kind = INLINED_TABLE_ROW} = Inlined /\ \A x \in Loaded : RowOK(x, next, Latest)
    BY LoadedRows
  <1>6. /\ held' \subseteq Loaded
        /\ \A s \in oldest..Latest : VersionsAt(held', s) = VersionsAt(Loaded, s)
        /\ \A p : ChildrenOf(held', p) = ChildrenOf(Loaded, p)
        /\ \A r \in Loaded : r.end = Open \/ ~IsVersioned(r.kind) => r \in held'
    <2>1. CASE held' = Loaded
      BY <2>1
    <2>2. CASE held' = Pruned(Loaded)
      <3>1. \A r \in Loaded : IsVersioned(r.kind) => r.end \in Int
        BY <1>3, <1>5 DEF RowOK, Open
      <3> QED BY <2>2, <3>1, <1>3, PrunedFacts
    <2> QED BY <2>1, <2>2, <1>1
  <1>7. \A r \in held' : /\ RowOK(r, next, Latest)
                         /\ IsVersioned(r.kind) => r.begin <= Latest /\ (r.end <= Latest \/ r.end = Open)
    <2> TAKE r \in held'
    <2>1. RowOK(r, next, Latest)
      BY <1>5, <1>6
    <2> QED BY <2>1, <1>3 DEF RowOK
  <1>8. HeldOpen' = {Unended(r) : r \in Told'}
    <2>1. \A r \in Told' : r \in history /\ IsVersioned(r.kind) /\ r.end = Open /\ Unended(r) = r
      <3> TAKE r \in Told'
      <3>1. r \in history /\ IsVersioned(r.kind) /\ Latest < r.end /\ RowOK(r, next, Latest)
        BY <1>1, <1>2, <1>3 DEF Told
      <3>2. r.end = Open
        BY <3>1, <1>3 DEF RowOK
      <3> QED BY <3>1, <3>2, UnendedFacts
    <2>2. \A r \in history : IsVersioned(r.kind) /\ r.end = Open => r \in Told' /\ r \in held'
      <3> TAKE r \in history
      <3> SUFFICES ASSUME IsVersioned(r.kind), r.end = Open PROVE r \in Told' /\ r \in held'
        OBVIOUS
      <3>1. r.begin <= Latest /\ asOf < r.end /\ Latest < r.end
        BY <1>3 DEF RowOK, Open
      <3> QED BY <3>1, <1>1, <1>2, <1>4, <1>6 DEF Told
    <2>3. \A r \in held' : IsVersioned(r.kind) /\ r.end = Open => r \in history
      BY <1>4, <1>6
    <2> QED BY <2>1, <2>2, <2>3, <1>2 DEF HeldOpen
  <1>9. {r \in held' : r.kind = INLINED_TABLE_ROW} = known'
    BY <1>1, <1>5, <1>6 DEF IsVersioned
  <1>10. \A p \in history : p.kind \in Parents => ChildrenOf(held', p) = ChildrenOf(history, p) /\ p.begin <= Latest
    <2> TAKE p \in history
    <2> SUFFICES ASSUME p.kind \in Parents PROVE ChildrenOf(held', p) = ChildrenOf(history, p) /\ p.begin <= Latest
      OBVIOUS
    <2>1. RowOK(p, next, Latest)
      BY <1>3
    <2>2. p.begin <= Latest
      BY <2>1, <1>3, KindFacts DEF RowOK
    <2> QED BY <2>2, <1>6, LoadedChildren
  <1>11. \A s \in oldest..Latest : Tells(held', s, shown[s])
    <2> TAKE s \in oldest..Latest
    <2>1. Tells(Loaded, s, shown[s])
      BY LoadedTells
    <2> QED BY <2>1, <1>6, TellsAlike
  <1>12. MirrorInv'
    <2>1. /\ asOf' \in 0..Latest' /\ base' \in 0..asOf' /\ base' <= oldest'
          /\ asOf' # 0 /\ oldest' <= asOf' /\ base' # 0
      BY <1>1, <1>2, <1>3
    <2>2. \A r \in held' : /\ RowOK(r, next', Latest')
                           /\ IsVersioned(r.kind) => r.begin <= asOf' /\ (r.end <= asOf' \/ r.end = Open)
      BY <1>1, <1>2, <1>7
    <2>3. \A p \in history' : p.kind \in Parents =>
            ChildrenOf(held', p) = (IF p.begin <= asOf' THEN ChildrenOf(history', p) ELSE {}) /\ p.begin <= asOf'
      BY <1>1, <1>2, <1>10
    <2>4. \A s \in base'..asOf' : Tells(held', s, shown'[s])
      BY <1>1, <1>2, <1>11
    <2> QED BY <2>1, <2>2, <2>3, <2>4, <1>8, <1>9 DEF MirrorInv
  <1> QED BY <1>2, <1>12 DEF IInv
-----------------------------------------------------------------------------
(* A commit *)

Ended(r, dead) == IF r \in dead THEN [r EXCEPT !.end = Latest + 1] ELSE r
Begun(r) == IF IsVersioned(r.kind) THEN [r EXCEPT !.begin = Latest + 1] ELSE r

\* What a commit writes when it makes lake of the last one, with new rows and n for the next id; the
\* rows of dead end, and gone is what they said.
Writes(dead, new, lake, n) ==
  /\ Latest < MaxSnapshot
  /\ history' = {Ended(r, dead) : r \in history} \cup {Begun(r) : r \in new}
  /\ shown' = Append(shown, lake) /\ next' = n
  /\ UNCHANGED <<oldest, mirror>>

Opened == {r \in history : IsVersioned(r.kind) /\ r.end = Open}

\* The new rows are rows, each of a thing of its own; parents come with their children, under the
\* next id.
NewRowsOK(new, n) ==
  /\ n \in {next, next + 1}
  /\ \A r \in new : /\ r = Row(r.kind, r.ids, r.name) /\ r.kind \in Kinds
                    /\ r.ids \in [1..Width(r.kind) -> Int] /\ r.name \in Int
                    /\ r.ids[1] \in 0..(n - 1)
                    /\ ~IsVersioned(r.kind) => r.name = 0
                    /\ r.kind \in Parents \cup Children => r.ids[1] = next
  /\ \A r, q \in new : SameThing(r, q) => r = q

\* What the rows say afterwards is what the new lake is.
LinesFollow(dead, gone, new, lake) ==
  /\ dead \subseteq Opened
  /\ \A r \in Opened : Speaks(r) => (r \in dead <=> LineOf(r) \in gone)
  /\ \A r \in Opened \ dead, q \in new : ~SameThing(r, q)
  /\ \A l : l \in Lines(lake) <=>
       \/ l \in Lines(Lake) /\ l \notin gone
       \/ \E r \in new : IsVersioned(r.kind) /\ Speaks(r) /\ l = LineOf(r)
  /\ \A p \in Opened \ dead : p.kind \in Parents =>
       ChildRows(lake, p.kind, p.ids) = ChildRows(Lake, p.kind, p.ids)
  /\ \A p \in new : p.kind \in Parents => {r \in new : IsChild(r) /\ Parent(r, p)} = ChildRows(lake, p.kind, p.ids)

\* What a commit does to a row: it ends it, or not; it begins it if it is a version.
LEMMA EndedFacts ==
  ASSUME ServerInv, NEW dead, dead \subseteq Opened, NEW r \in history
  PROVE  LET e == Ended(r, dead)
         IN  /\ e.kind = r.kind /\ e.ids = r.ids /\ e.name = r.name /\ e.begin = r.begin
             /\ e.end = IF r \in dead THEN Latest + 1 ELSE r.end
             /\ Key(e) = Key(r) /\ (~IsVersioned(r.kind) => e = r) /\ (r \notin dead => e = r)
             /\ Unended(e) = Unended(r)
             /\ RowOK(e, next, Latest + 1)
  <1>1. RowOK(r, next, Latest) /\ Latest \in Int
    BY BoundTypes DEF ServerInv
  <1>2. CASE r \in dead
    <2>1. Ended(r, dead) = [r EXCEPT !.end = Latest + 1] /\ IsVersioned(r.kind) /\ r.end = Open
      BY <1>2 DEF Ended, Opened
    <2>2. Ended(r, dead) = [kind |-> r.kind, ids |-> r.ids, name |-> r.name, begin |-> r.begin, end |-> Latest + 1]
      BY <2>1, <1>1, EndFacts
    <2>3. RowOK(Ended(r, dead), next, Latest + 1)
      BY <2>1, <2>2, <1>1 DEF RowOK
    <2>4. Key(Ended(r, dead)) = Key(r)
      BY <2>2 DEF Key
    <2>5. Unended(Ended(r, dead)) = Unended(r)
      BY <2>2, <1>1 DEF Unended, RowOK
    <2> QED BY <2>1, <2>2, <2>3, <2>4, <2>5, <1>2
  <1>3. CASE r \notin dead
    <2>1. Ended(r, dead) = r
      BY <1>3 DEF Ended
    <2>2. RowOK(r, next, Latest + 1)
      BY <1>1 DEF RowOK
    <2> QED BY <2>1, <2>2, <1>3
  <1> QED BY <1>2, <1>3

LEMMA BegunFacts ==
  ASSUME ServerInv, Latest < MaxSnapshot, NEW new, NEW n, NewRowsOK(new, n), NEW r \in new
  PROVE  LET b == Begun(r)
         IN  /\ b.kind = r.kind /\ b.ids = r.ids /\ b.name = r.name /\ b.end = Open
             /\ IF IsVersioned(r.kind) THEN b.begin = Latest + 1 ELSE b = r
             /\ RowOK(b, n, Latest + 1)
  <1>1. r = [kind |-> r.kind, ids |-> r.ids, name |-> r.name, begin |-> 0, end |-> Open]
    BY DEF NewRowsOK, Row
  <1>2. Latest \in Int /\ 1 <= Latest /\ Latest + 1 < Open
    BY BoundTypes DEF ServerInv, Open
  <1>3. CASE IsVersioned(r.kind)
    <2>1. Begun(r) = [kind |-> r.kind, ids |-> r.ids, name |-> r.name, begin |-> Latest + 1, end |-> Open]
      BY <1>1, <1>3 DEF Begun
    <2> QED BY <2>1, <1>2, <1>3 DEF NewRowsOK, RowOK
  <1>4. CASE ~IsVersioned(r.kind)
    <2>1. Begun(r) = r
      BY <1>4 DEF Begun
    <2> QED BY <2>1, <1>1, <1>2, <1>4 DEF NewRowsOK, RowOK
  <1> QED BY <1>3, <1>4

\* A commit keeps what the server's rows are: each with a key of its own, and parents with an id of
\* their own.
LEMMA CommitKeepsRows ==
  ASSUME ServerInv, NEW dead, NEW new, NEW lake, NEW n, NEW gone,
         Writes(dead, new, lake, n), NewRowsOK(new, n), LinesFollow(dead, gone, new, lake)
  PROVE  /\ \A r \in history' : RowOK(r, next', Latest + 1) /\ (IsVersioned(r.kind) => r.end > oldest)
         /\ \A r, q \in history' : Key(r) = Key(q) => r = q
         /\ \A p, q \in history' : p.kind \in Parents /\ p.kind = q.kind /\ p.ids[1] = q.ids[1] => p = q
  <1>1. /\ history' = {Ended(r, dead) : r \in history} \cup {Begun(r) : r \in new}
        /\ next' = n /\ n \in {next, next + 1} /\ next \in Nat /\ Latest < MaxSnapshot /\ dead \subseteq Opened
        /\ Latest \in Int /\ oldest \in Int /\ oldest <= Latest /\ 1 <= Latest /\ Latest + 1 < Open /\ Open \in Int
    BY BoundTypes DEF Writes, NewRowsOK, LinesFollow, ServerInv, Open
  <1>2. \A r \in history : RowOK(r, next, Latest) /\ (IsVersioned(r.kind) => r.end > oldest)
    BY DEF ServerInv
  <1>3. ASSUME NEW r \in history
        PROVE  LET e == Ended(r, dead)
               IN  /\ e.kind = r.kind /\ e.ids = r.ids /\ e.begin = r.begin /\ Key(e) = Key(r)
                   /\ e.end \in {r.end, Latest + 1} /\ (~IsVersioned(r.kind) => e = r)
                   /\ RowOK(e, n, Latest + 1)
    <2>1. RowOK(Ended(r, dead), next, Latest + 1)
      BY <1>1, EndedFacts
    <2>2. RowOK(Ended(r, dead), n, Latest + 1)
      BY <2>1, <1>1 DEF RowOK
    <2> QED BY <2>2, <1>1, EndedFacts
  <1>4. ASSUME NEW r \in new
        PROVE  LET b == Begun(r)
               IN  /\ b.kind = r.kind /\ b.ids = r.ids /\ b.end = Open
                   /\ IF IsVersioned(r.kind) THEN b.begin = Latest + 1 ELSE b = r
                   /\ RowOK(b, n, Latest + 1)
                   /\ r.kind \in Kinds /\ (r.kind \in Parents \cup Children => r.ids[1] = next)
    BY <1>1, BegunFacts DEF NewRowsOK
  <1>5. ASSUME NEW r \in history' PROVE RowOK(r, next', Latest + 1) /\ (IsVersioned(r.kind) => r.end > oldest)
    <2>1. CASE \E q \in history : r = Ended(q, dead)
      BY <2>1, <1>1, <1>2, <1>3
    <2>2. CASE \E q \in new : r = Begun(q)
      BY <2>2, <1>1, <1>4
    <2> QED BY <2>1, <2>2, <1>1
  \* An old row and a new one never have one key, nor a parent one id with another.
  <1>6. ASSUME NEW r \in history, NEW q \in new, Key(Ended(r, dead)) = Key(Begun(q))
        PROVE  Ended(r, dead) = Begun(q)
    <2>1. r.kind = q.kind /\ r.kind \in Kinds /\ \A i \in 1..KeyIds(r.kind) : r.ids[i] = q.ids[i]
      BY <1>2, <1>3, <1>4, <1>6, KeyFacts DEF RowOK
    <2>2. ~IsVersioned(r.kind)
      <3> SUFFICES ASSUME IsVersioned(r.kind) PROVE FALSE
        OBVIOUS
      <3>1. r.begin = Latest + 1
        BY <1>2, <1>3, <1>4, <1>6, <2>1, KeyFacts DEF RowOK
      <3> QED BY <3>1, <1>1, <1>2 DEF RowOK
    <2>3. r.kind \notin Children
      <3> SUFFICES ASSUME r.kind \in Children PROVE FALSE
        OBVIOUS
      <3>1. r.ids[1] = next
        BY <2>1, <1>4, KindFacts
      <3> QED BY <3>1, <1>1, <1>2 DEF RowOK
    <2>4. r.kind = INLINED_TABLE_ROW
      BY <2>1, <2>2, <2>3, KindFacts
    <2>5. r.ids = q.ids
      <3>1. r.ids \in [1..2 -> Int] /\ q.ids \in [1..2 -> Int]
        <4>1. Width(INLINED_TABLE_ROW) = 2
          BY DEF Width
        <4>2. r.ids \in [1..Width(r.kind) -> Int] /\ q.ids \in [1..Width(q.kind) -> Int]
          BY <1>2 DEF RowOK, NewRowsOK
        <4> QED BY <4>1, <4>2, <2>1, <2>4
      <3>2. r.ids[1] = q.ids[1] /\ r.ids[2] = q.ids[2]
        BY <2>1, <2>4 DEF KeyIds
      <3> QED BY <3>1, <3>2
    <2>6. r = [kind |-> r.kind, ids |-> r.ids, name |-> 0, begin |-> 0, end |-> Open]
      BY <2>2, <1>2 DEF RowOK
    <2>7. q = [kind |-> q.kind, ids |-> q.ids, name |-> 0, begin |-> 0, end |-> Open]
      BY <2>1, <2>2 DEF NewRowsOK, Row
    <2> QED BY <2>1, <2>2, <2>5, <2>6, <2>7, <1>3, <1>4
  <1>7. ASSUME NEW r \in new, NEW q \in new, SameThing(r, q) PROVE r = q
    BY <1>7 DEF NewRowsOK
  <1>8. ASSUME NEW r \in history', NEW q \in history', Key(r) = Key(q) PROVE r = q
    <2>1. CASE (\E x \in history : r = Ended(x, dead)) /\ (\E y \in history : q = Ended(y, dead))
      <3>1. PICK x \in history, y \in history : r = Ended(x, dead) /\ q = Ended(y, dead)
        BY <2>1
      <3>2. Key(x) = Key(y)
        BY <3>1, <1>3, <1>8
      <3> QED BY <3>1, <3>2 DEF ServerInv
    <2>2. CASE (\E x \in history : r = Ended(x, dead)) /\ (\E y \in new : q = Begun(y))
      BY <2>2, <1>6, <1>8
    <2>3. CASE (\E x \in new : r = Begun(x)) /\ (\E y \in history : q = Ended(y, dead))
      BY <2>3, <1>6, <1>8
    <2>4. CASE (\E x \in new : r = Begun(x)) /\ (\E y \in new : q = Begun(y))
      <3>1. PICK x \in new, y \in new : r = Begun(x) /\ q = Begun(y)
        BY <2>4
      <3>2. SameThing(x, y)
        <4>1. r.kind \in Kinds
          BY <3>1, <1>4
        <4>2. r.kind = q.kind /\ \A i \in 1..KeyIds(r.kind) : r.ids[i] = q.ids[i]
          BY <4>1, <1>8, KeyFacts
        <4> QED BY <4>2, <3>1, <1>4 DEF SameThing
      <3> QED BY <3>1, <3>2, <1>7
    <2> QED BY <2>1, <2>2, <2>3, <2>4, <1>1
  <1>9. ASSUME NEW p \in history', NEW q \in history', p.kind \in Parents, p.kind = q.kind, p.ids[1] = q.ids[1]
        PROVE p = q
    <2>1. \A x \in history : x.ids[1] # next
      BY <1>2, <1>1 DEF RowOK
    <2>2. CASE (\E x \in history : p = Ended(x, dead)) /\ (\E y \in history : q = Ended(y, dead))
      <3>1. PICK x \in history, y \in history : p = Ended(x, dead) /\ q = Ended(y, dead)
        BY <2>2
      <3>2. x = y
        BY <3>1, <1>3, <1>9 DEF ServerInv
      <3> QED BY <3>1, <3>2
    <2>3. CASE (\E x \in new : p = Begun(x)) /\ (\E y \in new : q = Begun(y))
      <3>1. PICK x \in new, y \in new : p = Begun(x) /\ q = Begun(y)
        BY <2>3
      <3>2. KeyIds(x.kind) = 1 /\ x.kind = y.kind /\ x.ids[1] = y.ids[1]
        BY <3>1, <1>4, <1>9 DEF KeyIds, Parents
      <3>3. SameThing(x, y)
        BY <3>2 DEF SameThing
      <3> QED BY <3>1, <3>3, <1>7
    <2>4. CASE (\E x \in history : p = Ended(x, dead)) /\ (\E y \in new : q = Begun(y))
      BY <2>1, <2>4, <1>3, <1>4, <1>9
    <2>5. CASE (\E x \in new : p = Begun(x)) /\ (\E y \in history : q = Ended(y, dead))
      BY <2>1, <2>5, <1>3, <1>4, <1>9
    <2> QED BY <2>2, <2>3, <2>4, <2>5, <1>1
  <1> QED BY <1>5, <1>8, <1>9

\* The children that a commit adds are of parents that it adds.
LEMMA CommitChildren ==
  ASSUME ServerInv, NEW dead, NEW new, NEW lake, NEW n, NEW gone,
         Writes(dead, new, lake, n), NewRowsOK(new, n), LinesFollow(dead, gone, new, lake)
  PROVE  /\ \A p : p.ids[1] # next => ChildrenOf(history', p) = ChildrenOf(history, p)
         /\ \A p : p.ids[1] = next => ChildrenOf(history', p) = {r \in new : IsChild(r) /\ Parent(r, p)}
  <1>1. /\ history' = {Ended(r, dead) : r \in history} \cup {Begun(r) : r \in new}
        /\ Latest < MaxSnapshot /\ dead \subseteq Opened /\ next \in Nat
    BY DEF Writes, LinesFollow, ServerInv
  <1>2. \A r \in history : /\ Ended(r, dead).kind = r.kind /\ (~IsVersioned(r.kind) => Ended(r, dead) = r)
                           /\ r.ids[1] # next
    <2> TAKE r \in history
    <2>1. RowOK(r, next, Latest)
      BY DEF ServerInv
    <2>2. Ended(r, dead).kind = r.kind /\ (~IsVersioned(r.kind) => Ended(r, dead) = r)
      BY <1>1, EndedFacts
    <2>3. r.ids[1] # next
      BY <2>1, <1>1 DEF RowOK
    <2> QED BY <2>2, <2>3
  <1>3. \A r \in new : /\ Begun(r).kind = r.kind /\ (~IsVersioned(r.kind) => Begun(r) = r)
                       /\ IsChild(r) => r.ids[1] = next
    <2> TAKE r \in new
    <2>1. /\ Begun(r).kind = r.kind /\ (~IsVersioned(r.kind) => Begun(r) = r)
      BY <1>1, BegunFacts
    <2>2. IsChild(r) => r.ids[1] = next
      BY ChildFacts DEF NewRowsOK
    <2> QED BY <2>1, <2>2
  <1>4. \A x : x \in history' /\ IsChild(x) <=> IsChild(x) /\ (x \in history \/ x \in new)
    <2>1. ASSUME NEW x \in history', IsChild(x) PROVE x \in history \/ x \in new
      BY <2>1, <1>1, <1>2, <1>3 DEF IsChild
    <2>2. ASSUME NEW x \in history, IsChild(x) PROVE x \in history'
      <3>1. x = Ended(x, dead)
        BY <2>2, <1>2 DEF IsChild
      <3> QED BY <3>1, <1>1
    <2>3. ASSUME NEW x \in new, IsChild(x) PROVE x \in history'
      <3>1. x = Begun(x)
        BY <2>3, <1>3 DEF IsChild
      <3> QED BY <3>1, <1>1
    <2> QED BY <2>1, <2>2, <2>3
  <1> QED BY <1>2, <1>3, <1>4 DEF ChildrenOf, Parent

\* Before the commit every snapshot sees what it saw.
LEMMA CommitTellsBefore ==
  ASSUME ServerInv, NEW dead, NEW new, NEW lake, NEW n, NEW gone,
         Writes(dead, new, lake, n), NewRowsOK(new, n), LinesFollow(dead, gone, new, lake),
         NEW s \in oldest..Latest
  PROVE  Tells(history', s, shown[s])
  <1>1. /\ history' = {Ended(r, dead) : r \in history} \cup {Begun(r) : r \in new}
        /\ Latest < MaxSnapshot /\ dead \subseteq Opened /\ next \in Nat
        /\ s \in Int /\ Latest \in Int /\ s <= Latest /\ Latest + 1 < Open /\ Open \in Int
    BY BoundTypes DEF Writes, LinesFollow, ServerInv, Open
  <1>2. \A r \in history : RowOK(r, next, Latest)
    BY DEF ServerInv
  <1>3. \A r \in history : /\ Like(r, Ended(r, dead)) /\ (IsVersioned(r.kind) => Ended(r, dead).begin = r.begin)
                           /\ Ended(r, dead).end = IF r \in dead THEN Latest + 1 ELSE r.end
    BY <1>1, EndedFacts DEF Like
  <1>4. ASSUME NEW r \in history
        PROVE  r \in VersionsAt(history, s) <=> Ended(r, dead) \in VersionsAt(history', s)
    <2>1. Ended(r, dead) \in history' /\ Ended(r, dead).kind = r.kind
      BY <1>1, <1>3 DEF Like
    <2>2. r \in dead => r.end = Open /\ s < Latest + 1 /\ s < Open
      BY <1>1 DEF Opened
    <2>3. IsVersioned(r.kind) => (VisibleAt(r, s) <=> VisibleAt(Ended(r, dead), s))
      BY <2>1, <2>2, <1>3 DEF VisibleAt
    <2> QED BY <2>1, <2>3 DEF VersionsAt
  <1>5. ASSUME NEW y \in VersionsAt(history', s)
        PROVE  \E r \in VersionsAt(history, s) : y = Ended(r, dead)
    <2>1. CASE \E r \in history : y = Ended(r, dead)
      BY <2>1, <1>4
    <2>2. CASE \E r \in new : y = Begun(r)
      <3>1. PICK r \in new : y = Begun(r)
        BY <2>2
      <3>2. y.kind = r.kind /\ (IsVersioned(r.kind) => y.begin = Latest + 1)
        BY <3>1, <1>1, BegunFacts
      <3>3. FALSE
        BY <3>2, <1>1 DEF VersionsAt, VisibleAt
      <3> QED BY <3>3
    <2> QED BY <2>1, <2>2, <1>1 DEF VersionsAt
  <1>6. Tells(history, s, shown[s])
    BY DEF ServerInv
  <1>7. ASSUME NEW x \in VersionsAt(history, s), NEW r \in VersionsAt(history, s), Like(x, Ended(r, dead))
        PROVE  x = r
    <2>1. SameThing(x, r)
      BY <1>3, <1>7 DEF Like, SameThing, VersionsAt
    <2> QED BY <2>1, <1>6 DEF Tells
  <1>8. ASSUME NEW r \in VersionsAt(history, s), r.kind \in Parents
        PROVE  ChildrenOf(history', Ended(r, dead)) = ChildrenOf(history, r)
    <2>1. r \in history /\ RowOK(r, next, Latest) /\ r.ids[1] # next
      BY <1>1, <1>2 DEF VersionsAt, RowOK
    <2>2. Ended(r, dead).ids = r.ids /\ Ended(r, dead).kind = r.kind
      BY <2>1, <1>3 DEF Like
    <2>3. ChildrenOf(history', Ended(r, dead)) = ChildrenOf(history, Ended(r, dead))
      BY <2>1, <2>2, CommitChildren
    <2> QED BY <2>2, <2>3 DEF ChildrenOf, Parent
  <1>9. \A y \in VersionsAt(history', s) : \E x \in VersionsAt(history, s) : Like(x, y)
    BY <1>5, <1>3 DEF VersionsAt
  <1>10. \A x \in VersionsAt(history, s) : \E y \in VersionsAt(history', s) : Like(x, y)
    BY <1>4, <1>3 DEF VersionsAt
  <1>11. \A x \in VersionsAt(history, s), y, z \in VersionsAt(history', s) : Like(x, y) /\ Like(x, z) => y = z
    BY <1>5, <1>7
  <1>12. \A x \in VersionsAt(history, s), y \in VersionsAt(history', s) :
           Like(x, y) /\ x.kind \in Parents => ChildrenOf(history', y) = ChildrenOf(history, x)
    BY <1>5, <1>7, <1>8
  <1> QED BY <1>6, <1>9, <1>10, <1>11, <1>12, TellsLike

\* The snapshot of the commit sees the lake that it leaves.
LEMMA CommitTellsAfter ==
  ASSUME ServerInv, NEW dead, NEW new, NEW lake, NEW n, NEW gone,
         Writes(dead, new, lake, n), NewRowsOK(new, n), LinesFollow(dead, gone, new, lake)
  PROVE  Tells(history', Latest + 1, lake)
  <1> DEFINE s == Latest + 1
  <1>1. /\ history' = {Ended(r, dead) : r \in history} \cup {Begun(r) : r \in new}
        /\ Latest < MaxSnapshot /\ dead \subseteq Opened /\ next \in Nat
        /\ Latest \in Int /\ Latest \in oldest..Latest /\ Latest + 1 < Open /\ Open \in Int
    BY BoundTypes DEF Writes, LinesFollow, ServerInv, Open
  <1>2. \A r \in history : RowOK(r, next, Latest)
    BY DEF ServerInv
  <1>3. Tells(history, Latest, Lake)
    BY <1>1 DEF ServerInv, Lake
  <1>4. VersionsAt(history, Latest) = Opened
    BY <1>1, <1>2 DEF VersionsAt, VisibleAt, Opened, RowOK
  <1>5. \A r \in new : /\ Begun(r).kind = r.kind /\ Begun(r).ids = r.ids /\ Begun(r).name = r.name
                       /\ LineOf(Begun(r)) = LineOf(r) /\ (Speaks(Begun(r)) <=> Speaks(r))
                       /\ IsVersioned(r.kind) => Begun(r).begin = Latest + 1 /\ Begun(r).end = Open
    BY <1>1, BegunFacts DEF LineOf, Line, Speaks
  <1>6. \A r \in Opened \ dead : r \in VersionsAt(history', s)
    <2> TAKE r \in Opened \ dead
    <2>1. r \in history' /\ RowOK(r, next, Latest) /\ IsVersioned(r.kind) /\ r.end = Open
      BY <1>1, <1>2 DEF Opened, Ended
    <2> QED BY <2>1, <1>1 DEF VersionsAt, VisibleAt, RowOK
  <1>7. \A r \in new : IsVersioned(r.kind) => Begun(r) \in VersionsAt(history', s)
    BY <1>1, <1>5 DEF VersionsAt, VisibleAt
  <1>8. ASSUME NEW y \in VersionsAt(history', s)
        PROVE  \/ y \in Opened \ dead
               \/ \E r \in new : IsVersioned(r.kind) /\ y = Begun(r)
    <2>1. IsVersioned(y.kind) /\ y \in history' /\ Latest + 1 < y.end
      BY DEF VersionsAt, VisibleAt
    <2>2. CASE \E r \in history : y = Ended(r, dead)
      <3>1. PICK r \in history : y = Ended(r, dead)
        BY <2>2
      <3>2. r \notin dead /\ y = r
        <4>1. /\ Ended(r, dead).end = IF r \in dead THEN Latest + 1 ELSE r.end
              /\ r \notin dead => Ended(r, dead) = r
          BY <1>1, EndedFacts
        <4> QED BY <4>1, <3>1, <2>1, <1>1
      <3>3. r.end = Open
        BY <3>2, <2>1, <1>1, <1>2 DEF RowOK
      <3> QED BY <3>2, <3>3, <2>1 DEF Opened
    <2>3. CASE \E r \in new : y = Begun(r)
      BY <2>3, <2>1, <1>5
    <2> QED BY <2>1, <2>2, <2>3, <1>1
  <1> HIDE DEF s
  <1>9. {LineOf(r) : r \in {q \in VersionsAt(history', s) : Speaks(q)}} = Lines(lake)
    <2>1. \A l : l \in Lines(lake) <=>
            \/ l \in Lines(Lake) /\ l \notin gone
            \/ \E r \in new : IsVersioned(r.kind) /\ Speaks(r) /\ l = LineOf(r)
      BY DEF LinesFollow
    <2>2. \A r \in Opened : Speaks(r) => (r \in dead <=> LineOf(r) \in gone)
      BY DEF LinesFollow
    <2>3. Lines(Lake) = {LineOf(r) : r \in {q \in Opened : Speaks(q)}}
      BY <1>3, <1>4 DEF Tells
    <2>4. ASSUME NEW y \in VersionsAt(history', s), Speaks(y) PROVE LineOf(y) \in Lines(lake)
      <3>1. CASE y \in Opened \ dead
        BY <3>1, <2>1, <2>2, <2>3, <2>4
      <3>2. CASE \E r \in new : IsVersioned(r.kind) /\ y = Begun(r)
        BY <3>2, <2>1, <2>4, <1>5
      <3> QED BY <3>1, <3>2, <1>8
    <2>5. ASSUME NEW l \in Lines(lake)
          PROVE  \E y \in VersionsAt(history', s) : Speaks(y) /\ l = LineOf(y)
      <3>1. CASE l \in Lines(Lake) /\ l \notin gone
        <4>1. PICK r \in Opened : Speaks(r) /\ l = LineOf(r)
          BY <3>1, <2>3
        <4>2. r \notin dead
          BY <4>1, <3>1, <2>2
        <4> QED BY <4>1, <4>2, <1>6
      <3>2. CASE \E r \in new : IsVersioned(r.kind) /\ Speaks(r) /\ l = LineOf(r)
        BY <3>2, <1>5, <1>7
      <3> QED BY <3>1, <3>2, <2>1
    <2> QED BY <2>4, <2>5
  <1>10. ASSUME NEW x \in VersionsAt(history', s), NEW y \in VersionsAt(history', s), SameThing(x, y)
         PROVE  x = y
    <2>1. CASE x \in Opened \ dead /\ y \in Opened \ dead
      BY <2>1, <1>3, <1>4, <1>10 DEF Tells
    <2>2. \A r \in Opened \ dead, q \in new : ~SameThing(r, q) /\ ~SameThing(q, r)
      <3>1. \A r, q : SameThing(q, r) => SameThing(r, q)
        BY DEF SameThing
      <3>2. \A r \in Opened \ dead, q \in new : ~SameThing(r, q)
        BY DEF LinesFollow
      <3> QED BY <3>1, <3>2
    <2>3. ASSUME NEW q \in new, NEW b, b = Begun(q)
          PROVE  \A r : /\ SameThing(r, b) => SameThing(r, q)
                        /\ SameThing(b, r) => SameThing(q, r)
      <3>1. b.kind = q.kind /\ b.ids = q.ids
        BY <2>3, <1>5
      <3> QED BY <3>1 DEF SameThing
    <2>4. CASE (\E r \in new : x = Begun(r)) /\ (\E q \in new : y = Begun(q))
      <3>1. PICK r \in new : x = Begun(r)
        BY <2>4
      <3>2. PICK q \in new : y = Begun(q)
        BY <2>4
      <3>3. SameThing(r, y)
        BY <3>1, <2>3, <1>10
      <3>4. SameThing(r, q)
        BY <3>2, <3>3, <2>3
      <3>5. r = q
        BY <3>4 DEF NewRowsOK
      <3> QED BY <3>1, <3>2, <3>5
    <2>5. CASE x \in Opened \ dead /\ \E q \in new : y = Begun(q)
      <3>1. PICK q \in new : y = Begun(q)
        BY <2>5
      <3>2. SameThing(x, q)
        BY <3>1, <2>3, <1>10
      <3> QED BY <3>2, <2>2, <2>5
    <2>6. CASE y \in Opened \ dead /\ \E q \in new : x = Begun(q)
      <3>1. PICK q \in new : x = Begun(q)
        BY <2>6
      <3>2. SameThing(q, y)
        BY <3>1, <2>3, <1>10
      <3> QED BY <3>2, <2>2, <2>6
    <2> QED BY <2>1, <2>4, <2>5, <2>6, <1>8
  <1>11. ASSUME NEW p \in VersionsAt(history', s), p.kind \in Parents
         PROVE  ChildrenOf(history', p) = ChildRows(lake, p.kind, p.ids)
    <2>1. CASE p \in Opened \ dead
      <3>1. RowOK(p, next, Latest) /\ p.ids[1] # next
        BY <2>1, <1>1, <1>2 DEF Opened, RowOK
      <3>2. ChildrenOf(history', p) = ChildrenOf(history, p)
        BY <3>1, CommitChildren
      <3>3. ChildrenOf(history, p) = ChildRows(Lake, p.kind, p.ids)
        BY <2>1, <1>3, <1>4, <1>11 DEF Tells
      <3> QED BY <3>2, <3>3, <2>1, <1>11 DEF LinesFollow
    <2>2. CASE \E r \in new : IsVersioned(r.kind) /\ p = Begun(r)
      <3>1. PICK r \in new : IsVersioned(r.kind) /\ p = Begun(r)
        BY <2>2
      <3>2. p.kind = r.kind /\ p.ids = r.ids /\ r.kind \in Parents /\ p.ids[1] = next
        BY <3>1, <1>5, <1>11 DEF NewRowsOK
      <3>3. ChildrenOf(history', p) = {x \in new : IsChild(x) /\ Parent(x, p)}
        BY <3>2, CommitChildren
      <3>4. {x \in new : IsChild(x) /\ Parent(x, p)} = {x \in new : IsChild(x) /\ Parent(x, r)}
        BY <3>2 DEF Parent
      <3> QED BY <3>2, <3>3, <3>4 DEF LinesFollow
    <2> QED BY <2>1, <2>2, <1>8
  <1> QED BY <1>9, <1>10, <1>11 DEF Tells, s

LEMMA GrownOK ==
  ASSUME NEW r, NEW n \in Int, NEW m \in Int, NEW a \in Int, NEW b \in Int, n <= m, a <= b, RowOK(r, n, a)
  PROVE  RowOK(r, m, b)
  BY DEF RowOK

LEMMA LakeGrown ==
  ASSUME NEW lake, NEW n \in Nat, NEW m \in {n, n + 1}, LakeOK(lake, n)
  PROVE  LakeOK(lake, m)
  <1>1. lake.schemas \subseteq Nat /\ DOMAIN lake.objects \subseteq Nat
    BY DEF LakeOK, LakeType
  <1> QED BY <1>1 DEF LakeOK

\* A commit keeps the invariant.
LEMMA CommitKeeps ==
  ASSUME IInv, NEW dead, NEW new, NEW lake, NEW n, NEW gone,
         Writes(dead, new, lake, n), NewRowsOK(new, n), LinesFollow(dead, gone, new, lake), LakeOK(lake, n)
  PROVE  IInv'
  <1>1. /\ history' = {Ended(r, dead) : r \in history} \cup {Begun(r) : r \in new}
        /\ shown' = Append(shown, lake) /\ next' = n /\ n \in {next, next + 1}
        /\ Latest < MaxSnapshot /\ dead \subseteq Opened /\ next \in Nat
        /\ oldest' = oldest /\ held' = held /\ asOf' = asOf /\ base' = base /\ known' = known
    BY DEF Writes, NewRowsOK, LinesFollow, ServerInv, IInv, mirror
  <1>2. ServerInv /\ MirrorInv /\ Latest \in Nat /\ MaxSnapshot \in Nat /\ asOf \in Int
        /\ asOf <= Latest /\ oldest \in 1..Latest /\ Latest < Open /\ Open \in Int
    <2>1. ServerInv /\ MirrorInv
      BY DEF IInv
    <2>2. Latest \in 1..MaxSnapshot /\ oldest \in 1..Latest /\ asOf \in 0..Latest
      BY <2>1 DEF ServerInv, MirrorInv
    <2> QED BY <2>1, <2>2, BoundTypes DEF Open
  <1>3. /\ shown \in Seq(LakeType) /\ lake \in LakeType
    BY <1>2 DEF ServerInv, LakeOK
  <1>4. /\ shown' \in Seq(LakeType) /\ Latest' = Latest + 1 /\ shown'[Latest + 1] = lake
        /\ \A s \in 1..Latest : shown'[s] = shown[s]
    BY <1>1, <1>3 DEF Latest
  <1>5. ServerInv'
    <2>1. \A s \in 1..Latest' : LakeOK(shown'[s], next')
      <3> TAKE s \in 1..Latest'
      <3>1. CASE s = Latest + 1
        BY <3>1, <1>1, <1>4
      <3>2. CASE s \in 1..Latest
        <4>1. LakeOK(shown[s], next)
          BY <3>2, <1>2 DEF ServerInv
        <4>2. LakeOK(shown[s], n)
          BY <4>1, <1>1, LakeGrown
        <4> QED BY <4>2, <3>2, <1>1, <1>4
      <3> QED BY <3>1, <3>2, <1>2, <1>4
    <2>2. /\ \A r \in history' : RowOK(r, next', Latest') /\ (IsVersioned(r.kind) => r.end > oldest')
          /\ \A r, q \in history' : Key(r) = Key(q) => r = q
          /\ \A p, q \in history' : p.kind \in Parents /\ p.kind = q.kind /\ p.ids[1] = q.ids[1] => p = q
      BY <1>1, <1>2, <1>4, CommitKeepsRows
    <2>3. \A s \in oldest'..Latest' : Tells(history', s, shown'[s])
      <3> TAKE s \in oldest'..Latest'
      <3>1. CASE s = Latest + 1
        BY <3>1, <1>2, <1>4, CommitTellsAfter
      <3>2. CASE s \in oldest..Latest
        <4>1. Tells(history', s, shown[s])
          BY <3>2, <1>2, CommitTellsBefore
        <4> QED BY <4>1, <3>2, <1>2, <1>4
      <3>3. s \in oldest..(Latest + 1)
        BY <1>1, <1>4
      <3> QED BY <3>1, <3>2, <3>3, <1>2
    <2>4. next' \in Nat /\ Latest' \in 1..MaxSnapshot /\ oldest' \in 1..Latest'
      BY <1>1, <1>2, <1>4
    <2> QED BY <2>1, <2>2, <2>3, <2>4, <1>4 DEF ServerInv
  <1>6. \A r \in history : RowOK(r, next, Latest) /\ r.ids[1] # next
    BY <1>1, <1>2 DEF ServerInv, RowOK
  <1>7. \A r \in held : /\ RowOK(r, next, Latest) /\ r.ids[1] # next
                        /\ IsVersioned(r.kind) => r.begin <= asOf /\ (r.end <= asOf \/ r.end = Open)
    BY <1>1, <1>2 DEF MirrorInv, RowOK
  <1>8. ASSUME NEW r \in history
        PROVE  /\ Ended(r, dead).kind = r.kind /\ Ended(r, dead).ids = r.ids /\ Ended(r, dead).begin = r.begin
               /\ Ended(r, dead).end = (IF r \in dead THEN Latest + 1 ELSE r.end)
               /\ Unended(Ended(r, dead)) = Unended(r) /\ (r \in dead => r.end = Open)
    BY <1>1, <1>2, EndedFacts DEF Opened
  <1>9. ASSUME NEW r \in new
        PROVE  /\ Begun(r).kind = r.kind /\ Begun(r).ids = r.ids
               /\ IsVersioned(r.kind) => Begun(r).begin = Latest + 1
               /\ r.kind \in Parents => r.ids[1] = next /\ IsVersioned(r.kind)
    BY <1>1, <1>2, BegunFacts, KindFacts DEF NewRowsOK
  <1>10. \A r \in held : /\ RowOK(r, next', Latest')
                         /\ IsVersioned(r.kind) => r.begin <= asOf /\ (r.end <= asOf \/ r.end = Open)
    <2> TAKE r \in held
    <2>1. RowOK(r, next', Latest')
      BY <1>1, <1>2, <1>4, <1>7, GrownOK
    <2> QED BY <2>1, <1>7
  <1>11. HeldOpen' = {Unended(r) : r \in Told'}
    <2>1. \A r \in Told : Ended(r, dead) \in Told'
      <3> TAKE r \in Told
      <3>1. r \in history /\ IsVersioned(r.kind) /\ r.begin <= asOf /\ asOf < r.end
        BY DEF Told
      <3> QED BY <3>1, <1>1, <1>2, <1>8 DEF Told
    <2>2. \A q \in Told' : \E r \in Told : q = Ended(r, dead)
      <3> TAKE q \in Told'
      <3>1. q \in history' /\ IsVersioned(q.kind) /\ q.begin <= asOf /\ asOf < q.end
        BY <1>1 DEF Told
      <3>2. ASSUME NEW r \in new, q = Begun(r) PROVE FALSE
        BY <3>1, <3>2, <1>2, <1>9
      <3>3. PICK r \in history : q = Ended(r, dead)
        BY <3>1, <3>2, <1>1
      <3>4. r \in Told
        BY <3>1, <3>3, <1>2, <1>8 DEF Told
      <3> QED BY <3>3, <3>4
    <2>3. \A r \in Told : Unended(Ended(r, dead)) = Unended(r)
      BY <1>8 DEF Told
    <2>4. {Unended(r) : r \in Told'} = {Unended(r) : r \in Told}
      BY <2>1, <2>2, <2>3
    <2> QED BY <2>4, <1>1, <1>2 DEF HeldOpen, MirrorInv
  <1>12. ASSUME NEW p \in history', p.kind \in Parents
         PROVE  /\ ChildrenOf(held, p) = IF p.begin <= asOf THEN ChildrenOf(history', p) ELSE {}
                /\ \A q \in held : p.kind = q.kind /\ p.ids[1] = q.ids[1] => p.begin <= asOf
    <2>1. CASE \E r \in history : p = Ended(r, dead)
      <3>1. PICK r \in history : p = Ended(r, dead)
        BY <2>1
      <3>2. p.kind = r.kind /\ p.ids = r.ids /\ p.begin = r.begin /\ p.ids[1] # next
        BY <3>1, <1>6, <1>8
      <3>3. ChildrenOf(history', p) = ChildrenOf(history, p)
        BY <3>2, <1>2, CommitChildren
      <3>4. ChildrenOf(history, p) = ChildrenOf(history, r) /\ ChildrenOf(held, p) = ChildrenOf(held, r)
        BY <3>2 DEF ChildrenOf, Parent
      <3>5. ChildrenOf(held, r) = IF r.begin <= asOf THEN ChildrenOf(history, r) ELSE {}
        BY <3>2, <1>12, <1>2 DEF MirrorInv
      <3>6. \A q \in held : r.kind = q.kind /\ r.ids[1] = q.ids[1] => r.begin <= asOf
        BY <3>2, <1>12, <1>2 DEF MirrorInv
      <3> QED BY <3>2, <3>3, <3>4, <3>5, <3>6
    <2>2. CASE \E r \in new : p = Begun(r)
      <3>1. PICK r \in new : p = Begun(r)
        BY <2>2
      <3>2. p.ids[1] = next /\ p.begin = Latest + 1
        BY <3>1, <1>9, <1>12
      <3>3. ChildrenOf(held, p) = {}
        BY <3>2, <1>7 DEF ChildrenOf, Parent
      <3> QED BY <3>2, <3>3, <1>2, <1>7
    <2> QED BY <2>1, <2>2, <1>1
  <1>13. asOf # 0 => \A s \in base..asOf : Tells(held, s, shown'[s])
    <2> SUFFICES ASSUME asOf # 0, NEW s \in base..asOf PROVE Tells(held, s, shown'[s])
      OBVIOUS
    <2>1. Tells(held, s, shown[s]) /\ s \in 1..Latest
      BY <1>2 DEF MirrorInv
    <2> QED BY <2>1, <1>4
  <1>14. MirrorInv'
    <2>1. /\ asOf' \in 0..Latest' /\ base' \in 0..asOf' /\ base' <= oldest'
          /\ IF asOf' = 0 THEN held' = {} /\ known' = {} ELSE oldest' <= asOf' /\ base' # 0
      BY <1>1, <1>2, <1>4 DEF MirrorInv
    <2>2. {r \in held' : r.kind = INLINED_TABLE_ROW} = known'
      BY <1>1, <1>2 DEF MirrorInv
    <2>3. \A r \in held' : /\ RowOK(r, next', Latest')
                           /\ IsVersioned(r.kind) => r.begin <= asOf' /\ (r.end <= asOf' \/ r.end = Open)
      BY <1>1, <1>10
    <2>4. /\ \A p \in history' : p.kind \in Parents =>
               ChildrenOf(held', p) = IF p.begin <= asOf' THEN ChildrenOf(history', p) ELSE {}
          /\ \A p \in history', q \in held' :
               p.kind \in Parents /\ p.kind = q.kind /\ p.ids[1] = q.ids[1] => p.begin <= asOf'
      BY <1>1, <1>12
    <2>5. asOf' # 0 => \A s \in base'..asOf' : Tells(held', s, shown'[s])
      BY <1>1, <1>13
    <2> QED BY <2>1, <2>2, <2>3, <2>4, <2>5, <1>11 DEF MirrorInv
  <1> QED BY <1>5, <1>14 DEF IInv

-----------------------------------------------------------------------------
(* What takes rows from the server *)

\* Rows may go that no snapshot left can see, and children whose parents go too, without harm to
\* what is left or to a mirror.
LEMMA ShrinkKeeps ==
  ASSUME IInv, history' \subseteq history, UNCHANGED <<shown, next, mirror>>,
         oldest' \in oldest..Latest, asOf = 0 \/ oldest' <= asOf,
         \A r \in history : IsVersioned(r.kind) => (r \in history' <=> r.end > oldest'),
         \A p \in history' : p.kind \in Parents => ChildrenOf(history', p) = ChildrenOf(history, p)
  PROVE  IInv'
  <1>1. ServerInv /\ MirrorInv
    BY DEF IInv
  <1>2. /\ shown' = shown /\ next' = next /\ Latest' = Latest
        /\ held' = held /\ asOf' = asOf /\ base' = base /\ known' = known
    BY DEF mirror, Latest
  <1>3. /\ \A r \in history : RowOK(r, next, Latest)
        /\ \A r \in history : IsVersioned(r.kind) => r.begin \in Int /\ r.begin >= 1 /\ r.end \in Int
        /\ oldest \in Int /\ Latest \in Int /\ oldest' \in Int /\ 1 <= oldest /\ oldest <= oldest'
        /\ oldest' <= Latest /\ asOf \in Int /\ asOf >= 0 /\ base \in Int /\ base <= oldest
    <2>1. \A r \in history : RowOK(r, next, Latest)
      BY <1>1 DEF ServerInv
    <2>2. Latest \in 1..MaxSnapshot /\ oldest \in 1..Latest /\ asOf \in 0..Latest /\ base \in 0..asOf /\ base <= oldest
      BY <1>1 DEF ServerInv, MirrorInv
    <2>3. \A r \in history : IsVersioned(r.kind) => r.begin \in Int /\ r.begin >= 1 /\ r.end \in Int
      BY <2>1, <2>2 DEF RowOK, Open
    <2> QED BY <2>1, <2>2, <2>3
  <1>4. ASSUME NEW s \in oldest'..Latest PROVE Tells(history', s, shown[s])
    <2>1. VersionsAt(history', s) = VersionsAt(history, s)
      BY <1>3 DEF VersionsAt, VisibleAt
    <2>2. \A p \in VersionsAt(history, s) : p.kind \in Parents => ChildrenOf(history', p) = ChildrenOf(history, p)
      BY <2>1 DEF VersionsAt
    <2>3. Tells(history, s, shown[s])
      BY <1>1, <1>3 DEF ServerInv
    <2> QED BY <2>1, <2>2, <2>3, TellsAlike
  <1>5. ServerInv'
    <2>1. \A r \in history' : RowOK(r, next', Latest') /\ (IsVersioned(r.kind) => r.end > oldest')
      BY <1>2, <1>3
    <2>2. /\ \A r, q \in history' : Key(r) = Key(q) => r = q
          /\ \A p, q \in history' : p.kind \in Parents /\ p.kind = q.kind /\ p.ids[1] = q.ids[1] => p = q
      BY <1>1 DEF ServerInv
    <2>3. \A s \in oldest'..Latest' : Tells(history', s, shown'[s])
      BY <1>2, <1>4
    <2>4. /\ next' \in Nat /\ shown' \in Seq(LakeType) /\ Latest' \in 1..MaxSnapshot /\ oldest' \in 1..Latest'
          /\ \A s \in 1..Latest' : LakeOK(shown'[s], next')
      BY <1>1, <1>2, <1>3 DEF ServerInv
    <2> QED BY <2>1, <2>2, <2>3, <2>4 DEF ServerInv
  <1>6. Told' = Told
    <2>1. \A r \in history : IsVersioned(r.kind) /\ r.begin <= asOf /\ asOf < r.end => r \in history'
      BY <1>3
    <2> QED BY <2>1, <1>2 DEF Told
  <1>7. MirrorInv'
    <2>1. HeldOpen' = {Unended(r) : r \in Told'}
      BY <1>1, <1>2, <1>6 DEF MirrorInv, HeldOpen
    <2>2. /\ \A p \in history' : p.kind \in Parents =>
               ChildrenOf(held', p) = IF p.begin <= asOf' THEN ChildrenOf(history', p) ELSE {}
          /\ \A p \in history', q \in held' :
               p.kind \in Parents /\ p.kind = q.kind /\ p.ids[1] = q.ids[1] => p.begin <= asOf'
      BY <1>1, <1>2 DEF MirrorInv
    <2>3. /\ asOf' \in 0..Latest' /\ base' \in 0..asOf' /\ base' <= oldest'
          /\ IF asOf' = 0 THEN held' = {} /\ known' = {} ELSE oldest' <= asOf' /\ base' # 0
      BY <1>1, <1>2, <1>3 DEF MirrorInv
    <2>4. /\ \A r \in held' : /\ RowOK(r, next', Latest')
                              /\ IsVersioned(r.kind) => r.begin <= asOf' /\ (r.end <= asOf' \/ r.end = Open)
          /\ {r \in held' : r.kind = INLINED_TABLE_ROW} = known'
          /\ asOf' # 0 => \A s \in base'..asOf' : Tells(held', s, shown'[s])
      BY <1>1, <1>2 DEF MirrorInv
    <2> QED BY <2>1, <2>2, <2>3, <2>4 DEF MirrorInv
  <1> QED BY <1>5, <1>7 DEF IInv

LEMMA UnregisterKeeps ==
  ASSUME IInv, NEW r \in Inlined, Unregister(r)
  PROVE  IInv'
  <1>1. /\ history' = history \ {r} /\ UNCHANGED <<shown, next, mirror>> /\ oldest' = oldest
        /\ r.kind = INLINED_TABLE_ROW
    BY DEF Unregister, Inlined
  <1>2. oldest' \in oldest..Latest /\ (asOf = 0 \/ oldest' <= asOf)
    BY <1>1 DEF IInv, ServerInv, MirrorInv
  <1>3. ~IsVersioned(r.kind) /\ ~IsChild(r)
    BY <1>1 DEF IsVersioned, IsChild
  <1>4. \A q \in history : IsVersioned(q.kind) => (q \in history' <=> q.end > oldest')
    BY <1>1, <1>3 DEF IInv, ServerInv
  <1>5. \A p \in history' : p.kind \in Parents => ChildrenOf(history', p) = ChildrenOf(history, p)
    BY <1>1, <1>3 DEF ChildrenOf
  <1>6. history' \subseteq history
    BY <1>1
  <1> QED BY <1>1, <1>2, <1>4, <1>5, <1>6, ShrinkKeeps

\* The children of a parent that stays all stay: no other parent has its id.
LEMMA ExpireKeeps ==
  ASSUME IInv, Expire
  PROVE  IInv'
  <1> DEFINE dead == {r \in history : IsVersioned(r.kind) /\ r.end <= oldest + 1}
  <1>1. /\ history' = {r \in history \ dead : ~(IsChild(r) /\ \E p \in dead : Parent(r, p))}
        /\ oldest' = oldest + 1 /\ UNCHANGED <<shown, next, mirror>> /\ oldest < Latest
        /\ (asOf = 0 \/ oldest < asOf)
    BY DEF Expire
  <1>2. ServerInv /\ MirrorInv /\ oldest \in Int /\ Latest \in Int /\ asOf \in Int
    BY DEF IInv, ServerInv, MirrorInv
  <1>3. \A r \in history : r.kind \in Kinds /\ (IsVersioned(r.kind) => r.end \in Int)
    BY <1>2 DEF ServerInv, RowOK, Open
  <1>4. oldest' \in oldest..Latest /\ (asOf = 0 \/ oldest' <= asOf) /\ history' \subseteq history
    BY <1>1, <1>2
  <1>5. \A r \in history : IsVersioned(r.kind) => (r \in history' <=> r.end > oldest')
    BY <1>1, <1>2, <1>3 DEF IsChild
  <1>6. ASSUME NEW p \in history', p.kind \in Parents
        PROVE  ChildrenOf(history', p) = ChildrenOf(history, p)
    <2>1. p \in history /\ p \notin dead
      BY <1>1
    <2>2. \A q \in history : q.kind = p.kind /\ q.ids[1] = p.ids[1] => q = p
      BY <1>2, <1>6, <2>1 DEF ServerInv
    <2>3. ASSUME NEW r \in history, IsChild(r), Parent(r, p) PROVE r \in history'
      <3>1. \A q \in dead : ~Parent(r, q)
        BY <2>1, <2>2, <2>3 DEF Parent
      <3>2. r \notin dead
        BY <2>3 DEF IsChild
      <3> QED BY <3>1, <3>2, <1>1
    <2> QED BY <2>3, <1>4 DEF ChildrenOf
  <1> HIDE DEF dead
  <1> QED BY <1>1, <1>4, <1>5, <1>6, ShrinkKeeps

-----------------------------------------------------------------------------
(* Each commit *)

\* Commit with the rows that end written as a set.
LEMMA CommitWrites ==
  ASSUME ServerInv, NEW ends, \A r \in ends : IsVersioned(r.kind), NEW new, NEW lake, NEW n, next' = n,
         Commit(new, LAMBDA r : r \in ends, lake)
  PROVE  Writes({r \in Opened : r \in ends}, new, lake, n)
  <1> DEFINE dead == {r \in Opened : r \in ends}
  <1>1. /\ Latest < MaxSnapshot /\ shown' = Append(shown, lake) /\ UNCHANGED <<oldest, mirror>>
        /\ history' = {IF r.end = Open /\ r \in ends THEN [r EXCEPT !.end = Latest + 1] ELSE r : r \in history}
                        \cup {IF IsVersioned(r.kind) THEN [r EXCEPT !.begin = Latest + 1] ELSE r : r \in new}
    BY DEF Commit
  <1>2. \A r \in history : Ended(r, dead) = IF r.end = Open /\ r \in ends THEN [r EXCEPT !.end = Latest + 1] ELSE r
    BY DEF Ended, Opened
  <1>3. history' = {Ended(r, dead) : r \in history} \cup {Begun(r) : r \in new}
    <2>1. {Ended(r, dead) : r \in history} = {IF r.end = Open /\ r \in ends THEN [r EXCEPT !.end = Latest + 1] ELSE r : r \in history}
      BY <1>2
    <2> QED BY <1>1, <2>1 DEF Begun
  <1> QED BY <1>1, <1>3 DEF Writes

LEMMA DropWrites ==
  ASSUME ServerInv, NEW o, Drop(o)
  PROVE  Writes({r \in Opened : Belongs(r, {o})}, {}, [Lake EXCEPT !.objects = Without({o})], next)
  <1> DEFINE ends == {r \in history : Belongs(r, {o})}
  <1>1. \A r \in ends : IsVersioned(r.kind)
    BY DEF Belongs, IsVersioned, Specs
  <1>2. Commit({}, LAMBDA r : r \in ends, [Lake EXCEPT !.objects = Without({o})]) /\ next' = next
    BY DEF Drop, Commit
  <1>3. {r \in Opened : r \in ends} = {r \in Opened : Belongs(r, {o})}
    BY DEF Opened
  <1> HIDE DEF ends
  <1>4. Writes({r \in Opened : r \in ends}, {}, [Lake EXCEPT !.objects = Without({o})], next)
    BY <1>1, <1>2, CommitWrites
  <1> QED BY <1>3, <1>4

Objectlike == ViewObject \cup MacroObject \cup TableObject

\* What each line of an object is, and whose it is.
LEMMA ObjectLineFacts ==
  ASSUME NEW o, NEW object \in Objectlike, NEW l
  PROVE  /\ l \in ObjectLines(o, object) <=>
              \/ l = Line(object.kind, <<o, object.schema>>, 0)
              \/ object.kind # MACRO_ROW /\ object.tag # Null /\ l = Line(TAG_ROW, <<o>>, object.tag)
              \/ object.kind = TABLE_ROW /\ \E c \in Live(object) :
                   \/ l = Line(COLUMN_ROW, <<o, c, c, object.columns[c].parent>>, object.columns[c].name)
                   \/ object.columns[c].tag # Null /\ l = Line(COLUMN_TAG_ROW, <<o, c>>, object.columns[c].tag)
              \/ object.kind = TABLE_ROW /\ \E k \in Specs :
                   object.spec[k].id # Null /\ l = Line(k, <<object.spec[k].id, o>>, 0)
         /\ l \in ObjectLines(o, object) => l.kind # SCHEMA_ROW /\ \A ids : Belongs(l, ids) <=> o \in ids
         /\ object.kind \in {TABLE_ROW, VIEW_ROW, MACRO_ROW}
  <1>0. object.kind \in {TABLE_ROW, VIEW_ROW, MACRO_ROW}
    BY DEF Objectlike, ViewObject, MacroObject, TableObject
  <1>1. l \in ObjectLines(o, object) <=>
              \/ l = Line(object.kind, <<o, object.schema>>, 0)
              \/ object.kind # MACRO_ROW /\ object.tag # Null /\ l = Line(TAG_ROW, <<o>>, object.tag)
              \/ object.kind = TABLE_ROW /\ \E c \in Live(object) :
                   \/ l = Line(COLUMN_ROW, <<o, c, c, object.columns[c].parent>>, object.columns[c].name)
                   \/ object.columns[c].tag # Null /\ l = Line(COLUMN_TAG_ROW, <<o, c>>, object.columns[c].tag)
              \/ object.kind = TABLE_ROW /\ \E k \in Specs :
                   object.spec[k].id # Null /\ l = Line(k, <<object.spec[k].id, o>>, 0)
    BY DEF ObjectLines, TableLines
  <1>2. ASSUME l \in ObjectLines(o, object)
        PROVE  \/ l.kind \in {TABLE_ROW, VIEW_ROW, MACRO_ROW, TAG_ROW, COLUMN_ROW, COLUMN_TAG_ROW} /\ l.ids[1] = o
               \/ l.kind \in Specs /\ l.ids[2] = o
    <2>1. CASE l = Line(object.kind, <<o, object.schema>>, 0)
      BY <1>0, <2>1 DEF Line
    <2>2. CASE object.kind # MACRO_ROW /\ object.tag # Null /\ l = Line(TAG_ROW, <<o>>, object.tag)
      BY <2>2 DEF Line
    <2>3. ASSUME NEW c \in Live(object), l = Line(COLUMN_ROW, <<o, c, c, object.columns[c].parent>>, object.columns[c].name)
          PROVE  l.kind = COLUMN_ROW /\ l.ids[1] = o
      BY <2>3 DEF Line
    <2>4. ASSUME NEW c \in Live(object), l = Line(COLUMN_TAG_ROW, <<o, c>>, object.columns[c].tag)
          PROVE  l.kind = COLUMN_TAG_ROW /\ l.ids[1] = o
      BY <2>4 DEF Line
    <2>5. ASSUME NEW k \in Specs, l = Line(k, <<object.spec[k].id, o>>, 0)
          PROVE  l.kind \in Specs /\ l.ids[2] = o
      BY <2>5 DEF Line
    <2> QED BY <1>1, <1>2, <2>1, <2>2, <2>3, <2>4, <2>5
  <1>3. ASSUME l \in ObjectLines(o, object), NEW ids
        PROVE  l.kind # SCHEMA_ROW /\ (Belongs(l, ids) <=> o \in ids)
    BY <1>2, <1>3 DEF Belongs, Specs
  <1> QED BY <1>0, <1>1, <1>3

LEMMA ObjectLineOwner ==
  ASSUME NEW o, NEW object \in Objectlike, NEW l \in ObjectLines(o, object)
  PROVE  Belongs(l, {o}) /\ l.kind # SCHEMA_ROW
  <1>1. \A ids : Belongs(l, ids) <=> o \in ids
    BY ObjectLineFacts, Zenon
  <1>2. l.kind # SCHEMA_ROW
    BY ObjectLineFacts, Zenon
  <1> QED BY <1>1, <1>2

\* A lake's lines are those of its schemas and those of each of its objects.
LEMMA LinesFacts ==
  ASSUME NEW lake \in LakeType, NEW l
  PROVE  /\ l \in Lines(lake) <=> \/ \E s \in lake.schemas : l = Line(SCHEMA_ROW, <<s>>, 0)
                                  \/ \E o \in DOMAIN lake.objects : l \in ObjectLines(o, lake.objects[o])
         /\ \A o \in DOMAIN lake.objects : lake.objects[o] \in Objectlike
         /\ \A s : l = Line(SCHEMA_ROW, <<s>>, 0) => l.kind = SCHEMA_ROW /\ \A ids : ~Belongs(l, ids)
  <1>1. l \in Lines(lake) <=> \/ \E s \in lake.schemas : l = Line(SCHEMA_ROW, <<s>>, 0)
                             \/ \E o \in DOMAIN lake.objects : l \in ObjectLines(o, lake.objects[o])
    BY DEF Lines
  <1>2. \A o \in DOMAIN lake.objects : lake.objects[o] \in Objectlike
    BY DEF LakeType, Objectlike
  <1>3. ASSUME NEW s, l = Line(SCHEMA_ROW, <<s>>, 0), NEW ids
        PROVE  l.kind = SCHEMA_ROW /\ ~Belongs(l, ids)
    <2>1. l.kind = SCHEMA_ROW
      BY <1>3 DEF Line
    <2> QED BY <2>1 DEF Belongs, Specs
  <1> QED BY <1>1, <1>2, <1>3

\* Another object in a lake, or the same one changed, changes its own lines and no others.
LEMMA WithFacts ==
  ASSUME Lake \in LakeType, NEW o \in Nat, NEW object \in Objectlike
  PROVE  /\ With(o, object) \in LakeType /\ With(o, object).schemas = Lake.schemas
         /\ DOMAIN With(o, object).objects = DOMAIN Lake.objects \cup {o}
         /\ With(o, object).objects[o] = object
         /\ \A i \in DOMAIN Lake.objects : i # o => With(o, object).objects[i] = Lake.objects[i]
         /\ \A l : l \in Lines(With(o, object)) <=>
                     l \in ObjectLines(o, object) \/ (l \in Lines(Lake) /\ ~Belongs(l, {o}))
  <1> DEFINE lake == With(o, object)
             new == [i \in DOMAIN Lake.objects \cup {o} |-> IF i = o THEN object ELSE Lake.objects[i]]
  <1>1. /\ Lake = [schemas |-> Lake.schemas, objects |-> Lake.objects] /\ Lake.schemas \in SUBSET Nat
        /\ DOMAIN Lake.objects \in SUBSET Nat /\ \A i \in DOMAIN Lake.objects : Lake.objects[i] \in Objectlike
    BY DEF LakeType, Objectlike
  <1>2. lake = [schemas |-> Lake.schemas, objects |-> new]
    BY <1>1 DEF With
  <1>3. new \in [DOMAIN Lake.objects \cup {o} -> Objectlike] /\ DOMAIN Lake.objects \cup {o} \in SUBSET Nat
    BY <1>1
  <1>4. lake \in LakeType
    BY <1>1, <1>2, <1>3 DEF LakeType, Objectlike
  <1>5. /\ lake.schemas = Lake.schemas /\ DOMAIN lake.objects = DOMAIN Lake.objects \cup {o} /\ lake.objects[o] = object
        /\ \A i \in DOMAIN Lake.objects : i # o => lake.objects[i] = Lake.objects[i]
    BY <1>2
  <1> HIDE DEF lake, new
  <1>6. ASSUME NEW l PROVE l \in Lines(lake) <=> l \in ObjectLines(o, object) \/ (l \in Lines(Lake) /\ ~Belongs(l, {o}))
    <2>1. ASSUME NEW i \in DOMAIN Lake.objects, l \in ObjectLines(i, Lake.objects[i])
          PROVE  Belongs(l, {o}) <=> i = o
      BY <1>1, <2>1, ObjectLineFacts
    <2>2. /\ l \in Lines(lake) <=> \/ \E s \in lake.schemas : l = Line(SCHEMA_ROW, <<s>>, 0)
                                  \/ \E i \in DOMAIN lake.objects : l \in ObjectLines(i, lake.objects[i])
          /\ \A s : l = Line(SCHEMA_ROW, <<s>>, 0) => ~Belongs(l, {o})
      BY <1>4, LinesFacts
    <2>3. l \in Lines(Lake) <=> \/ \E s \in Lake.schemas : l = Line(SCHEMA_ROW, <<s>>, 0)
                               \/ \E i \in DOMAIN Lake.objects : l \in ObjectLines(i, Lake.objects[i])
      BY LinesFacts
    <2>4. ASSUME l \in Lines(lake) PROVE l \in ObjectLines(o, object) \/ (l \in Lines(Lake) /\ ~Belongs(l, {o}))
      <3>1. CASE \E s \in lake.schemas : l = Line(SCHEMA_ROW, <<s>>, 0)
        BY <3>1, <1>5, <2>2, <2>3
      <3>2. ASSUME NEW i \in DOMAIN lake.objects, l \in ObjectLines(i, lake.objects[i]), i # o
            PROVE  l \in Lines(Lake) /\ ~Belongs(l, {o})
        <4>1. i \in DOMAIN Lake.objects /\ lake.objects[i] = Lake.objects[i]
          BY <3>2, <1>5
        <4> QED BY <4>1, <3>2, <2>1, <2>3
      <3>3. ASSUME NEW i \in DOMAIN lake.objects, l \in ObjectLines(i, lake.objects[i]), i = o
            PROVE  l \in ObjectLines(o, object)
        BY <3>3, <1>5
      <3> QED BY <3>1, <3>2, <3>3, <2>2, <2>4
    <2>5. ASSUME l \in ObjectLines(o, object) PROVE l \in Lines(lake)
      BY <2>5, <1>5, <2>2
    <2>6. ASSUME l \in Lines(Lake), ~Belongs(l, {o}) PROVE l \in Lines(lake)
      <3>1. CASE \E s \in Lake.schemas : l = Line(SCHEMA_ROW, <<s>>, 0)
        BY <3>1, <1>5, <2>2
      <3>2. CASE \E i \in DOMAIN Lake.objects : l \in ObjectLines(i, Lake.objects[i])
        BY <3>2, <1>5, <2>1, <2>2, <2>6
      <3> QED BY <3>1, <3>2, <2>3, <2>6
    <2> QED BY <2>4, <2>5, <2>6
  <1> QED BY <1>4, <1>5, <1>6 DEF lake

\* The open rows that say something say the lake.
LEMMA OpenSays ==
  ASSUME ServerInv
  PROVE  /\ \A r \in Opened : RowOK(r, next, Latest) /\ (Speaks(r) => LineOf(r) \in Lines(Lake))
         /\ \A l \in Lines(Lake) : \E r \in Opened : Speaks(r) /\ l = LineOf(r)
         /\ \A r, q \in Opened : SameThing(r, q) => r = q
         /\ Lake \in LakeType /\ LakeOK(Lake, next) /\ next \in Nat
  <1>1. Latest \in 1..MaxSnapshot /\ Latest < Open /\ Latest \in oldest..Latest
    BY BoundTypes DEF ServerInv, Open
  <1>2. \A r \in history : RowOK(r, next, Latest)
    BY DEF ServerInv
  <1>3. VersionsAt(history, Latest) = Opened
    BY <1>1, <1>2 DEF VersionsAt, VisibleAt, Opened, RowOK, Open
  <1>4. Tells(history, Latest, Lake)
    BY <1>1 DEF ServerInv, Lake
  <1>5. {LineOf(r) : r \in {q \in Opened : Speaks(q)}} = Lines(Lake)
        /\ \A r, q \in Opened : SameThing(r, q) => r = q
    BY <1>3, <1>4 DEF Tells
  <1>6. LakeOK(Lake, next) /\ Lake \in LakeType /\ next \in Nat
    BY <1>1 DEF ServerInv, Lake, LakeOK
  <1> QED BY <1>2, <1>5, <1>6 DEF Opened

\* The lines of the lake that belong to an object are that object's.
LEMMA LineOwner ==
  ASSUME Lake \in LakeType, NEW l \in Lines(Lake), NEW o, Belongs(l, {o})
  PROVE  o \in DOMAIN Lake.objects /\ l \in ObjectLines(o, Lake.objects[o])
  <1>1. ASSUME NEW i \in DOMAIN Lake.objects, l \in ObjectLines(i, Lake.objects[i]) PROVE i = o
    <2>1. Lake.objects[i] \in Objectlike
      BY LinesFacts
    <2> QED BY <2>1, <1>1, ObjectLineFacts
  <1>2. ~ \E s \in Lake.schemas : l = Line(SCHEMA_ROW, <<s>>, 0)
    BY LinesFacts
  <1>3. \E i \in DOMAIN Lake.objects : l \in ObjectLines(i, Lake.objects[i])
    BY <1>2, LinesFacts
  <1> QED BY <1>1, <1>3

\* A line of a spec is that of its table, under the spec's id.
LEMMA SpecLine ==
  ASSUME NEW o, NEW object \in Objectlike, NEW l \in ObjectLines(o, object), l.kind \in Specs
  PROVE  /\ object.kind = TABLE_ROW /\ object.spec[l.kind].id # Null
         /\ l = Line(l.kind, <<object.spec[l.kind].id, o>>, 0)
  <1>1. l.kind \notin {TABLE_ROW, VIEW_ROW, MACRO_ROW, TAG_ROW, COLUMN_ROW, COLUMN_TAG_ROW}
    BY DEF Specs
  <1>2. object.kind = TABLE_ROW /\ \E k \in Specs : object.spec[k].id # Null /\ l = Line(k, <<object.spec[k].id, o>>, 0)
    <2>1. object.kind \in {TABLE_ROW, VIEW_ROW, MACRO_ROW}
      BY ObjectLineFacts
    <2>2. \A k, ids, name : Line(k, ids, name).kind = k
      BY DEF Line
    <2>3. l.kind # object.kind /\ l.kind # TAG_ROW /\ l.kind # COLUMN_ROW /\ l.kind # COLUMN_TAG_ROW
      BY <1>1, <2>1
    <2>4. /\ l # Line(object.kind, <<o, object.schema>>, 0) /\ l # Line(TAG_ROW, <<o>>, object.tag)
          /\ \A c : /\ l # Line(COLUMN_ROW, <<o, c, c, object.columns[c].parent>>, object.columns[c].name)
                  /\ l # Line(COLUMN_TAG_ROW, <<o, c>>, object.columns[c].tag)
      BY <2>2, <2>3
    <2>5. \/ l = Line(object.kind, <<o, object.schema>>, 0)
          \/ object.kind # MACRO_ROW /\ object.tag # Null /\ l = Line(TAG_ROW, <<o>>, object.tag)
          \/ object.kind = TABLE_ROW /\ \E c \in Live(object) :
               \/ l = Line(COLUMN_ROW, <<o, c, c, object.columns[c].parent>>, object.columns[c].name)
               \/ object.columns[c].tag # Null /\ l = Line(COLUMN_TAG_ROW, <<o, c>>, object.columns[c].tag)
          \/ object.kind = TABLE_ROW /\ \E k \in Specs :
               object.spec[k].id # Null /\ l = Line(k, <<object.spec[k].id, o>>, 0)
      BY ObjectLineFacts, Zenon
    <2> QED BY <2>4, <2>5, Zenon
  <1> QED BY <1>2 DEF Line

\* A commit that changes an object: the rows of dead, which are of that object, end, and what the
\* object's rows say afterwards is what it is.
Changes(o, object, dead, gone, new) ==
  LET before == Lake.objects[o]
  IN  /\ o \in DOMAIN Lake.objects /\ object \in Objectlike /\ object.kind = before.kind
      /\ dead \subseteq Opened /\ gone \subseteq ObjectLines(o, before)
      /\ \A r \in dead : Belongs(r, {o})
      /\ \A r \in Opened : LineOf(r) \in ObjectLines(o, before) => (r \in dead <=> LineOf(r) \in gone)
      /\ \A r \in Opened \ dead, q \in new : ~SameThing(r, q)
      /\ \A l : l \in ObjectLines(o, object) <=>
            \/ l \in ObjectLines(o, before) \ gone
            \/ \E r \in new : IsVersioned(r.kind) /\ Speaks(r) /\ l = LineOf(r)
      /\ object.kind = TABLE_ROW => \A k \in Specs :
            \/ object.spec[k] = before.spec[k] \/ before.spec[k].id = Null
            \/ Line(k, <<before.spec[k].id, o>>, 0) \in gone
      /\ \A p \in new : p.kind \in Parents =>
            {r \in new : IsChild(r) /\ Parent(r, p)} = ChildRows(With(o, object), p.kind, p.ids)

LEMMA UpdateFollows ==
  ASSUME ServerInv, NEW o, NEW object, NEW dead, NEW gone, NEW new, Changes(o, object, dead, gone, new)
  PROVE  LinesFollow(dead, gone, new, With(o, object)) /\ LakeOK(With(o, object), next)
  <1> DEFINE before == Lake.objects[o]
  <1>0. /\ o \in DOMAIN Lake.objects /\ object \in Objectlike /\ object.kind = before.kind
        /\ dead \subseteq Opened /\ gone \subseteq ObjectLines(o, before)
        /\ \A r \in dead : Belongs(r, {o})
        /\ \A r \in Opened : LineOf(r) \in ObjectLines(o, before) => (r \in dead <=> LineOf(r) \in gone)
        /\ \A r \in Opened \ dead, q \in new : ~SameThing(r, q)
        /\ \A l : l \in ObjectLines(o, object) <=>
              \/ l \in ObjectLines(o, before) \ gone
              \/ \E r \in new : IsVersioned(r.kind) /\ Speaks(r) /\ l = LineOf(r)
        /\ object.kind = TABLE_ROW => \A k \in Specs :
              \/ object.spec[k] = before.spec[k] \/ before.spec[k].id = Null
              \/ Line(k, <<before.spec[k].id, o>>, 0) \in gone
        /\ \A p \in new : p.kind \in Parents =>
              {r \in new : IsChild(r) /\ Parent(r, p)} = ChildRows(With(o, object), p.kind, p.ids)
    BY Zenon DEF Changes
  <1> DEFINE lake == With(o, object)
             old == ObjectLines(o, Lake.objects[o])
  <1>1. Lake \in LakeType /\ LakeOK(Lake, next) /\ next \in Nat /\ o \in Nat /\ Lake.objects[o] \in Objectlike
    <2>1. Lake \in LakeType /\ LakeOK(Lake, next) /\ next \in Nat
      BY OpenSays
    <2>2. DOMAIN Lake.objects \subseteq Nat
      BY <2>1 DEF LakeType
    <2>3. Lake.objects[o] \in Objectlike
      BY <1>0, <2>1, LinesFacts
    <2> QED BY <1>0, <2>1, <2>2, <2>3
  <1>2. /\ lake \in LakeType /\ lake.schemas = Lake.schemas /\ DOMAIN lake.objects = DOMAIN Lake.objects
        /\ lake.objects[o] = object /\ \A i \in DOMAIN Lake.objects : i # o => lake.objects[i] = Lake.objects[i]
        /\ \A l : l \in Lines(lake) <=> l \in ObjectLines(o, object) \/ (l \in Lines(Lake) /\ ~Belongs(l, {o}))
    <2>1. /\ lake \in LakeType /\ lake.schemas = Lake.schemas /\ DOMAIN lake.objects = DOMAIN Lake.objects \cup {o}
          /\ lake.objects[o] = object /\ \A i \in DOMAIN Lake.objects : i # o => lake.objects[i] = Lake.objects[i]
      BY <1>0, <1>1, WithFacts
    <2>2. \A l : l \in Lines(lake) <=> l \in ObjectLines(o, object) \/ (l \in Lines(Lake) /\ ~Belongs(l, {o}))
      BY <1>0, <1>1, WithFacts
    <2> QED BY <1>0, <2>1, <2>2
  <1>3. LakeOK(lake, next)
    BY <1>1, <1>2 DEF LakeOK
  <1>4. \A r : LineOf(r).kind = r.kind /\ LineOf(r).ids = r.ids /\ LineOf(r).name = r.name
               /\ (Belongs(LineOf(r), {o}) <=> Belongs(r, {o}))
    BY DEF LineOf, Line, Belongs
  <1>5. \A l \in old : l \in Lines(Lake) /\ Belongs(l, {o})
    <2> TAKE l \in old
    <2>1. Belongs(l, {o})
      <3>1. Lake.objects[o] \in Objectlike
        BY <1>1
      <3>2. o \in {o} /\ l \in ObjectLines(o, Lake.objects[o])
        OBVIOUS
      <3> HIDE DEF old
      <3> QED BY <3>1, <3>2, ObjectLineOwner
    <2>2. l \in Lines(Lake)
      BY <1>0, <1>1, LinesFacts
    <2> QED BY <2>1, <2>2
  <1>6. \A l \in Lines(Lake) : Belongs(l, {o}) => l \in old
    BY <1>1, LineOwner
  <1>7. \A r \in Opened : Speaks(r) => LineOf(r) \in Lines(Lake)
    BY OpenSays
  <1> HIDE DEF lake, old
  <1>8. ASSUME NEW r \in Opened, Speaks(r) PROVE r \in dead <=> LineOf(r) \in gone
    BY <1>0, <1>4, <1>6, <1>7, <1>8 DEF old
  <1>9. ASSUME NEW l
        PROVE  l \in Lines(lake) <=>
                 \/ l \in Lines(Lake) /\ l \notin gone
                 \/ \E r \in new : IsVersioned(r.kind) /\ Speaks(r) /\ l = LineOf(r)
    <2>1. l \in ObjectLines(o, object) <=>
           \/ l \in old \ gone
           \/ \E r \in new : IsVersioned(r.kind) /\ Speaks(r) /\ l = LineOf(r)
      BY <1>0 DEF old
    <2> QED BY <1>0, <2>1, <1>2, <1>5, <1>6 DEF old
  <1>10. ASSUME NEW p \in Opened \ dead, p.kind \in Parents
         PROVE  ChildRows(lake, p.kind, p.ids) = ChildRows(Lake, p.kind, p.ids)
    <2>1. CASE p.kind = MACRO_ROW
      BY <2>1 DEF ChildRows
    <2>2. CASE p.kind # MACRO_ROW
      <3>1. p.kind \in Specs /\ Speaks(p)
        BY <2>2, <1>10 DEF Parents, Specs, Speaks
      <3>2. LineOf(p) \in Lines(Lake)
        BY <3>1, <1>7
      <3>3. Belongs(LineOf(p), {p.ids[2]})
        BY <3>1, <1>4 DEF Belongs
      <3>4. p.ids[2] \in DOMAIN Lake.objects /\ LineOf(p) \in ObjectLines(p.ids[2], Lake.objects[p.ids[2]])
        BY <3>2, <3>3, <1>1, LineOwner
      <3>5. lake.objects[p.ids[2]].spec[p.kind].fields = Lake.objects[p.ids[2]].spec[p.kind].fields
        <4>1. CASE p.ids[2] # o
          BY <4>1, <3>4, <1>2
        <4>2. CASE p.ids[2] = o
          <5>1. /\ Lake.objects[o].kind = TABLE_ROW /\ Lake.objects[o].spec[p.kind].id # Null
                /\ LineOf(p) = Line(p.kind, <<Lake.objects[o].spec[p.kind].id, o>>, 0)
            BY <3>1, <3>4, <4>2, <1>1, <1>4, SpecLine
          <5>2. LineOf(p) \notin gone
            BY <3>1, <1>8
          <5>3. object.spec[p.kind] = Lake.objects[o].spec[p.kind]
            BY <1>0, <3>1, <5>1, <5>2
          <5> QED BY <5>3, <4>2, <1>2
        <4> QED BY <4>1, <4>2
      <3> DEFINE RowsOf(f) == {Row(FieldOf(p.kind), <<p.ids[1], i, f[i]>>, 0) : i \in DOMAIN f}
      <3>6. /\ ChildRows(lake, p.kind, p.ids) = RowsOf(lake.objects[p.ids[2]].spec[p.kind].fields)
            /\ ChildRows(Lake, p.kind, p.ids) = RowsOf(Lake.objects[p.ids[2]].spec[p.kind].fields)
        BY <2>2, Zenon DEF ChildRows
      <3> HIDE DEF RowsOf
      <3> QED BY <3>5, <3>6
    <2> QED BY <2>1, <2>2
  <1>11. \A p \in new : p.kind \in Parents => {r \in new : IsChild(r) /\ Parent(r, p)} = ChildRows(lake, p.kind, p.ids)
    BY <1>0 DEF lake
  <1>12. LinesFollow(dead, gone, new, lake)
    BY <1>0, <1>8, <1>9, <1>10, <1>11 DEF LinesFollow
  <1> QED BY <1>3, <1>12 DEF lake

LEMMA LineOfFacts ==
  ASSUME NEW r
  PROVE  /\ LineOf(r).kind = r.kind /\ LineOf(r).ids = r.ids /\ LineOf(r).name = r.name
         /\ \A ids : Belongs(LineOf(r), ids) <=> Belongs(r, ids)
  BY DEF LineOf, Line, Belongs

\* The specs of a table that are what they were have the children that they had.
LEMMA ChildRowsKept ==
  ASSUME ServerInv, NEW lake, NEW p \in Opened, p.kind \in Parents,
         p.ids[2] \in DOMAIN Lake.objects => lake.objects[p.ids[2]] = Lake.objects[p.ids[2]]
  PROVE  ChildRows(lake, p.kind, p.ids) = ChildRows(Lake, p.kind, p.ids)
  <1>1. CASE p.kind = MACRO_ROW
    BY <1>1 DEF ChildRows
  <1>2. CASE p.kind # MACRO_ROW
    <2>1. p.kind \in Specs /\ Speaks(p)
      BY <1>2 DEF Parents, Specs, Speaks
    <2>2. LineOf(p) \in Lines(Lake) /\ Lake \in LakeType
      BY <2>1, OpenSays
    <2>3. Belongs(LineOf(p), {p.ids[2]})
      BY <2>1, LineOfFacts DEF Belongs
    <2>4. p.ids[2] \in DOMAIN Lake.objects
      BY <2>2, <2>3, LineOwner
    <2> DEFINE RowsOf(f) == {Row(FieldOf(p.kind), <<p.ids[1], i, f[i]>>, 0) : i \in DOMAIN f}
    <2>5. /\ ChildRows(lake, p.kind, p.ids) = RowsOf(lake.objects[p.ids[2]].spec[p.kind].fields)
          /\ ChildRows(Lake, p.kind, p.ids) = RowsOf(Lake.objects[p.ids[2]].spec[p.kind].fields)
      BY <1>2, Zenon DEF ChildRows
    <2> HIDE DEF RowsOf
    <2> QED BY <2>4, <2>5
  <1> QED BY <1>1, <1>2

\* What is under the next id is of no row that there was.
LEMMA FreshThings ==
  ASSUME ServerInv, NEW q, q.ids[1] = next, q.kind \in Kinds, NEW r \in Opened
  PROVE  ~SameThing(r, q)
  <1>1. RowOK(r, next, Latest) /\ next \in Nat
    BY OpenSays
  <1>2. r.ids[1] # q.ids[1] /\ r.kind \in Kinds
    BY <1>1 DEF RowOK
  <1>3. 1 \in 1..KeyIds(r.kind)
    BY <1>2, KindFacts
  <1> QED BY <1>2, <1>3 DEF SameThing

\* A commit that makes an object under the next id.
LEMMA CreateFollows ==
  ASSUME ServerInv, NEW object \in Objectlike, NEW new, NewRowsOK(new, next + 1),
         \A r \in new : r.ids[1] = next,
         \A l : l \in ObjectLines(next, object) <=>
           \E r \in new : IsVersioned(r.kind) /\ Speaks(r) /\ l = LineOf(r),
         \A p \in new : p.kind \in Parents =>
           {r \in new : IsChild(r) /\ Parent(r, p)} = ChildRows(With(next, object), p.kind, p.ids)
  PROVE  LinesFollow({}, {}, new, With(next, object)) /\ LakeOK(With(next, object), next + 1)
  <1> DEFINE lake == With(next, object)
  <1>1. Lake \in LakeType /\ LakeOK(Lake, next) /\ next \in Nat
    BY OpenSays
  <1>2. next \notin DOMAIN Lake.objects
    BY <1>1 DEF LakeOK
  <1>3. /\ lake \in LakeType /\ lake.schemas = Lake.schemas /\ DOMAIN lake.objects = DOMAIN Lake.objects \cup {next}
        /\ \A i \in DOMAIN Lake.objects : i # next => lake.objects[i] = Lake.objects[i]
    BY <1>1, WithFacts
  <1>4. \A l : l \in Lines(lake) <=> l \in ObjectLines(next, object) \/ (l \in Lines(Lake) /\ ~Belongs(l, {next}))
    BY <1>1, WithFacts
  <1>5. \A l \in Lines(Lake) : ~Belongs(l, {next})
    BY <1>1, <1>2, LineOwner
  <1>6. LakeOK(lake, next + 1)
    <2>1. lake.schemas \subseteq Nat /\ DOMAIN Lake.objects \subseteq Nat
      BY <1>1, <1>3 DEF LakeType
    <2> QED BY <2>1, <1>1, <1>3 DEF LakeOK
  <1>7. \A p \in new : p.kind \in Parents => {r \in new : IsChild(r) /\ Parent(r, p)} = ChildRows(lake, p.kind, p.ids)
    OBVIOUS
  <1> HIDE DEF lake
  <1>8. \A p \in Opened : p.kind \in Parents => ChildRows(lake, p.kind, p.ids) = ChildRows(Lake, p.kind, p.ids)
    BY <1>2, <1>3, ChildRowsKept
  <1>9. \A r \in Opened, q \in new : ~SameThing(r, q)
    BY FreshThings DEF NewRowsOK
  <1>10. \A l : l \in Lines(lake) <=>
           \/ l \in Lines(Lake) /\ l \notin {}
           \/ \E r \in new : IsVersioned(r.kind) /\ Speaks(r) /\ l = LineOf(r)
    BY <1>4, <1>5
  <1>11. LinesFollow({}, {}, new, lake)
    BY <1>7, <1>8, <1>9, <1>10 DEF LinesFollow
  <1> QED BY <1>6, <1>11 DEF lake

\* A commit that takes objects and schemas away.
LEMMA DropFollows ==
  ASSUME ServerInv, NEW ids, NEW S \in SUBSET Lake.schemas, NEW lake,
         lake = [schemas |-> S, objects |-> Without(ids)], NEW dead,
         dead = {r \in Opened : Belongs(r, ids) \/ (r.kind = SCHEMA_ROW /\ r.ids[1] \in Lake.schemas \ S)}
  PROVE  \E gone : LinesFollow(dead, gone, {}, lake) /\ LakeOK(lake, next)
  <1> DEFINE gone == {l \in Lines(Lake) : Belongs(l, ids) \/ (l.kind = SCHEMA_ROW /\ l.ids[1] \in Lake.schemas \ S)}
             kept == [o \in DOMAIN Lake.objects \ ids |-> Lake.objects[o]]
  <1>1. Lake \in LakeType /\ LakeOK(Lake, next) /\ next \in Nat
    BY OpenSays
  <1>2. /\ Lake.schemas \in SUBSET Nat /\ DOMAIN Lake.objects \in SUBSET Nat
        /\ \A i \in DOMAIN Lake.objects : Lake.objects[i] \in Objectlike
    BY <1>1 DEF LakeType, Objectlike
  <1>3. lake = [schemas |-> S, objects |-> kept]
    BY DEF Without
  <1>4. kept \in [DOMAIN Lake.objects \ ids -> Objectlike] /\ DOMAIN Lake.objects \ ids \in SUBSET Nat
    BY <1>2
  <1>5. lake \in LakeType
    BY <1>2, <1>3, <1>4 DEF LakeType, Objectlike
  <1>6. /\ lake.schemas = S /\ DOMAIN lake.objects = DOMAIN Lake.objects \ ids
        /\ \A i \in DOMAIN lake.objects : lake.objects[i] = Lake.objects[i]
    BY <1>3
  <1>7. LakeOK(lake, next)
    BY <1>1, <1>5, <1>6 DEF LakeOK
  <1> HIDE DEF kept
  <1>8. ASSUME NEW l PROVE l \in Lines(lake) <=> l \in Lines(Lake) /\ l \notin gone
    <2>1. l \in Lines(lake) <=> \/ \E s \in S : l = Line(SCHEMA_ROW, <<s>>, 0)
                                \/ \E i \in DOMAIN Lake.objects \ ids : l \in ObjectLines(i, Lake.objects[i])
      <3>1. l \in Lines(lake) <=> \/ \E s \in lake.schemas : l = Line(SCHEMA_ROW, <<s>>, 0)
                                  \/ \E i \in DOMAIN lake.objects : l \in ObjectLines(i, lake.objects[i])
        BY <1>5, LinesFacts
      <3> QED BY <3>1, <1>6
    <2>2. l \in Lines(Lake) <=> \/ \E s \in Lake.schemas : l = Line(SCHEMA_ROW, <<s>>, 0)
                                \/ \E i \in DOMAIN Lake.objects : l \in ObjectLines(i, Lake.objects[i])
      BY <1>1, LinesFacts
    <2>3. ASSUME NEW s, l = Line(SCHEMA_ROW, <<s>>, 0) PROVE ~Belongs(l, ids) /\ l.kind = SCHEMA_ROW /\ l.ids[1] = s
      BY <2>3 DEF Line, Belongs, Specs
    <2>4. ASSUME NEW i \in DOMAIN Lake.objects, l \in ObjectLines(i, Lake.objects[i])
          PROVE  (Belongs(l, ids) <=> i \in ids) /\ l.kind # SCHEMA_ROW
      <3>1. Lake.objects[i] \in Objectlike
        BY <1>2
      <3>2. \A some : Belongs(l, some) <=> i \in some
        BY <3>1, <2>4, ObjectLineFacts, Zenon
      <3> QED BY <3>1, <3>2, <2>4, ObjectLineOwner
    <2>5. CASE \E s \in Lake.schemas : l = Line(SCHEMA_ROW, <<s>>, 0)
      <3>1. PICK s \in Lake.schemas : l = Line(SCHEMA_ROW, <<s>>, 0)
        BY <2>5
      <3>2. l \in gone <=> s \notin S
        BY <3>1, <2>2, <2>3
      <3>3. l \in Lines(lake) <=> s \in S
        <4>1. l.kind = SCHEMA_ROW /\ l.ids[1] = s
          BY <3>1, <2>3
        <4>2. ASSUME NEW i \in DOMAIN Lake.objects PROVE l \notin ObjectLines(i, Lake.objects[i])
          BY <4>1, <2>4
        <4>3. ASSUME NEW q \in S, l = Line(SCHEMA_ROW, <<q>>, 0) PROVE q = s
          BY <4>1, <4>3, <2>3
        <4> QED BY <4>2, <4>3, <3>1, <2>1
      <3> QED BY <3>2, <3>3, <2>2, <2>5
    <2>6. CASE \E i \in DOMAIN Lake.objects : l \in ObjectLines(i, Lake.objects[i])
      <3>1. PICK i \in DOMAIN Lake.objects : l \in ObjectLines(i, Lake.objects[i])
        BY <2>6
      <3>2. l \in gone <=> i \in ids
        BY <3>1, <2>2, <2>4
      <3>3. l \in Lines(lake) <=> i \notin ids
        <4>1. ASSUME l \in Lines(lake) PROVE ~Belongs(l, ids)
          <5>1. CASE \E s \in S : l = Line(SCHEMA_ROW, <<s>>, 0)
            BY <5>1, <2>3
          <5>2. CASE \E j \in DOMAIN Lake.objects \ ids : l \in ObjectLines(j, Lake.objects[j])
            BY <5>2, <2>4
          <5> QED BY <5>1, <5>2, <4>1, <2>1
        <4>2. ASSUME i \notin ids PROVE l \in Lines(lake)
          BY <4>2, <3>1, <2>1
        <4> QED BY <4>1, <4>2, <3>1, <2>4
      <3> QED BY <3>2, <3>3, <2>2, <2>6
    <2> QED BY <2>1, <2>2, <2>5, <2>6
  <1>9. ASSUME NEW r \in Opened, Speaks(r) PROVE r \in dead <=> LineOf(r) \in gone
    <2>1. LineOf(r) \in Lines(Lake)
      BY <1>9, OpenSays
    <2> QED BY <2>1, LineOfFacts
  <1>10. \A p \in Opened \ dead : p.kind \in Parents =>
           ChildRows(lake, p.kind, p.ids) = ChildRows(Lake, p.kind, p.ids)
    <2> TAKE p \in Opened \ dead
    <2> SUFFICES ASSUME p.kind \in Parents
                 PROVE  ChildRows(lake, p.kind, p.ids) = ChildRows(Lake, p.kind, p.ids)
      OBVIOUS
    <2>1. CASE p.kind = MACRO_ROW
      BY <2>1 DEF ChildRows
    <2>2. CASE p.kind # MACRO_ROW
      <3>1. p.ids[2] \notin ids
        BY <2>2 DEF Parents, Specs, Belongs
      <3> QED BY <3>1, <1>6, ChildRowsKept
    <2> QED BY <2>1, <2>2
  <1>11. LinesFollow(dead, gone, {}, lake)
    <2>1. dead \subseteq Opened
      OBVIOUS
    <2> HIDE DEF gone
    <2> QED BY <2>1, <1>8, <1>9, <1>10 DEF LinesFollow
  <1> QED BY <1>7, <1>11

LEMMA CommitNone ==
  ASSUME ServerInv, NEW new, NEW lake, NEW n, next' = n, Commit(new, NoRow, lake)
  PROVE  Writes({}, new, lake, n)
  <1> DEFINE ends == {}
  <1>1. Commit(new, LAMBDA r : r \in ends, lake)
    BY DEF Commit, NoRow
  <1>2. (\A r \in ends : IsVersioned(r.kind)) /\ {r \in Opened : r \in ends} = {}
    OBVIOUS
  <1> HIDE DEF ends
  <1>3. Writes({r \in Opened : r \in ends}, new, lake, n)
    BY <1>1, <1>2, CommitWrites
  <1> QED BY <1>2, <1>3

LEMMA RowFacts ==
  ASSUME NEW kind, NEW ids, NEW name
  PROVE  LET r == Row(kind, ids, name)
         IN  /\ r.kind = kind /\ r.ids = ids /\ r.name = name /\ LineOf(r) = Line(kind, ids, name)
             /\ r = Row(r.kind, r.ids, r.name)
  BY DEF Row, LineOf, Line

LEMMA CreateSchemaKeeps ==
  ASSUME IInv, CreateSchema
  PROVE  IInv'
  <1> DEFINE row == Row(SCHEMA_ROW, <<next>>, 0)
             lake == [Lake EXCEPT !.schemas = @ \cup {next}]
  <1>1. ServerInv /\ next' = next + 1 /\ Commit({row}, NoRow, lake)
    BY DEF CreateSchema, IInv
  <1>2. Writes({}, {row}, lake, next + 1)
    BY <1>1, CommitNone
  <1>3. Lake \in LakeType /\ LakeOK(Lake, next) /\ next \in Nat
    BY <1>1, OpenSays
  <1>4. lake = [schemas |-> Lake.schemas \cup {next}, objects |-> Lake.objects]
    BY <1>3 DEF LakeType
  <1>5. lake \in LakeType
    BY <1>3, <1>4 DEF LakeType
  <1>6. LakeOK(lake, next + 1)
    <2>1. Lake.schemas \subseteq Nat /\ DOMAIN Lake.objects \subseteq Nat
      BY <1>3 DEF LakeType
    <2> QED BY <2>1, <1>3, <1>4, <1>5 DEF LakeOK
  <1>7. row.kind = SCHEMA_ROW /\ row.ids = <<next>> /\ row.name = 0 /\ LineOf(row) = Line(SCHEMA_ROW, <<next>>, 0)
        /\ row = Row(row.kind, row.ids, row.name) /\ IsVersioned(row.kind) /\ Speaks(row)
    BY RowFacts DEF IsVersioned, Speaks
  <1> HIDE DEF row, lake
  <1>8. NewRowsOK({row}, next + 1)
    <2>1. Width(row.kind) = 1 /\ row.kind \in Kinds \ (Parents \cup Children)
      BY <1>7 DEF Width, Kinds, Parents, Children
    <2>2. row.ids \in [1..Width(row.kind) -> Int] /\ row.ids[1] = next
      BY <2>1, <1>3, <1>7
    <2>3. row.kind \in Kinds /\ row.kind \notin Parents \cup Children /\ row.name \in Int
      BY <2>1, <1>7
    <2>4. next + 1 \in {next, next + 1} /\ row.ids[1] \in 0..((next + 1) - 1)
      BY <2>2, <1>3
    <2> QED BY <2>2, <2>3, <2>4, <1>7 DEF NewRowsOK
  <1>9. \A l : l \in Lines(lake) <=> l \in Lines(Lake) \/ l = LineOf(row)
    <2> TAKE l
    <2>1. l \in Lines(lake) <=> \/ \E s \in lake.schemas : l = Line(SCHEMA_ROW, <<s>>, 0)
                                \/ \E o \in DOMAIN lake.objects : l \in ObjectLines(o, lake.objects[o])
      BY <1>5, LinesFacts
    <2>2. l \in Lines(Lake) <=> \/ \E s \in Lake.schemas : l = Line(SCHEMA_ROW, <<s>>, 0)
                                \/ \E o \in DOMAIN Lake.objects : l \in ObjectLines(o, Lake.objects[o])
      BY <1>3, LinesFacts
    <2> QED BY <2>1, <2>2, <1>4, <1>7
  <1>10. LinesFollow({}, {}, {row}, lake)
    <2>1. \A p \in Opened : p.kind \in Parents => ChildRows(lake, p.kind, p.ids) = ChildRows(Lake, p.kind, p.ids)
      BY <1>1, <1>4, ChildRowsKept
    <2>2. \A r \in Opened, q \in {row} : ~SameThing(r, q)
      BY <1>1, <1>7, <1>8, FreshThings DEF NewRowsOK
    <2>3. row.kind \notin Parents
      BY <1>7 DEF Parents
    <2> QED BY <2>1, <2>2, <2>3, <1>7, <1>9 DEF LinesFollow
  <1> QED BY <1>2, <1>6, <1>8, <1>10, CommitKeeps

LEMMA DropSchemaKeeps ==
  ASSUME IInv, NEW s, DropSchema(s)
  PROVE  IInv'
  <1> DEFINE ids == {o \in DOMAIN Lake.objects : Lake.objects[o].schema = s}
             ends == {r \in history : Belongs(r, ids) \/ (r.kind = SCHEMA_ROW /\ r.ids[1] = s)}
             lake == [schemas |-> Lake.schemas \ {s}, objects |-> Without(ids)]
  <1>1. ServerInv /\ s \in Lake.schemas /\ next' = next
    BY DEF DropSchema, IInv
  <1>2. Commit({}, LAMBDA r : r \in ends, lake)
    BY DEF DropSchema, Commit
  <1>3. \A r \in ends : IsVersioned(r.kind)
    BY DEF Belongs, IsVersioned, Specs
  <1>4. {r \in Opened : r \in ends}
          = {r \in Opened : Belongs(r, ids) \/ (r.kind = SCHEMA_ROW /\ r.ids[1] \in Lake.schemas \ (Lake.schemas \ {s}))}
    BY <1>1 DEF Opened
  <1> HIDE DEF ends
  <1> DEFINE dead == {r \in Opened : r \in ends}
  <1>5. Writes(dead, {}, lake, next)
    BY <1>1, <1>2, <1>3, CommitWrites
  <1>6. \E gone : LinesFollow(dead, gone, {}, lake) /\ LakeOK(lake, next)
    BY <1>1, <1>4, DropFollows
  <1>7. NewRowsOK({}, next)
    BY DEF NewRowsOK
  <1> QED BY <1>5, <1>6, <1>7, CommitKeeps

LEMMA DropKeeps ==
  ASSUME IInv, NEW o, Drop(o)
  PROVE  IInv'
  <1> DEFINE lake == [Lake EXCEPT !.objects = Without({o})]
             dead == {r \in Opened : Belongs(r, {o})}
  <1>1. ServerInv /\ Writes(dead, {}, lake, next)
    BY DropWrites DEF IInv
  <1>2. Lake \in LakeType
    BY <1>1, OpenSays
  <1>3. lake = [schemas |-> Lake.schemas, objects |-> Without({o})]
    BY <1>2 DEF LakeType
  <1>4. dead = {r \in Opened : Belongs(r, {o}) \/ (r.kind = SCHEMA_ROW /\ r.ids[1] \in Lake.schemas \ Lake.schemas)}
    OBVIOUS
  <1> HIDE DEF lake, dead
  <1>5. \E gone : LinesFollow(dead, gone, {}, lake) /\ LakeOK(lake, next)
    BY <1>1, <1>3, <1>4, DropFollows
  <1>6. NewRowsOK({}, next)
    BY DEF NewRowsOK
  <1> QED BY <1>1, <1>5, <1>6, CommitKeeps

LEMMA LeastNatural ==
  ASSUME NEW T, T \subseteq Nat, T # {}
  PROVE  \E x \in T : \A y \in T : x <= y
  <1> DEFINE R == {ss \in Nat \X Nat : ss[1] < ss[2]}
  <1>1. IsWellFoundedOn(R, Nat)
    BY NatLessThanWellFounded DEF OpToRel
  <1>2. PICK x \in T : \A y \in T : ~ (<<y, x>> \in R)
    <2> HIDE DEF R
    <2> QED BY <1>1, WFMin
  <1>3. \A a, b \in Nat : a < b => <<a, b>> \in R
    OBVIOUS
  <1>4. \A y \in T : x <= y
    <2> HIDE DEF R
    <2> TAKE y \in T
    <2>1. x \in Nat /\ y \in Nat
      OBVIOUS
    <2>2. ~(y < x)
      BY <1>2, <1>3, <2>1
    <2> QED BY <2>1, <2>2
  <1> QED BY <1>4

\* The version of the schema is the snapshot since when the lake has been what it is.
LEMMA SchemaVersionFacts ==
  ASSUME ServerInv
  PROVE  SchemaVersion \in 1..Latest
  <1> DEFINE Since == {s \in 1..Latest : \A q \in s..Latest : shown[q] = Lake}
  <1>1. Latest \in Nat /\ Latest >= 1
    BY BoundTypes DEF ServerInv
  <1>2. Latest \in Since /\ Since \subseteq Nat
    BY <1>1 DEF Lake
  <1>3. PICK s \in Since : \A q \in Since : s <= q
    <2> HIDE DEF Since
    <2> QED BY <1>2, LeastNatural
  <1>4. ASSUME s > 1 PROVE shown[s - 1] # Lake
    <2> SUFFICES ASSUME shown[s - 1] = Lake PROVE FALSE
      OBVIOUS
    <2>1. s - 1 \in 1..Latest /\ \A q \in (s - 1)..Latest : q = s - 1 \/ q \in s..Latest
      BY <1>1, <1>4
    <2>2. s - 1 \in Since
      BY <2>1
    <2> QED BY <2>1, <2>2, <1>3
  <1>5. s \in 1..Latest /\ (\A q \in s..Latest : shown[q] = Lake) /\ (s > 1 => shown[s - 1] # Lake)
    BY <1>4
  <1> QED BY <1>5 DEF SchemaVersion

LEMMA InsertKeeps ==
  ASSUME IInv, NEW t, Insert(t)
  PROVE  IInv'
  <1> DEFINE row == Row(INLINED_TABLE_ROW, <<t, SchemaVersion>>, 0)
  <1>1. ServerInv /\ next' = next /\ Commit({row}, NoRow, Lake) /\ t \in DOMAIN Lake.objects
    BY DEF Insert, IInv, Ids
  <1>2. Writes({}, {row}, Lake, next)
    BY <1>1, CommitNone
  <1>3. Lake \in LakeType /\ LakeOK(Lake, next) /\ next \in Nat /\ SchemaVersion \in Int
    <2>1. Latest \in Int
      BY <1>1, BoundTypes DEF ServerInv
    <2> QED BY <2>1, <1>1, OpenSays, SchemaVersionFacts
  <1>4. t \in Nat /\ t < next
    BY <1>1, <1>3 DEF LakeType, LakeOK
  <1>5. row.kind = INLINED_TABLE_ROW /\ row.ids = <<t, SchemaVersion>> /\ row.name = 0
        /\ row = Row(row.kind, row.ids, row.name) /\ ~IsVersioned(row.kind)
    BY RowFacts DEF IsVersioned
  <1> HIDE DEF row
  <1>6. NewRowsOK({row}, next)
    <2>1. Width(row.kind) = 2 /\ row.kind \in Kinds /\ row.kind \notin Parents \cup Children
      BY <1>5 DEF Width, Kinds, Parents, Children
    <2>2. row.ids \in [1..Width(row.kind) -> Int] /\ row.ids[1] = t
      BY <2>1, <1>3, <1>4, <1>5
    <2>3. next \in {next, next + 1} /\ row.ids[1] \in 0..(next - 1) /\ row.name \in Int
      BY <2>2, <1>3, <1>4, <1>5
    <2> QED BY <2>1, <2>2, <2>3, <1>5 DEF NewRowsOK
  <1>7. LinesFollow({}, {}, {row}, Lake)
    <2>1. \A r \in Opened : ~SameThing(r, row)
      BY <1>5 DEF Opened, SameThing
    <2>2. row.kind \notin Parents
      BY <1>5 DEF Parents
    <2> QED BY <2>1, <2>2, <1>5 DEF LinesFollow
  <1> QED BY <1>2, <1>3, <1>6, <1>7, CommitKeeps

LEMMA CreateViewKeeps ==
  ASSUME IInv, NEW s, CreateView(s)
  PROVE  IInv'
  <1> DEFINE row == Row(VIEW_ROW, <<next, s>>, 0)
             object == [kind |-> VIEW_ROW, schema |-> s, tag |-> Null]
  <1>1. ServerInv /\ next' = next + 1 /\ Commit({row}, NoRow, With(next, object)) /\ s \in Lake.schemas
    BY DEF CreateView, IInv
  <1>2. Writes({}, {row}, With(next, object), next + 1)
    BY <1>1, CommitNone
  <1>3. Lake \in LakeType /\ next \in Nat
    BY <1>1, OpenSays
  <1>4. s \in Nat
    BY <1>1, <1>3 DEF LakeType
  <1>5. object.kind = VIEW_ROW /\ object.schema = s /\ object.tag = Null /\ object \in Objectlike
    BY <1>4 DEF Objectlike, ViewObject, Null
  <1>6. row.kind = VIEW_ROW /\ row.ids = <<next, s>> /\ row.name = 0 /\ LineOf(row) = Line(VIEW_ROW, <<next, s>>, 0)
        /\ row = Row(row.kind, row.ids, row.name) /\ IsVersioned(row.kind) /\ Speaks(row)
    BY RowFacts DEF IsVersioned, Speaks
  <1> HIDE DEF row, object
  <1>7. NewRowsOK({row}, next + 1)
    <2>1. Width(row.kind) = 2 /\ row.kind \in Kinds /\ row.kind \notin Parents \cup Children
      BY <1>6 DEF Width, Kinds, Parents, Children
    <2>2. row.ids \in [1..Width(row.kind) -> Int] /\ row.ids[1] = next
      BY <2>1, <1>3, <1>4, <1>6
    <2>3. next + 1 \in {next, next + 1} /\ row.ids[1] \in 0..((next + 1) - 1) /\ row.name \in Int
      BY <2>2, <1>3, <1>6
    <2> QED BY <2>1, <2>2, <2>3, <1>6 DEF NewRowsOK
  <1>8. \A l : l \in ObjectLines(next, object) <=> \E r \in {row} : IsVersioned(r.kind) /\ Speaks(r) /\ l = LineOf(r)
    <2> TAKE l
    <2>1. l \in ObjectLines(next, object) <=> l = Line(VIEW_ROW, <<next, s>>, 0)
      BY <1>5 DEF ObjectLines
    <2> QED BY <2>1, <1>6
  <1>9. row.kind \notin Parents /\ row.ids[1] = next
    BY <1>3, <1>4, <1>6 DEF Parents
  <1>10. LinesFollow({}, {}, {row}, With(next, object)) /\ LakeOK(With(next, object), next + 1)
    BY <1>1, <1>5, <1>7, <1>8, <1>9, CreateFollows
  <1> QED BY <1>2, <1>7, <1>10, CommitKeeps

\* The rows of a new table, and what they say.
LEMMA NewTableFacts ==
  ASSUME NEW t \in Nat, NEW s \in Nat
  PROVE  /\ NewTable(s) \in TableObject
         /\ \A r \in TableRows(t, s) :
              /\ r = Row(r.kind, r.ids, r.name) /\ r.kind \in {TABLE_ROW, COLUMN_ROW} /\ r.name = 0
              /\ r.ids \in [1..Width(r.kind) -> Int] /\ r.ids[1] = t /\ IsVersioned(r.kind) /\ Speaks(r)
         /\ \A r, q \in TableRows(t, s) : SameThing(r, q) => r = q
         /\ \A l : l \in ObjectLines(t, NewTable(s)) <=> \E r \in TableRows(t, s) : l = LineOf(r)
  <1> DEFINE rows == TableRows(t, s)
             object == NewTable(s)
             Col(c) == Row(COLUMN_ROW, <<t, c, c, FirstColumns[c].parent>>, FirstColumns[c].name)
             top == Row(TABLE_ROW, <<t, s>>, 0)
  <1>1. /\ FirstColumns \in [1..4 -> Column] /\ DOMAIN FirstColumns = 1..4
        /\ \A c \in 1..4 : FirstColumns[c].name = 0 /\ FirstColumns[c].tag = Null /\ FirstColumns[c].parent \in Int
    BY DEF FirstColumns, Column, Null
  <1>2. /\ object.kind = TABLE_ROW /\ object.schema = s /\ object.tag = Null /\ object.columns = FirstColumns
        /\ \A k \in Specs : object.spec[k] = NoSpec
    BY DEF NewTable
  <1>3. object \in TableObject
    <2>1. NoSpec \in [id : Int, fields : Seq(Nat)]
      BY DEF NoSpec, Null
    <2>2. [k \in Specs |-> NoSpec] \in [Specs -> [id : Int, fields : Seq(Nat)]]
      BY <2>1
    <2>3. FirstColumns \in UNION {[1..n -> Column] : n \in Nat}
      BY <1>1
    <2> QED BY <2>2, <2>3 DEF NewTable, TableObject, Null
  <1>4. Live(object) = 1..4
    BY <1>1, <1>2 DEF Live, Null
  <1>5. rows = {top} \cup {Col(c) : c \in 1..4}
    BY DEF TableRows, ColumnRow
  <1>6. /\ top.kind = TABLE_ROW /\ top.ids = <<t, s>> /\ top.name = 0
         /\ LineOf(top) = Line(TABLE_ROW, <<t, s>>, 0)
         /\ top = Row(top.kind, top.ids, top.name) /\ IsVersioned(top.kind) /\ Speaks(top)
    BY RowFacts DEF IsVersioned, Speaks
  <1>7. ASSUME NEW c \in 1..4
         PROVE  /\ Col(c).kind = COLUMN_ROW /\ Col(c).ids = <<t, c, c, FirstColumns[c].parent>> /\ Col(c).name = 0
                /\ LineOf(Col(c)) = Line(COLUMN_ROW, <<t, c, c, FirstColumns[c].parent>>, FirstColumns[c].name)
                /\ Col(c) = Row(Col(c).kind, Col(c).ids, Col(c).name) /\ IsVersioned(Col(c).kind) /\ Speaks(Col(c))
    BY <1>1, RowFacts DEF IsVersioned, Speaks
  <1> HIDE DEF rows, object, top, Col
  <1>8. ASSUME NEW r \in rows
        PROVE  /\ r = Row(r.kind, r.ids, r.name) /\ r.kind \in {TABLE_ROW, COLUMN_ROW} /\ r.name = 0
               /\ r.ids \in [1..Width(r.kind) -> Int] /\ r.ids[1] = t /\ IsVersioned(r.kind) /\ Speaks(r)
    <2>1. Width(TABLE_ROW) = 2 /\ Width(COLUMN_ROW) = 4
      BY DEF Width
    <2>2. CASE r = top
      BY <2>1, <2>2, <1>6
    <2>3. CASE \E c \in 1..4 : r = Col(c)
      <3>1. PICK c \in 1..4 : r = Col(c)
        BY <2>3
      <3> DEFINE ids == <<t, c, c, FirstColumns[c].parent>>
      <3>2. ids \in [1..4 -> Int] /\ ids[1] = t
        BY <1>1
      <3> HIDE DEF ids
      <3>3. r.kind = COLUMN_ROW /\ r.ids = ids /\ r.name = 0 /\ r = Row(r.kind, r.ids, r.name) /\ IsVersioned(r.kind)
            /\ Speaks(r)
        BY <3>1, <1>7 DEF ids
      <3> QED BY <2>1, <3>2, <3>3
    <2> QED BY <2>2, <2>3, <1>5
  <1>9. ASSUME NEW r \in rows, NEW q \in rows, SameThing(r, q) PROVE r = q
    <2>1. r.kind = q.kind
      BY <1>9 DEF SameThing
    <2>2. CASE r = top
      BY <2>1, <2>2, <1>5, <1>6, <1>7
    <2>3. CASE r # top
      <3>1. PICK c \in 1..4 : r = Col(c)
        BY <2>3, <1>5
      <3>2. q # top
        BY <3>1, <2>1, <1>6, <1>7
      <3>3. PICK d \in 1..4 : q = Col(d)
        BY <3>2, <1>5
      <3>4. 2 \in 1..KeyIds(r.kind)
        BY <3>1, <1>7 DEF KeyIds
      <3>5. r.ids[2] = q.ids[2]
        BY <1>9, <3>4 DEF SameThing
      <3> QED BY <3>1, <3>3, <3>5, <1>7
    <2> QED BY <2>2, <2>3
  <1>10. \A l : l \in ObjectLines(t, object) <=> \E r \in rows : l = LineOf(r)
    <2> TAKE l
    <2>1. l \in ObjectLines(t, object) <=>
            \/ l = Line(TABLE_ROW, <<t, s>>, 0)
            \/ \E c \in 1..4 : l = Line(COLUMN_ROW, <<t, c, c, FirstColumns[c].parent>>, FirstColumns[c].name)
      <3>1. /\ \A c \in 1..4 : object.columns[c].tag = Null
            /\ \A k \in Specs : object.spec[k].id = Null
        BY <1>1, <1>2 DEF NoSpec
      <3> QED BY <3>1, <1>2, <1>4 DEF ObjectLines, TableLines
    <2> QED BY <2>1, <1>5, <1>6, <1>7
  <1> QED BY <1>3, <1>8, <1>9, <1>10 DEF rows, object

LEMMA CreateTableKeeps ==
  ASSUME IInv, NEW s, CreateTable(s)
  PROVE  IInv'
  <1> DEFINE rows == TableRows(next, s)
             object == NewTable(s)
  <1>1. ServerInv /\ next' = next + 1 /\ Commit(rows, NoRow, With(next, object)) /\ s \in Lake.schemas
    BY DEF CreateTable, IInv
  <1>2. Writes({}, rows, With(next, object), next + 1)
    BY <1>1, CommitNone
  <1>3. next \in Nat /\ s \in Nat
    BY <1>1, OpenSays DEF LakeType
  <1>4. /\ object \in TableObject
        /\ \A r \in rows :
              /\ r = Row(r.kind, r.ids, r.name) /\ r.kind \in {TABLE_ROW, COLUMN_ROW} /\ r.name = 0
              /\ r.ids \in [1..Width(r.kind) -> Int] /\ r.ids[1] = next /\ IsVersioned(r.kind) /\ Speaks(r)
        /\ \A r, q \in rows : SameThing(r, q) => r = q
        /\ \A l : l \in ObjectLines(next, object) <=> \E r \in rows : l = LineOf(r)
    BY <1>3, NewTableFacts
  <1> HIDE DEF rows, object
  <1>5. {TABLE_ROW, COLUMN_ROW} \subseteq Kinds \ (Parents \cup Children)
    BY DEF Kinds, Parents, Children
  <1>6. NewRowsOK(rows, next + 1)
    BY <1>3, <1>4, <1>5 DEF NewRowsOK
  <1>7. LinesFollow({}, {}, rows, With(next, object)) /\ LakeOK(With(next, object), next + 1)
    <2>1. object \in Objectlike
      BY <1>4 DEF Objectlike
    <2>2. \A l : l \in ObjectLines(next, object) <=> \E r \in rows : IsVersioned(r.kind) /\ Speaks(r) /\ l = LineOf(r)
      BY <1>4
    <2>3. \A r \in rows : r.kind \notin Parents /\ r.ids[1] = next
      BY <1>4, <1>5
    <2> QED BY <1>1, <1>6, <2>1, <2>2, <2>3, CreateFollows
  <1> QED BY <1>2, <1>6, <1>7, CommitKeeps

LEMMA CreateMacroKeeps ==
  ASSUME IInv, NEW s, CreateMacro(s)
  PROVE  IInv'
  <1> DEFINE top == Row(MACRO_ROW, <<next, s>>, 0)
             Impl(i) == Row(MACRO_IMPL_ROW, <<next, i>>, 0)
             Param(p) == Row(MACRO_PARAMETER_ROW, <<next, 2, p>>, 0)
             rows == {top} \cup {Impl(i) : i \in 1..2} \cup {Param(p) : p \in 1..2}
             object == [kind |-> MACRO_ROW, schema |-> s]
  <1>1. ServerInv /\ next' = next + 1 /\ Commit(rows, NoRow, With(next, object)) /\ s \in Lake.schemas
    BY DEF CreateMacro, IInv
  <1>2. Writes({}, rows, With(next, object), next + 1)
    BY <1>1, CommitNone
  <1>3. Lake \in LakeType /\ next \in Nat
    BY <1>1, OpenSays
  <1>4. s \in Nat
    BY <1>1, <1>3 DEF LakeType
  <1>5. object.kind = MACRO_ROW /\ object.schema = s /\ object \in Objectlike
    BY <1>4 DEF Objectlike, MacroObject
  <1>6. /\ top.kind = MACRO_ROW /\ top.ids = <<next, s>> /\ top.name = 0
        /\ LineOf(top) = Line(MACRO_ROW, <<next, s>>, 0)
        /\ top = Row(top.kind, top.ids, top.name) /\ IsVersioned(top.kind) /\ Speaks(top)
    BY RowFacts DEF IsVersioned, Speaks
  <1>7. ASSUME NEW i
        PROVE  /\ Impl(i).kind = MACRO_IMPL_ROW /\ Impl(i).ids = <<next, i>> /\ Impl(i).name = 0
               /\ Impl(i) = Row(Impl(i).kind, Impl(i).ids, Impl(i).name) /\ ~IsVersioned(Impl(i).kind)
    BY RowFacts DEF IsVersioned
  <1>8. ASSUME NEW p
        PROVE  /\ Param(p).kind = MACRO_PARAMETER_ROW /\ Param(p).ids = <<next, 2, p>> /\ Param(p).name = 0
               /\ Param(p) = Row(Param(p).kind, Param(p).ids, Param(p).name) /\ ~IsVersioned(Param(p).kind)
    BY RowFacts DEF IsVersioned
  <1>9. \A r : r \in rows <=> r = top \/ (\E i \in 1..2 : r = Impl(i)) \/ (\E p \in 1..2 : r = Param(p))
    OBVIOUS
  <1>10. ChildRows(With(next, object), top.kind, top.ids) = {Impl(i) : i \in 1..2} \cup {Param(p) : p \in 1..2}
    BY <1>6 DEF ChildRows
  <1> HIDE DEF rows, object, top, Impl, Param
  <1>11. NewRowsOK(rows, next + 1)
    <2>1. ASSUME NEW r \in rows
          PROVE  /\ r = Row(r.kind, r.ids, r.name) /\ r.name = 0
                 /\ r.kind \in {MACRO_ROW, MACRO_IMPL_ROW, MACRO_PARAMETER_ROW}
                 /\ r.ids \in [1..Width(r.kind) -> Int] /\ r.ids[1] = next
      <3>1. Width(MACRO_ROW) = 2 /\ Width(MACRO_IMPL_ROW) = 2 /\ Width(MACRO_PARAMETER_ROW) = 3
        BY DEF Width
      <3>2. CASE r = top
        BY <3>1, <3>2, <1>3, <1>4, <1>6
      <3>3. ASSUME NEW i \in 1..2, r = Impl(i)
            PROVE  /\ r = Row(r.kind, r.ids, r.name) /\ r.name = 0 /\ r.kind = MACRO_IMPL_ROW
                   /\ r.ids \in [1..Width(r.kind) -> Int] /\ r.ids[1] = next
        <4>1. <<next, i>> \in [1..2 -> Int] /\ <<next, i>>[1] = next
          BY <3>3, <1>3
        <4>2. r.kind = MACRO_IMPL_ROW /\ r.ids = <<next, i>> /\ r.name = 0 /\ r = Row(r.kind, r.ids, r.name)
          BY <3>3, <1>7
        <4> QED BY <3>1, <4>1, <4>2
      <3>4. ASSUME NEW p \in 1..2, r = Param(p)
            PROVE  /\ r = Row(r.kind, r.ids, r.name) /\ r.name = 0 /\ r.kind = MACRO_PARAMETER_ROW
                   /\ r.ids \in [1..Width(r.kind) -> Int] /\ r.ids[1] = next
        <4>1. <<next, 2, p>> \in [1..3 -> Int] /\ <<next, 2, p>>[1] = next
          BY <3>4, <1>3
        <4>2. r.kind = MACRO_PARAMETER_ROW /\ r.ids = <<next, 2, p>> /\ r.name = 0 /\ r = Row(r.kind, r.ids, r.name)
          BY <3>4, <1>8
        <4> QED BY <3>1, <4>1, <4>2
      <3> QED BY <3>2, <3>3, <3>4, <1>9
    <2>2. {MACRO_ROW, MACRO_IMPL_ROW, MACRO_PARAMETER_ROW} \subseteq Kinds
      BY DEF Kinds, Parents, Children
    <2>3. ASSUME NEW r \in rows, NEW q \in rows, SameThing(r, q) PROVE r = q
      <3>1. r.kind = q.kind
        BY <2>3 DEF SameThing
      <3>2. CASE r = top
        BY <3>1, <3>2, <1>6, <1>7, <1>8, <1>9
      <3>3. ASSUME NEW i \in 1..2, r = Impl(i) PROVE r = q
        <4>1. PICK j \in 1..2 : q = Impl(j)
          BY <3>1, <3>3, <1>6, <1>7, <1>8, <1>9
        <4>2. 2 \in 1..KeyIds(r.kind)
          BY <3>3, <1>7 DEF KeyIds
        <4>3. r.ids[2] = q.ids[2]
          BY <2>3, <4>2 DEF SameThing
        <4> QED BY <4>1, <4>3, <3>3, <1>7
      <3>4. ASSUME NEW p \in 1..2, r = Param(p) PROVE r = q
        <4>1. PICK j \in 1..2 : q = Param(j)
          BY <3>1, <3>4, <1>6, <1>7, <1>8, <1>9
        <4>2. 3 \in 1..KeyIds(r.kind)
          BY <3>4, <1>8 DEF KeyIds
        <4>3. r.ids[3] = q.ids[3]
          BY <2>3, <4>2 DEF SameThing
        <4> QED BY <4>1, <4>3, <3>4, <1>8
      <3> QED BY <3>2, <3>3, <3>4, <1>9
    <2>4. next + 1 \in {next, next + 1} /\ next \in 0..((next + 1) - 1) /\ 0 \in Int
      BY <1>3
    <2> QED BY <2>1, <2>2, <2>3, <2>4 DEF NewRowsOK
  <1>12. \A l : l \in ObjectLines(next, object) <=> \E r \in rows : IsVersioned(r.kind) /\ Speaks(r) /\ l = LineOf(r)
    <2> TAKE l
    <2>1. l \in ObjectLines(next, object) <=> l = Line(MACRO_ROW, <<next, s>>, 0)
      BY <1>5 DEF ObjectLines
    <2> QED BY <2>1, <1>6, <1>7, <1>8, <1>9
  <1>13. \A p \in rows : p.kind \in Parents =>
           {r \in rows : IsChild(r) /\ Parent(r, p)} = ChildRows(With(next, object), p.kind, p.ids)
    <2> TAKE p \in rows
    <2> SUFFICES ASSUME p.kind \in Parents
                 PROVE  {r \in rows : IsChild(r) /\ Parent(r, p)} = ChildRows(With(next, object), p.kind, p.ids)
      OBVIOUS
    <2>1. p = top
      BY <1>7, <1>8, <1>9 DEF Parents
    <2>2. ASSUME NEW r \in rows
          PROVE  IsChild(r) /\ Parent(r, top) <=> (\E i \in 1..2 : r = Impl(i)) \/ (\E i \in 1..2 : r = Param(i))
      <3>1. r = top => ~IsChild(r)
        BY <1>6 DEF IsChild
      <3>2. ASSUME NEW i \in 1..2, r = Impl(i) PROVE IsChild(r) /\ Parent(r, top)
        BY <3>2, <1>3, <1>4, <1>6, <1>7 DEF IsChild, Parent, ParentKind
      <3>3. ASSUME NEW i \in 1..2, r = Param(i) PROVE IsChild(r) /\ Parent(r, top)
        BY <3>3, <1>3, <1>4, <1>6, <1>8 DEF IsChild, Parent, ParentKind
      <3> QED BY <3>1, <3>2, <3>3, <1>9
    <2> QED BY <2>1, <2>2, <1>9, <1>10
  <1>14. \A r \in rows : r.ids[1] = next
    BY <1>3, <1>4, <1>6, <1>7, <1>8, <1>9
  <1>15. LinesFollow({}, {}, rows, With(next, object)) /\ LakeOK(With(next, object), next + 1)
    BY <1>1, <1>5, <1>11, <1>12, <1>13, <1>14, CreateFollows
  <1> QED BY <1>2, <1>11, <1>15, CommitKeeps

\* Objects of the lake, and what of one is a table.
LEMMA ObjectFacts ==
  ASSUME ServerInv, NEW o \in DOMAIN Lake.objects
  PROVE  /\ o \in Nat /\ o < next /\ Lake.objects[o] \in Objectlike
         /\ Lake.objects[o].kind = TABLE_ROW => Lake.objects[o] \in TableObject
         /\ Lake.objects[o].kind = VIEW_ROW => Lake.objects[o] \in ViewObject
  <1>1. Lake \in LakeType /\ LakeOK(Lake, next)
    BY OpenSays
  <1>2. o \in Nat /\ o < next
    BY <1>1 DEF LakeType, LakeOK
  <1>3. Lake.objects[o] \in Objectlike
    BY <1>1, LinesFacts
  <1> QED BY <1>2, <1>3 DEF Objectlike, TableObject, ViewObject, MacroObject

LEMMA CommentKeeps ==
  ASSUME IInv, NEW o, NEW value \in Int, Comment(o, value)
  PROVE  IInv'
  <1> DEFINE row == Row(TAG_ROW, <<o>>, value)
             old == Lake.objects[o]
             object == [old EXCEPT !.tag = value]
             ends == {r \in history : r.kind = TAG_ROW /\ r.ids[1] = o}
             gone == {l \in ObjectLines(o, old) : l.kind = TAG_ROW}
  <1>1. ServerInv /\ next' = next /\ o \in DOMAIN Lake.objects /\ old.kind \in {TABLE_ROW, VIEW_ROW}
    BY DEF Comment, IInv, Ids
  <1>2. Commit({row}, LAMBDA r : r \in ends, With(o, object))
    BY DEF Comment, Commit
  <1>3. \A r \in ends : IsVersioned(r.kind)
    BY DEF IsVersioned
  <1>4. {r \in Opened : r \in ends} = {r \in Opened : r.kind = TAG_ROW /\ r.ids[1] = o}
    BY DEF Opened
  <1> HIDE DEF ends
  <1> DEFINE dead == {r \in Opened : r \in ends}
  <1>5. Writes(dead, {row}, With(o, object), next)
    BY <1>1, <1>2, <1>3, CommitWrites
  <1>6. o \in Nat /\ o < next /\ next \in Nat /\ (old \in TableObject \/ old \in ViewObject)
    BY <1>1, ObjectFacts, OpenSays
  <1>7. /\ object.kind = old.kind /\ object.schema = old.schema /\ object.tag = value
        /\ old.kind = TABLE_ROW => object.columns = old.columns /\ object.spec = old.spec
        /\ object \in Objectlike /\ old \in Objectlike
    <2>1. CASE old \in TableObject
      <3>1. old = [kind |-> old.kind, schema |-> old.schema, tag |-> old.tag, columns |-> old.columns, spec |-> old.spec]
        BY <2>1 DEF TableObject
      <3>2. object = [kind |-> old.kind, schema |-> old.schema, tag |-> value, columns |-> old.columns, spec |-> old.spec]
        BY <3>1
      <3>3. object \in TableObject
        BY <2>1, <3>2 DEF TableObject
      <3> QED BY <2>1, <3>2, <3>3 DEF Objectlike
    <2>2. CASE old \in ViewObject
      <3>1. old = [kind |-> old.kind, schema |-> old.schema, tag |-> old.tag] /\ old.kind = VIEW_ROW
        BY <2>2 DEF ViewObject
      <3>2. object = [kind |-> old.kind, schema |-> old.schema, tag |-> value]
        BY <3>1
      <3>3. object \in ViewObject
        BY <2>2, <3>2 DEF ViewObject
      <3> QED BY <2>2, <3>1, <3>2, <3>3 DEF Objectlike
    <2> QED BY <2>1, <2>2, <1>6
  <1>8. row.kind = TAG_ROW /\ row.ids = <<o>> /\ row.name = value /\ LineOf(row) = Line(TAG_ROW, <<o>>, value)
        /\ row = Row(row.kind, row.ids, row.name) /\ IsVersioned(row.kind) /\ (Speaks(row) <=> value # Null)
    BY RowFacts DEF IsVersioned, Speaks
  <1> HIDE DEF row, object, old
  <1>9. NewRowsOK({row}, next)
    <2>1. Width(row.kind) = 1 /\ row.kind \in Kinds /\ row.kind \notin Parents \cup Children
      BY <1>8 DEF Width, Kinds, Parents, Children
    <2>2. row.ids \in [1..Width(row.kind) -> Int] /\ row.ids[1] = o
      BY <2>1, <1>6, <1>8
    <2>3. next \in {next, next + 1} /\ row.ids[1] \in 0..(next - 1) /\ row.name \in Int
      BY <2>2, <1>6, <1>8
    <2> QED BY <2>1, <2>2, <2>3, <1>8 DEF NewRowsOK
  <1>10. ASSUME NEW r \in Opened, LineOf(r) \in ObjectLines(o, old) PROVE r \in dead <=> LineOf(r) \in gone
    <2>1. Belongs(r, {o})
      BY <1>7, <1>10, ObjectLineOwner, LineOfFacts
    <2> QED BY <2>1, <1>4, <1>10, LineOfFacts DEF Belongs, Specs
  <1>11. /\ \A r \in Opened \ dead, q \in {row} : ~SameThing(r, q)
         /\ \A r \in dead : Belongs(r, {o})
    BY <1>4, <1>6, <1>8 DEF SameThing, KeyIds, Belongs
  <1>12. \A l : l \in ObjectLines(o, object) <=>
           \/ l \in ObjectLines(o, old) \ gone
           \/ \E r \in {row} : IsVersioned(r.kind) /\ Speaks(r) /\ l = LineOf(r)
    <2> DEFINE Rest == {Line(old.kind, <<o, old.schema>>, 0)} \cup (IF old.kind = TABLE_ROW THEN TableLines(o, old) ELSE {})
    <2>1. /\ ObjectLines(o, old) = Rest \cup (IF old.tag = Null THEN {} ELSE {Line(TAG_ROW, <<o>>, old.tag)})
          /\ ObjectLines(o, object) = Rest \cup (IF value = Null THEN {} ELSE {Line(TAG_ROW, <<o>>, value)})
      <3>1. old.kind = TABLE_ROW => TableLines(o, object) = TableLines(o, old)
        BY <1>7 DEF TableLines, Live
      <3> QED BY <3>1, <1>1, <1>7 DEF ObjectLines
    <2>2. \A l \in Rest : l.kind # TAG_ROW
      BY <1>1 DEF TableLines, Line, Specs
    <2>3. Line(TAG_ROW, <<o>>, old.tag).kind = TAG_ROW
      BY DEF Line
    <2> HIDE DEF Rest
    <2> QED BY <2>1, <2>2, <2>3, <1>8
  <1>13. object.kind = TABLE_ROW => \A k \in Specs : object.spec[k] = old.spec[k]
    BY <1>7
  <1>14. row.kind \notin Parents
    BY <1>8 DEF Parents
  <1>15. LinesFollow(dead, gone, {row}, With(o, object)) /\ LakeOK(With(o, object), next)
    <2>1. dead \subseteq Opened /\ gone \subseteq ObjectLines(o, old)
      OBVIOUS
    <2>2. old = Lake.objects[o]
      BY DEF old
    <2>3. \A p \in {row} : p.kind \in Parents =>
            {r \in {row} : IsChild(r) /\ Parent(r, p)} = ChildRows(With(o, object), p.kind, p.ids)
      BY <1>14
    <2>4. \A r \in Opened : LineOf(r) \in ObjectLines(o, old) => (r \in dead <=> LineOf(r) \in gone)
      BY <1>10
    <2>5. object.kind = TABLE_ROW => \A k \in Specs :
            object.spec[k] = old.spec[k] \/ Line(k, <<old.spec[k].id, o>>, 0) \in gone
      BY <1>13
    <2> DEFINE new == {row}
    <2>6. /\ \A r \in Opened \ dead, q \in new : ~SameThing(r, q)
          /\ \A l : l \in ObjectLines(o, object) <=>
               \/ l \in ObjectLines(o, old) \ gone
               \/ \E r \in new : IsVersioned(r.kind) /\ Speaks(r) /\ l = LineOf(r)
          /\ \A p \in new : p.kind \in Parents =>
               {r \in new : IsChild(r) /\ Parent(r, p)} = ChildRows(With(o, object), p.kind, p.ids)
      BY <1>11, <1>12, <2>3
    <2>7. /\ ServerInv /\ o \in DOMAIN Lake.objects /\ object \in Objectlike /\ object.kind = old.kind
          /\ \A r \in dead : Belongs(r, {o})
      BY <1>1, <1>7, <1>11
    <2> HIDE DEF dead, gone, new
    <2>8. Changes(o, object, dead, gone, new)
      BY <2>1, <2>2, <2>4, <2>5, <2>6, <2>7 DEF Changes
    <2>9. LinesFollow(dead, gone, new, With(o, object)) /\ LakeOK(With(o, object), next)
      BY <2>7, <2>8, UpdateFollows
    <2> QED BY <2>9 DEF new
  <1> QED BY <1>5, <1>9, <1>15, CommitKeeps

LEMMA UpdateKeeps ==
  ASSUME IInv, NEW o, NEW object, NEW dead, NEW gone, NEW new, NEW n, Changes(o, object, dead, gone, new),
         NewRowsOK(new, n), Writes(dead, new, With(o, object), n)
  PROVE  IInv'
  <1>1. ServerInv /\ next \in Nat /\ n \in {next, next + 1}
    BY DEF IInv, ServerInv, NewRowsOK
  <1>2. LinesFollow(dead, gone, new, With(o, object)) /\ LakeOK(With(o, object), next)
    BY <1>1, UpdateFollows
  <1>3. LakeOK(With(o, object), n)
    BY <1>1, <1>2, LakeGrown
  <1> QED BY <1>2, <1>3, CommitKeeps

-----------------------------------------------------------------------------
(* The columns of a table *)

ColumnKinds == {COLUMN_ROW, COLUMN_TAG_ROW}

Named(columns) == {c \in DOMAIN columns : columns[c].name # Null}
ColumnLine(t, c, column) == Line(COLUMN_ROW, <<t, c, c, column.parent>>, column.name)
ColumnTagLine(t, c, column) == Line(COLUMN_TAG_ROW, <<t, c>>, column.tag)
ColumnLines(t, columns) ==
  {ColumnLine(t, c, columns[c]) : c \in Named(columns)}
    \cup {ColumnTagLine(t, c, columns[c]) : c \in {d \in Named(columns) : columns[d].tag # Null}}

\* What a table says besides its columns.
OtherLines(t, table) ==
  {Line(TABLE_ROW, <<t, table.schema>>, 0)}
    \cup (IF table.tag = Null THEN {} ELSE {Line(TAG_ROW, <<t>>, table.tag)})
    \cup {Line(k, <<table.spec[k].id, t>>, 0) : k \in {k \in Specs : table.spec[k].id # Null}}

LEMMA ColumnLineFacts ==
  ASSUME NEW t, NEW columns, NEW l
  PROVE  /\ l \in ColumnLines(t, columns) <=>
              \/ \E c \in Named(columns) : l = ColumnLine(t, c, columns[c])
              \/ \E c \in Named(columns) : columns[c].tag # Null /\ l = ColumnTagLine(t, c, columns[c])
         /\ l \in ColumnLines(t, columns) =>
              l.kind \in ColumnKinds /\ l.ids[1] = t /\ l.ids[2] \in Named(columns)
  <1>1. l \in ColumnLines(t, columns) <=>
              \/ \E c \in Named(columns) : l = ColumnLine(t, c, columns[c])
              \/ \E c \in Named(columns) : columns[c].tag # Null /\ l = ColumnTagLine(t, c, columns[c])
    BY DEF ColumnLines
  <1>2. ASSUME NEW c \in Named(columns), l = ColumnLine(t, c, columns[c])
        PROVE  l.kind \in ColumnKinds /\ l.ids[1] = t /\ l.ids[2] = c
    BY <1>2 DEF ColumnLine, Line, ColumnKinds
  <1>3. ASSUME NEW c \in Named(columns), l = ColumnTagLine(t, c, columns[c])
        PROVE  l.kind \in ColumnKinds /\ l.ids[1] = t /\ l.ids[2] = c
    BY <1>3 DEF ColumnTagLine, Line, ColumnKinds
  <1> QED BY <1>1, <1>2, <1>3

LEMMA TableLineFacts ==
  ASSUME NEW t, NEW table \in TableObject
  PROVE  /\ ObjectLines(t, table) = OtherLines(t, table) \cup ColumnLines(t, table.columns)
         /\ \A l \in OtherLines(t, table) : l.kind \notin ColumnKinds
  <1>1. table.kind = TABLE_ROW
    BY DEF TableObject
  <1>2. Live(table) = Named(table.columns)
    BY DEF Live, Named
  <1>3. ObjectLines(t, table) = OtherLines(t, table) \cup ColumnLines(t, table.columns)
    BY <1>1, <1>2 DEF ObjectLines, TableLines, OtherLines, ColumnLines, ColumnLine, ColumnTagLine
  <1>4. \A l \in OtherLines(t, table) : l.kind \notin ColumnKinds
    BY DEF OtherLines, Line, ColumnKinds, Specs
  <1> QED BY <1>3, <1>4

\* A table with other columns.
LEMMA WithColumns ==
  ASSUME NEW table \in TableObject, NEW m \in Nat, NEW columns \in [1..m -> Column]
  PROVE  LET object == [table EXCEPT !.columns = columns]
         IN  /\ object \in TableObject /\ object.kind = TABLE_ROW /\ object.schema = table.schema
             /\ object.tag = table.tag /\ object.columns = columns /\ object.spec = table.spec
  <1>1. table = [kind |-> table.kind, schema |-> table.schema, tag |-> table.tag, columns |-> table.columns, spec |-> table.spec]
    BY DEF TableObject
  <1>2. [table EXCEPT !.columns = columns]
          = [kind |-> table.kind, schema |-> table.schema, tag |-> table.tag, columns |-> columns, spec |-> table.spec]
    BY <1>1
  <1> QED BY <1>2 DEF TableObject

\* A commit that gives a table other columns: rows of its columns D, of some kinds, end, and what the
\* new rows say, which are of those columns or of columns the table did not have, is what is new.
ColumnsTo(t, columns, K, D, new) ==
  /\ t \in DOMAIN Lake.objects /\ Lake.objects[t].kind = TABLE_ROW
  /\ \E m \in Nat : columns \in [1..m -> Column]
  /\ K \subseteq ColumnKinds
  /\ \A q \in new : /\ q.kind \in ColumnKinds /\ q.ids[1] = t
                    /\ \/ q.kind \in K /\ q.ids[2] \in D
                       \/ q.ids[2] \notin Named(Lake.objects[t].columns)
  /\ \A l : l \in ColumnLines(t, columns) <=>
       \/ l \in ColumnLines(t, Lake.objects[t].columns) /\ ~(l.kind \in K /\ l.ids[2] \in D)
       \/ \E r \in new : l = LineOf(r)

LEMMA ColumnsKeep ==
  ASSUME IInv, NEW t, NEW columns, NEW K, NEW D, NEW new, ColumnsTo(t, columns, K, D, new),
         NewRowsOK(new, next), NEW dead, dead = {r \in Opened : r.kind \in K /\ r.ids[1] = t /\ r.ids[2] \in D},
         Writes(dead, new, With(t, [Lake.objects[t] EXCEPT !.columns = columns]), next)
  PROVE  IInv'
  <1> DEFINE old == Lake.objects[t]
             object == [old EXCEPT !.columns = columns]
             gone == {l \in ColumnLines(t, old.columns) : l.kind \in K /\ l.ids[2] \in D}
  <1>1. /\ ServerInv /\ t \in DOMAIN Lake.objects /\ old.kind = TABLE_ROW /\ K \subseteq ColumnKinds
        /\ \A q \in new : /\ q.kind \in ColumnKinds /\ q.ids[1] = t
                          /\ \/ q.kind \in K /\ q.ids[2] \in D
                             \/ q.ids[2] \notin Named(old.columns)
        /\ \A l : l \in ColumnLines(t, columns) <=>
             \/ l \in ColumnLines(t, old.columns) /\ ~(l.kind \in K /\ l.ids[2] \in D)
             \/ \E r \in new : l = LineOf(r)
    BY DEF IInv, ColumnsTo
  <1>2. old \in TableObject
    BY <1>1, ObjectFacts
  <1>3. /\ object \in TableObject /\ object.kind = TABLE_ROW /\ object.schema = old.schema
        /\ object.tag = old.tag /\ object.columns = columns /\ object.spec = old.spec
    BY <1>2, WithColumns DEF ColumnsTo
  <1>5. Writes(dead, new, With(t, object), next)
    OBVIOUS
  <1>6. \A r : r \in dead <=> r \in Opened /\ r.kind \in K /\ r.ids[1] = t /\ r.ids[2] \in D
    OBVIOUS
  <1> HIDE DEF object, old
  <1>7. /\ ObjectLines(t, old) = OtherLines(t, old) \cup ColumnLines(t, old.columns)
        /\ ObjectLines(t, object) = OtherLines(t, old) \cup ColumnLines(t, columns)
        /\ \A l \in OtherLines(t, old) : l.kind \notin ColumnKinds
    <2>1. OtherLines(t, object) = OtherLines(t, old)
      BY <1>3 DEF OtherLines
    <2> QED BY <2>1, <1>2, <1>3, TableLineFacts
  <1>8. \A r \in Opened : r.kind \in ColumnKinds /\ r.ids[1] = t => LineOf(r) \in ColumnLines(t, old.columns)
    <2> TAKE r \in Opened
    <2> SUFFICES ASSUME r.kind \in ColumnKinds, r.ids[1] = t PROVE LineOf(r) \in ColumnLines(t, old.columns)
      OBVIOUS
    <2>1. Speaks(r)
      BY DEF Speaks, ColumnKinds
    <2>2. Belongs(LineOf(r), {t}) /\ LineOf(r).kind = r.kind
      BY LineOfFacts DEF Belongs, ColumnKinds
    <2>3. LineOf(r) \in ObjectLines(t, old)
      BY <2>1, <2>2, <1>1, OpenSays, LineOwner DEF old
    <2> QED BY <2>2, <2>3, <1>7
  <1>9. \A l \in ColumnLines(t, old.columns) : l.kind \in ColumnKinds /\ l.ids[1] = t /\ l.ids[2] \in Named(old.columns)
    BY ColumnLineFacts
  <1>10. \A r \in Opened : LineOf(r) \in ObjectLines(t, old) => (r \in dead <=> LineOf(r) \in gone)
    <2> TAKE r \in Opened
    <2>1. r \in dead => LineOf(r) \in gone
      BY <1>1, <1>6, <1>8, LineOfFacts
    <2>2. LineOf(r) \in gone => r \in dead
      BY <1>6, <1>9, LineOfFacts
    <2> QED BY <2>1, <2>2
  <1>11. ASSUME NEW r \in Opened \ dead, NEW q \in new, SameThing(r, q) PROVE FALSE
    <2>1. r.kind = q.kind /\ q.kind \in ColumnKinds
      BY <1>1, <1>11 DEF SameThing
    <2>2. 1 \in 1..KeyIds(r.kind) /\ 2 \in 1..KeyIds(r.kind)
      BY <2>1 DEF ColumnKinds, KeyIds
    <2>3. r.ids[1] = t /\ r.ids[2] = q.ids[2]
      BY <2>2, <1>1, <1>11 DEF SameThing
    <2>4. r.ids[2] \in Named(old.columns)
      BY <2>1, <2>3, <1>8, <1>9, LineOfFacts
    <2>5. q.kind \in K /\ q.ids[2] \in D
      BY <2>3, <2>4, <1>1
    <2> QED BY <2>1, <2>3, <2>5, <1>6
  <1>12. \A q \in new : IsVersioned(q.kind) /\ Speaks(q) /\ q.kind \notin Parents
    BY <1>1 DEF ColumnKinds, IsVersioned, Speaks, Parents
  <1>13. \A l : l \in ObjectLines(t, object) <=>
           \/ l \in ObjectLines(t, old) \ gone
           \/ \E r \in new : IsVersioned(r.kind) /\ Speaks(r) /\ l = LineOf(r)
    <2> TAKE l
    <2>1. l \in OtherLines(t, old) => l \notin gone
      BY <1>7, <1>9
    <2>2. l \in ColumnLines(t, columns) <=>
             \/ l \in ColumnLines(t, old.columns) /\ l \notin gone
             \/ \E r \in new : IsVersioned(r.kind) /\ Speaks(r) /\ l = LineOf(r)
      BY <1>1, <1>12
    <2> QED BY <2>1, <2>2, <1>7
  <1>14. \A r \in dead : Belongs(r, {t})
    BY <1>1, <1>6 DEF Belongs, ColumnKinds
  <1>15. gone \subseteq ObjectLines(t, old) /\ dead \subseteq Opened
    BY <1>6, <1>7
  <1> HIDE DEF gone
  <1>16. Changes(t, object, dead, gone, new)
    BY <1>1, <1>3, <1>10, <1>11, <1>12, <1>13, <1>14, <1>15 DEF Changes, Objectlike, old
  <1> QED BY <1>5, <1>16, UpdateKeeps

\* A column added, or another version of one.
Put(columns, c, column) == [i \in DOMAIN columns \cup {c} |-> IF i = c THEN column ELSE columns[i]]

Puttable(m, columns, c, column) ==
  /\ m \in Nat /\ columns \in [1..m -> Column] /\ c \in 1..(m + 1)
  /\ column \in Column /\ column.name # Null

LEMMA PutFacts ==
  ASSUME NEW m, NEW columns, NEW c, NEW column, Puttable(m, columns, c, column), NEW t
  PROVE  /\ \E k \in Nat : Put(columns, c, column) \in [1..k -> Column]
         /\ \A l : l \in ColumnLines(t, Put(columns, c, column)) <=>
              \/ l \in ColumnLines(t, columns) /\ l.ids[2] # c
              \/ l = ColumnLine(t, c, column)
              \/ column.tag # Null /\ l = ColumnTagLine(t, c, column)
  <1> DEFINE after == Put(columns, c, column)
  <1> USE DEF Puttable
  <1>1. DOMAIN after = DOMAIN columns \cup {c} /\ after[c] = column
        /\ \A i \in DOMAIN columns : i # c => after[i] = columns[i]
    BY DEF Put
  <1>2. \E k \in Nat : after \in [1..k -> Column]
    <2>1. CASE c = m + 1
      <3>1. 1..m \cup {c} = 1..(m + 1)
        BY <2>1
      <3>2. after \in [1..(m + 1) -> Column]
        BY <3>1 DEF Put
      <3> QED BY <3>2
    <2>2. CASE c # m + 1
      <3>1. 1..m \cup {c} = 1..m
        BY <2>2
      <3>2. after \in [1..m -> Column]
        BY <3>1 DEF Put
      <3> QED BY <3>2
    <2> QED BY <2>1, <2>2
  <1> HIDE DEF after
  <1>3. /\ c \in Named(after)
        /\ \A i : i # c => (i \in Named(after) <=> i \in Named(columns))
        /\ \A i \in Named(columns) : i # c => after[i] = columns[i]
    BY <1>1 DEF Named
  <1>4. \A s, d, some : /\ ColumnLine(s, d, some).ids[2] = d
                        /\ ColumnTagLine(s, d, some).ids[2] = d
    BY DEF ColumnLine, ColumnTagLine, Line
  <1>5. ASSUME NEW l
        PROVE  l \in ColumnLines(t, after) <=>
                 \/ l \in ColumnLines(t, columns) /\ l.ids[2] # c
                 \/ l = ColumnLine(t, c, column)
                 \/ column.tag # Null /\ l = ColumnTagLine(t, c, column)
    <2>1. l \in ColumnLines(t, after) <=>
              \/ \E i \in Named(after) : l = ColumnLine(t, i, after[i])
              \/ \E i \in Named(after) : after[i].tag # Null /\ l = ColumnTagLine(t, i, after[i])
      BY DEF ColumnLines
    <2>2. l \in ColumnLines(t, columns) <=>
              \/ \E i \in Named(columns) : l = ColumnLine(t, i, columns[i])
              \/ \E i \in Named(columns) : columns[i].tag # Null /\ l = ColumnTagLine(t, i, columns[i])
      BY DEF ColumnLines
    <2>3. (\E i \in Named(after) : l = ColumnLine(t, i, after[i])) <=>
            \/ l = ColumnLine(t, c, column)
            \/ l.ids[2] # c /\ \E i \in Named(columns) : l = ColumnLine(t, i, columns[i])
      BY <1>1, <1>3, <1>4
    <2>4. (\E i \in Named(after) : after[i].tag # Null /\ l = ColumnTagLine(t, i, after[i])) <=>
            \/ column.tag # Null /\ l = ColumnTagLine(t, c, column)
            \/ l.ids[2] # c /\ \E i \in Named(columns) : columns[i].tag # Null /\ l = ColumnTagLine(t, i, columns[i])
      BY <1>1, <1>3, <1>4
    <2> QED BY <2>1, <2>2, <2>3, <2>4
  <1> QED BY <1>2, <1>5 DEF after

\* The lines of one column.
LEMMA LinesOfColumn ==
  ASSUME NEW t, NEW columns, NEW c, NEW l, c \in Named(columns)
  PROVE  l \in ColumnLines(t, columns) /\ l.ids[2] = c <=>
           \/ l = ColumnLine(t, c, columns[c])
           \/ columns[c].tag # Null /\ l = ColumnTagLine(t, c, columns[c])
  <1>1. \A s, d, some : /\ ColumnLine(s, d, some).ids[2] = d
                        /\ ColumnTagLine(s, d, some).ids[2] = d
    BY DEF ColumnLine, ColumnTagLine, Line
  <1>2. l \in ColumnLines(t, columns) <=>
            \/ \E i \in Named(columns) : l = ColumnLine(t, i, columns[i])
            \/ \E i \in Named(columns) : columns[i].tag # Null /\ l = ColumnTagLine(t, i, columns[i])
    BY DEF ColumnLines
  <1> QED BY <1>1, <1>2

\* What a change of the columns of a table starts from.
LEMMA TableFacts ==
  ASSUME ServerInv, NEW t \in Ids(TABLE_ROW)
  PROVE  /\ t \in DOMAIN Lake.objects /\ Lake.objects[t].kind = TABLE_ROW /\ Lake.objects[t] \in TableObject
         /\ \E m \in Nat : Lake.objects[t].columns \in [1..m -> Column]
         /\ t \in Nat /\ t < next /\ next \in Nat
         /\ Live(Lake.objects[t]) = Named(Lake.objects[t].columns)
         /\ \A c, column : WithColumn(t, c, column)
                             = With(t, [Lake.objects[t] EXCEPT !.columns = Put(Lake.objects[t].columns, c, column)])
  <1>1. t \in DOMAIN Lake.objects /\ Lake.objects[t].kind = TABLE_ROW
    BY DEF Ids
  <1>2. Lake.objects[t] \in TableObject /\ t \in Nat /\ t < next /\ next \in Nat
    BY <1>1, ObjectFacts, OpenSays
  <1>3. \E m \in Nat : Lake.objects[t].columns \in [1..m -> Column]
    BY <1>2 DEF TableObject
  <1>4. Live(Lake.objects[t]) = Named(Lake.objects[t].columns)
    BY DEF Live, Named
  <1>5. \A c, column : WithColumn(t, c, column)
                         = With(t, [Lake.objects[t] EXCEPT !.columns = Put(Lake.objects[t].columns, c, column)])
    BY DEF WithColumn, Put
  <1> QED BY <1>1, <1>2, <1>3, <1>4, <1>5

\* The new row of a column, or of a column's tag.
RowOfColumn(row, t, c, column) ==
  /\ t \in Nat /\ t < next /\ next \in Nat /\ c \in Nat /\ column \in Column
  /\ \/ row = Row(COLUMN_ROW, <<t, c, c, column.parent>>, column.name)
     \/ row = Row(COLUMN_TAG_ROW, <<t, c>>, column.tag)

LEMMA ColumnRowOK ==
  ASSUME NEW t, NEW c, NEW column, NEW row, RowOfColumn(row, t, c, column)
  PROVE  /\ NewRowsOK({row}, next) /\ row.kind \in ColumnKinds /\ row.ids[1] = t /\ row.ids[2] = c
         /\ row.kind = COLUMN_ROW => LineOf(row) = ColumnLine(t, c, column)
         /\ row.kind = COLUMN_TAG_ROW => LineOf(row) = ColumnTagLine(t, c, column)
  <1> USE DEF RowOfColumn
  <1>0. column.parent \in Int /\ column.name \in Int /\ column.tag \in Int
    BY DEF Column, Null
  <1>1. Width(COLUMN_ROW) = 4 /\ Width(COLUMN_TAG_ROW) = 2
    BY DEF Width
  <1>2. {COLUMN_ROW, COLUMN_TAG_ROW} \subseteq Kinds \ (Parents \cup Children)
    BY DEF Kinds, Parents, Children
  <1>3. <<t, c, c, column.parent>> \in [1..4 -> Int] /\ <<t, c>> \in [1..2 -> Int]
    BY <1>0
  <1>4. /\ row.kind \in {COLUMN_ROW, COLUMN_TAG_ROW} /\ row.ids \in [1..Width(row.kind) -> Int]
        /\ row.ids[1] = t /\ row.ids[2] = c /\ row.name \in Int /\ row = Row(row.kind, row.ids, row.name)
        /\ IsVersioned(row.kind)
    <2>1. CASE row = Row(COLUMN_ROW, <<t, c, c, column.parent>>, column.name)
      <3>1. row.kind = COLUMN_ROW /\ row.ids = <<t, c, c, column.parent>> /\ row.name = column.name
            /\ row = Row(row.kind, row.ids, row.name)
        BY <2>1, RowFacts
      <3> QED BY <3>1, <1>0, <1>1, <1>3 DEF IsVersioned
    <2>2. CASE row = Row(COLUMN_TAG_ROW, <<t, c>>, column.tag)
      <3>1. row.kind = COLUMN_TAG_ROW /\ row.ids = <<t, c>> /\ row.name = column.tag
            /\ row = Row(row.kind, row.ids, row.name)
        BY <2>2, RowFacts
      <3> QED BY <3>1, <1>0, <1>1, <1>3 DEF IsVersioned
    <2> QED BY <2>1, <2>2
  <1>5. NewRowsOK({row}, next)
    <2>1. next \in {next, next + 1} /\ row.ids[1] \in 0..(next - 1)
      BY <1>4
    <2> QED BY <2>1, <1>2, <1>4 DEF NewRowsOK
  <1>6. /\ row.kind = COLUMN_ROW => LineOf(row) = ColumnLine(t, c, column)
        /\ row.kind = COLUMN_TAG_ROW => LineOf(row) = ColumnTagLine(t, c, column)
    BY RowFacts DEF ColumnLine, ColumnTagLine
  <1> QED BY <1>4, <1>5, <1>6 DEF ColumnKinds

LEMMA CommentColumnKeeps ==
  ASSUME IInv, NEW t, NEW c, CommentColumn(t, c)
  PROVE  IInv'
  <1> DEFINE old == Lake.objects[t]
             column == [old.columns[c] EXCEPT !.tag = 1]
             columns == Put(old.columns, c, column)
             row == Row(COLUMN_TAG_ROW, <<t, c>>, 1)
             ends == {r \in history : r.kind = COLUMN_TAG_ROW /\ r.ids[1] = t /\ r.ids[2] = c}
             lake == With(t, [old EXCEPT !.columns = columns])
  <1>1. ServerInv /\ next' = next /\ t \in Ids(TABLE_ROW) /\ c \in Live(old)
    BY DEF CommentColumn, IInv
  <1>2. /\ t \in DOMAIN Lake.objects /\ old.kind = TABLE_ROW /\ t \in Nat /\ t < next /\ next \in Nat
        /\ Live(old) = Named(old.columns) /\ c \in Named(old.columns) /\ WithColumn(t, c, column) = lake
    BY <1>1, TableFacts
  <1>3. PICK m \in Nat : old.columns \in [1..m -> Column]
    BY <1>1, TableFacts
  <1>4. c \in 1..m /\ old.columns[c] \in Column /\ old.columns[c].name # Null /\ c \in Nat
    BY <1>2, <1>3 DEF Named
  <1>5. /\ column \in Column /\ column.name = old.columns[c].name /\ column.parent = old.columns[c].parent
        /\ column.tag = 1 /\ column.tag # Null /\ column.name # Null
    BY <1>4 DEF Column, Null
  <1>6. Commit({row}, LAMBDA r : r \in ends, lake)
    BY <1>2 DEF CommentColumn, Commit
  <1>7. (\A r \in ends : IsVersioned(r.kind))
        /\ {r \in Opened : r \in ends} = {r \in Opened : r.kind \in {COLUMN_TAG_ROW} /\ r.ids[1] = t /\ r.ids[2] \in {c}}
    BY DEF IsVersioned, Opened
  <1> HIDE DEF ends, lake
  <1>8. Writes({r \in Opened : r \in ends}, {row}, lake, next)
    BY <1>1, <1>6, <1>7, CommitWrites
  <1>9. row = Row(COLUMN_TAG_ROW, <<t, c>>, column.tag)
    BY <1>5
  <1> HIDE DEF row, column, old
  <1>10. /\ NewRowsOK({row}, next) /\ row.kind = COLUMN_TAG_ROW /\ row.ids[1] = t /\ row.ids[2] = c
         /\ LineOf(row) = ColumnTagLine(t, c, column)
    <2>1. RowOfColumn(row, t, c, column)
      BY <1>2, <1>4, <1>5, <1>9 DEF RowOfColumn
    <2>2. row.kind = COLUMN_TAG_ROW
      BY <1>9, RowFacts
    <2> QED BY <2>1, <2>2, ColumnRowOK
  <1>p. Puttable(m, old.columns, c, column)
    BY <1>3, <1>4, <1>5 DEF Puttable
  <1>11. \A l : l \in ColumnLines(t, columns) <=>
           \/ l \in ColumnLines(t, old.columns) /\ ~(l.kind \in {COLUMN_TAG_ROW} /\ l.ids[2] \in {c})
           \/ \E r \in {row} : l = LineOf(r)
    <2> TAKE l
    <2>1. l \in ColumnLines(t, columns) <=>
            \/ l \in ColumnLines(t, old.columns) /\ l.ids[2] # c
            \/ l = ColumnLine(t, c, column)
            \/ column.tag # Null /\ l = ColumnTagLine(t, c, column)
      BY <1>p, PutFacts
    <2>2. ColumnLine(t, c, column) = ColumnLine(t, c, old.columns[c])
      BY <1>5 DEF ColumnLine
    <2>3. l \in ColumnLines(t, old.columns) /\ l.ids[2] = c <=>
            \/ l = ColumnLine(t, c, old.columns[c])
            \/ old.columns[c].tag # Null /\ l = ColumnTagLine(t, c, old.columns[c])
      <3>1. c \in Named(old.columns)
        BY <1>2
      <3> QED BY <3>1, LinesOfColumn
    <2>4. \A some : ColumnLine(t, c, some).kind = COLUMN_ROW /\ ColumnTagLine(t, c, some).kind = COLUMN_TAG_ROW
      BY DEF ColumnLine, ColumnTagLine, Line
    <2> QED BY <2>1, <2>2, <2>3, <2>4, <1>5, <1>10
  <1>12. ColumnsTo(t, columns, {COLUMN_TAG_ROW}, {c}, {row})
    <2>1. \E k \in Nat : columns \in [1..k -> Column]
      BY <1>p, PutFacts
    <2> HIDE DEF columns
    <2> QED BY <2>1, <1>2, <1>10, <1>11 DEF ColumnsTo, ColumnKinds, old
  <1> HIDE DEF columns
  <1> QED BY <1>7, <1>8, <1>10, <1>12, ColumnsKeep DEF lake, old

LEMMA RenameColumnKeeps ==
  ASSUME IInv, NEW t, NEW c, RenameColumn(t, c)
  PROVE  IInv'
  <1> DEFINE old == Lake.objects[t]
             column == [old.columns[c] EXCEPT !.name = @ + 1]
             columns == Put(old.columns, c, column)
             row == ColumnRow(t, c, column)
             ends == {r \in history : r.kind = COLUMN_ROW /\ r.ids[1] = t /\ r.ids[2] = c}
             lake == With(t, [old EXCEPT !.columns = columns])
  <1>1. ServerInv /\ next' = next /\ t \in Ids(TABLE_ROW) /\ c \in Live(old)
    BY DEF RenameColumn, IInv
  <1>2. /\ t \in DOMAIN Lake.objects /\ old.kind = TABLE_ROW /\ t \in Nat /\ t < next /\ next \in Nat
        /\ Live(old) = Named(old.columns) /\ c \in Named(old.columns) /\ WithColumn(t, c, column) = lake
    BY <1>1, TableFacts
  <1>3. PICK m \in Nat : old.columns \in [1..m -> Column]
    BY <1>1, TableFacts
  <1>4. c \in 1..m /\ old.columns[c] \in Column /\ old.columns[c].name # Null /\ c \in Nat
    BY <1>2, <1>3 DEF Named
  <1>5. /\ column \in Column /\ column.tag = old.columns[c].tag /\ column.parent = old.columns[c].parent
        /\ column.name # Null
    BY <1>4 DEF Column, Null
  <1>6. Commit({row}, LAMBDA r : r \in ends, lake)
    BY <1>2 DEF RenameColumn, Commit
  <1>7. (\A r \in ends : IsVersioned(r.kind))
        /\ {r \in Opened : r \in ends} = {r \in Opened : r.kind \in {COLUMN_ROW} /\ r.ids[1] = t /\ r.ids[2] \in {c}}
    BY DEF IsVersioned, Opened
  <1> HIDE DEF ends, lake
  <1>8. Writes({r \in Opened : r \in ends}, {row}, lake, next)
    BY <1>1, <1>6, <1>7, CommitWrites
  <1>9. row = Row(COLUMN_ROW, <<t, c, c, column.parent>>, column.name)
    BY DEF ColumnRow
  <1> HIDE DEF row, column, old
  <1>10. /\ NewRowsOK({row}, next) /\ row.kind = COLUMN_ROW /\ row.ids[1] = t /\ row.ids[2] = c
         /\ LineOf(row) = ColumnLine(t, c, column)
    <2>1. RowOfColumn(row, t, c, column)
      BY <1>2, <1>4, <1>5, <1>9 DEF RowOfColumn
    <2>2. row.kind = COLUMN_ROW
      BY <1>9, RowFacts
    <2> QED BY <2>1, <2>2, ColumnRowOK
  <1>p. Puttable(m, old.columns, c, column)
    BY <1>3, <1>4, <1>5 DEF Puttable
  <1>11. \A l : l \in ColumnLines(t, columns) <=>
           \/ l \in ColumnLines(t, old.columns) /\ ~(l.kind \in {COLUMN_ROW} /\ l.ids[2] \in {c})
           \/ \E r \in {row} : l = LineOf(r)
    <2> TAKE l
    <2>1. l \in ColumnLines(t, columns) <=>
            \/ l \in ColumnLines(t, old.columns) /\ l.ids[2] # c
            \/ l = ColumnLine(t, c, column)
            \/ column.tag # Null /\ l = ColumnTagLine(t, c, column)
      BY <1>p, PutFacts
    <2>2. ColumnTagLine(t, c, column) = ColumnTagLine(t, c, old.columns[c])
      BY <1>5 DEF ColumnTagLine
    <2>3. l \in ColumnLines(t, old.columns) /\ l.ids[2] = c <=>
            \/ l = ColumnLine(t, c, old.columns[c])
            \/ old.columns[c].tag # Null /\ l = ColumnTagLine(t, c, old.columns[c])
      <3>1. c \in Named(old.columns)
        BY <1>2
      <3> QED BY <3>1, LinesOfColumn
    <2>4. \A some : ColumnLine(t, c, some).kind = COLUMN_ROW /\ ColumnTagLine(t, c, some).kind = COLUMN_TAG_ROW
      BY DEF ColumnLine, ColumnTagLine, Line
    <2> QED BY <2>1, <2>2, <2>3, <2>4, <1>5, <1>10
  <1>12. ColumnsTo(t, columns, {COLUMN_ROW}, {c}, {row})
    <2>1. \E k \in Nat : columns \in [1..k -> Column]
      BY <1>p, PutFacts
    <2> HIDE DEF columns
    <2> QED BY <2>1, <1>2, <1>10, <1>11 DEF ColumnsTo, ColumnKinds, old
  <1> HIDE DEF columns
  <1> QED BY <1>7, <1>8, <1>10, <1>12, ColumnsKeep DEF lake, old

LEMMA AddColumnKeeps ==
  ASSUME IInv, NEW t, NEW parent, AddColumn(t, parent)
  PROVE  IInv'
  <1> DEFINE old == Lake.objects[t]
             c == Cardinality(DOMAIN old.columns) + 1
             column == [parent |-> parent, name |-> 0, tag |-> Null]
             columns == Put(old.columns, c, column)
             row == ColumnRow(t, c, column)
             lake == With(t, [old EXCEPT !.columns = columns])
  <1>1. ServerInv /\ next' = next /\ t \in Ids(TABLE_ROW)
        /\ (\E d \in Live(old) : parent = old.columns[d].parent)
        /\ Commit({row}, NoRow, WithColumn(t, c, column))
    BY DEF AddColumn, IInv
  <1>2. /\ t \in DOMAIN Lake.objects /\ old.kind = TABLE_ROW /\ t \in Nat /\ t < next /\ next \in Nat
        /\ Live(old) = Named(old.columns) /\ WithColumn(t, c, column) = lake
    BY <1>1, TableFacts
  <1>3. PICK m \in Nat : old.columns \in [1..m -> Column]
    BY <1>1, TableFacts
  <1>4. c = m + 1 /\ c \in Nat /\ c \in 1..(m + 1) /\ c \notin Named(old.columns)
    <2>1. DOMAIN old.columns = 1..m /\ Cardinality(1..m) = m
      BY <1>3, FS_Interval
    <2> QED BY <2>1, <1>3 DEF Named
  <1>5. column \in Column /\ column.name = 0 /\ column.name # Null /\ column.tag = Null
    <2>1. parent \in Int
      BY <1>1, <1>2, <1>3 DEF Named, Column
    <2> QED BY <2>1 DEF Column, Null
  <1>6. row = Row(COLUMN_ROW, <<t, c, c, column.parent>>, column.name)
    BY DEF ColumnRow
  <1> HIDE DEF row, column, old, c, lake
  <1>7. Writes({}, {row}, lake, next)
    BY <1>1, <1>2, CommitNone
  <1>8. /\ NewRowsOK({row}, next) /\ row.kind = COLUMN_ROW /\ row.ids[1] = t /\ row.ids[2] = c
        /\ LineOf(row) = ColumnLine(t, c, column)
    <2>1. RowOfColumn(row, t, c, column)
      BY <1>2, <1>4, <1>5, <1>6 DEF RowOfColumn
    <2>2. row.kind = COLUMN_ROW
      BY <1>6, RowFacts
    <2> QED BY <2>1, <2>2, ColumnRowOK
  <1>p. Puttable(m, old.columns, c, column)
    BY <1>3, <1>4, <1>5 DEF Puttable
  <1>9. \A l : l \in ColumnLines(t, columns) <=> l \in ColumnLines(t, old.columns) \/ l = ColumnLine(t, c, column)
    <2> TAKE l
    <2>1. l \in ColumnLines(t, columns) <=>
            \/ l \in ColumnLines(t, old.columns) /\ l.ids[2] # c
            \/ l = ColumnLine(t, c, column)
            \/ column.tag # Null /\ l = ColumnTagLine(t, c, column)
      BY <1>p, PutFacts
    <2>2. l \in ColumnLines(t, old.columns) => l.ids[2] \in Named(old.columns)
      BY ColumnLineFacts
    <2> QED BY <2>1, <2>2, <1>4, <1>5
  <1>10. ColumnsTo(t, columns, {}, {}, {row})
    <2>1. \E k \in Nat : columns \in [1..k -> Column]
      BY <1>p, PutFacts
    <2> HIDE DEF columns
    <2> QED BY <2>1, <1>2, <1>4, <1>8, <1>9 DEF ColumnsTo, ColumnKinds, old
  <1>11. {} = {r \in Opened : r.kind \in {} /\ r.ids[1] = t /\ r.ids[2] \in {}}
    OBVIOUS
  <1> HIDE DEF columns
  <1> QED BY <1>7, <1>8, <1>10, <1>11, ColumnsKeep DEF lake, old

LEMMA DropColumnKeeps ==
  ASSUME IInv, NEW t, NEW c, DropColumn(t, c)
  PROVE  IInv'
  <1> DEFINE old == Lake.objects[t]
             Up(d) == IF d = Null THEN Null ELSE old.columns[d].parent
             gone == {d \in Live(old) : c \in {d, Up(d), Up(Up(d))}}
             columns == [d \in DOMAIN old.columns |->
                           IF d \in gone THEN [old.columns[d] EXCEPT !.name = Null] ELSE old.columns[d]]
             ends == {r \in history : r.kind \in ColumnKinds /\ r.ids[1] = t /\ r.ids[2] \in gone}
             lake == With(t, [old EXCEPT !.columns = columns])
  <1>1. ServerInv /\ next' = next /\ t \in Ids(TABLE_ROW)
    BY DEF DropColumn, IInv
  <1>2. Commit({}, LAMBDA r : r \in ends, lake)
    BY DEF DropColumn, Commit, ColumnKinds
  <1>3. /\ t \in DOMAIN Lake.objects /\ old.kind = TABLE_ROW /\ Live(old) = Named(old.columns)
    BY <1>1, TableFacts
  <1>4. PICK m \in Nat : old.columns \in [1..m -> Column]
    BY <1>1, TableFacts
  <1> HIDE DEF gone
  <1>5. columns \in [1..m -> Column]
    BY <1>4 DEF Column
  <1>6. Named(columns) = Named(old.columns) \ gone /\ \A d \in Named(columns) : columns[d] = old.columns[d]
    BY <1>4 DEF Named, Column
  <1>7. (\A r \in ends : IsVersioned(r.kind))
        /\ {r \in Opened : r \in ends} = {r \in Opened : r.kind \in ColumnKinds /\ r.ids[1] = t /\ r.ids[2] \in gone}
    BY DEF IsVersioned, Opened, ColumnKinds
  <1> HIDE DEF ends, lake, columns, old
  <1>8. Writes({r \in Opened : r \in ends}, {}, lake, next)
    BY <1>1, <1>2, <1>7, CommitWrites
  <1>9. \A l : l \in ColumnLines(t, columns) <=>
           l \in ColumnLines(t, old.columns) /\ ~(l.kind \in ColumnKinds /\ l.ids[2] \in gone)
    <2> TAKE l
    <2>1. l \in ColumnLines(t, columns) =>
            l.kind \in ColumnKinds /\ l.ids[2] \in Named(columns) /\ l \in ColumnLines(t, old.columns)
      <3>1. \A cs : l \in ColumnLines(t, cs) <=>
                \/ \E d \in Named(cs) : l = ColumnLine(t, d, cs[d])
                \/ \E d \in Named(cs) : cs[d].tag # Null /\ l = ColumnTagLine(t, d, cs[d])
        BY ColumnLineFacts
      <3>2. l \in ColumnLines(t, columns) => l.kind \in ColumnKinds /\ l.ids[2] \in Named(columns)
        BY ColumnLineFacts
      <3> QED BY <3>1, <3>2, <1>6
    <2>2. ASSUME l \in ColumnLines(t, old.columns), l.ids[2] \notin gone PROVE l \in ColumnLines(t, columns)
      <3>1. l.ids[2] \in Named(old.columns)
        BY <2>2, ColumnLineFacts
      <3> DEFINE d == l.ids[2]
      <3>2. d \in Named(columns) /\ columns[d] = old.columns[d]
        BY <3>1, <2>2, <1>6
      <3>3. \/ l = ColumnLine(t, d, old.columns[d])
            \/ old.columns[d].tag # Null /\ l = ColumnTagLine(t, d, old.columns[d])
        BY <3>1, <2>2, LinesOfColumn
      <3> HIDE DEF d
      <3> QED BY <3>2, <3>3 DEF ColumnLines
    <2>3. l \in ColumnLines(t, old.columns) => l.kind \in ColumnKinds
      BY ColumnLineFacts
    <2> QED BY <2>1, <2>2, <2>3, <1>6
  <1>10. ColumnsTo(t, columns, ColumnKinds, gone, {})
    BY <1>3, <1>5, <1>9 DEF ColumnsTo, old
  <1>11. NewRowsOK({}, next)
    BY DEF NewRowsOK
  <1> QED BY <1>7, <1>8, <1>10, <1>11, ColumnsKeep DEF lake, old

\* A key set: the spec in force ends, with its fields, and another begins.
LEMMA SetSpecKeeps ==
  ASSUME IInv, NEW kind \in Specs, NEW t, NEW fields \in Seq(Nat), SetSpec(kind, t, fields)
  PROVE  IInv'
  <1> DEFINE old == Lake.objects[t]
             object == [old EXCEPT !.spec[kind] = [id |-> next, fields |-> fields]]
             row == Row(kind, <<next, t>>, 0)
             Field(i) == Row(FieldOf(kind), <<next, i, fields[i]>>, 0)
             new == {row} \cup {Field(i) : i \in DOMAIN fields}
             ends == {r \in history : r.kind = kind /\ r.ids[2] = t}
             gone == {l \in ObjectLines(t, old) : l.kind = kind}
             lake == With(t, object)
  <1>1. ServerInv /\ next' = next + 1 /\ t \in Ids(TABLE_ROW)
    BY DEF SetSpec, IInv
  <1>2. /\ t \in DOMAIN Lake.objects /\ old.kind = TABLE_ROW /\ t \in Nat /\ t < next /\ next \in Nat
        /\ old \in TableObject
    BY <1>1, TableFacts
  <1>3. Commit(new, LAMBDA r : r \in ends, lake)
    BY DEF SetSpec, Commit
  <1>4. /\ \A r \in ends : IsVersioned(r.kind)
        /\ \A r : r \in {q \in Opened : q \in ends} <=> r \in Opened /\ r.kind = kind /\ r.ids[2] = t
    BY DEF IsVersioned, Specs, Opened
  <1> HIDE DEF ends
  <1> DEFINE dead == {r \in Opened : r \in ends}
  <1>5. Writes(dead, new, lake, next + 1)
    BY <1>1, <1>3, <1>4, CommitWrites
  <1>6. /\ object.kind = TABLE_ROW /\ object.schema = old.schema /\ object.tag = old.tag
        /\ object.columns = old.columns /\ object.spec[kind] = [id |-> next, fields |-> fields]
        /\ \A k \in Specs : k # kind => object.spec[k] = old.spec[k]
        /\ object \in TableObject
    <2>1. /\ old = [kind |-> TABLE_ROW, schema |-> old.schema, tag |-> old.tag, columns |-> old.columns, spec |-> old.spec]
          /\ old.spec \in [Specs -> [id : Int, fields : Seq(Nat)]]
      BY <1>2 DEF TableObject
    <2> DEFINE k == [id |-> next, fields |-> fields]
    <2>2. object = [kind |-> TABLE_ROW, schema |-> old.schema, tag |-> old.tag, columns |-> old.columns,
                    spec |-> [old.spec EXCEPT ![kind] = k]]
      <3> DEFINE o == old
      <3>1. object = [o EXCEPT !.spec[kind] = k]
        OBVIOUS
      <3>2. o = [kind |-> TABLE_ROW, schema |-> o.schema, tag |-> o.tag, columns |-> o.columns, spec |-> o.spec]
        BY <2>1
      <3> HIDE DEF o, k, object
      <3>3. [o EXCEPT !.spec[kind] = k] = [kind |-> TABLE_ROW, schema |-> o.schema, tag |-> o.tag, columns |-> o.columns,
                    spec |-> [o.spec EXCEPT ![kind] = k]]
        BY <3>2
      <3> QED BY <3>1, <3>3 DEF o
    <2>3. [old.spec EXCEPT ![kind] = [id |-> next, fields |-> fields]] \in [Specs -> [id : Int, fields : Seq(Nat)]]
      BY <1>2, <2>1
    <2>4. object \in TableObject
      BY <1>2, <2>2, <2>3 DEF TableObject
    <2> QED BY <2>1, <2>2, <2>4
  <1>7. /\ row.kind = kind /\ row.ids = <<next, t>> /\ row.name = 0 /\ LineOf(row) = Line(kind, <<next, t>>, 0)
        /\ row = Row(row.kind, row.ids, row.name)
        /\ \A i : /\ Field(i).kind = FieldOf(kind) /\ Field(i).ids = <<next, i, fields[i]>> /\ Field(i).name = 0
                  /\ Field(i) = Row(Field(i).kind, Field(i).ids, Field(i).name)
    BY RowFacts
  <1>8. /\ kind \in Parents /\ kind \in Kinds /\ Width(kind) = 2 /\ IsVersioned(kind) /\ kind # TAG_ROW
        /\ FieldOf(kind) \in Children /\ FieldOf(kind) \in Kinds /\ Width(FieldOf(kind)) = 3
        /\ KeyIds(FieldOf(kind)) = 2 /\ ~IsVersioned(FieldOf(kind)) /\ ParentKind(FieldOf(kind)) = kind
        /\ KeyIds(kind) = 1 /\ FieldOf(kind) # kind /\ FieldOf(kind) # INLINED_TABLE_ROW /\ FieldOf(kind) \notin Parents
        /\ kind \notin Children
    BY DEF Specs, Parents, Kinds, Children, Width, IsVersioned, FieldOf, KeyIds, ParentKind
  <1> HIDE DEF row, Field, object, old
  <1>9. \A r \in new : r = row \/ \E i \in DOMAIN fields : r = Field(i)
    OBVIOUS
  <1>10. DOMAIN fields \subseteq Nat /\ \A i \in DOMAIN fields : fields[i] \in Nat
    OBVIOUS
  <1>11. row \in new /\ (\A i \in DOMAIN fields : Field(i) \in new) /\ \A r \in new : r.ids[1] = next
    <2>1. row.ids[1] = next /\ \A i : Field(i).ids[1] = next /\ Field(i).ids[2] = i
      BY <1>7
    <2> QED BY <2>1, <1>9
  <1> HIDE DEF new
  <1>12. NewRowsOK(new, next + 1)
    <2>1. ASSUME NEW r \in new
          PROVE  /\ r = Row(r.kind, r.ids, r.name) /\ r.kind \in Kinds
                 /\ r.ids \in [1..Width(r.kind) -> Int] /\ r.name \in Int
                 /\ r.ids[1] \in 0..((next + 1) - 1)
                 /\ ~IsVersioned(r.kind) => r.name = 0
                 /\ r.kind \in Parents \cup Children => r.ids[1] = next
      <3>1. CASE r = row
        <4>1. row.ids \in [1..2 -> Int]
          BY <1>2, <1>7
        <4> QED BY <3>1, <4>1, <1>2, <1>7, <1>8
      <3>2. CASE \E i \in DOMAIN fields : r = Field(i)
        <4>1. PICK i \in DOMAIN fields : r = Field(i)
          BY <3>2
        <4>2. <<next, i, fields[i]>> \in [1..3 -> Int]
          BY <1>2, <1>10
        <4>3. r.kind = FieldOf(kind) /\ r.ids = <<next, i, fields[i]>> /\ r.name = 0 /\ r = Row(r.kind, r.ids, r.name)
          BY <4>1, <1>7
        <4>4. r.ids \in [1..Width(r.kind) -> Int] /\ r.ids[1] = next
          BY <4>2, <4>3, <1>8
        <4> QED BY <4>3, <4>4, <1>2, <1>8
      <3> QED BY <3>1, <3>2, <1>9
    <2>2. ASSUME NEW r \in new, NEW q \in new, SameThing(r, q) PROVE r = q
      <3>1. r.kind = q.kind /\ \A i \in 1..KeyIds(r.kind) : r.ids[i] = q.ids[i]
        BY <2>2 DEF SameThing
      <3>2. CASE r = row
        BY <3>1, <3>2, <1>7, <1>8, <1>9
      <3>3. CASE \E i \in DOMAIN fields : r = Field(i)
        <4>1. PICK i \in DOMAIN fields : r = Field(i)
          BY <3>3
        <4>2. PICK j \in DOMAIN fields : q = Field(j)
          BY <4>1, <3>1, <1>7, <1>8, <1>9
        <4>3. 2 \in 1..KeyIds(r.kind)
          BY <4>1, <1>7, <1>8
        <4>4. i = j
          <5>1. Field(i).ids[2] = i /\ Field(j).ids[2] = j
            BY <1>7
          <5> QED BY <3>1, <4>1, <4>2, <4>3, <5>1
        <4> QED BY <4>1, <4>2, <4>4
      <3> QED BY <3>2, <3>3, <1>9
    <2> QED BY <2>1, <2>2 DEF NewRowsOK
  <1>13. old \in Objectlike /\ object \in Objectlike
    BY <1>2, <1>6 DEF Objectlike
  <1>14. ASSUME NEW r \in Opened, LineOf(r) \in ObjectLines(t, old) PROVE r \in dead <=> LineOf(r) \in gone
    <2>1. r \in dead <=> r.kind = kind /\ r.ids[2] = t
      BY <1>4
    <2>2. r.kind = kind => r.ids[2] = t
      <3> SUFFICES ASSUME r.kind = kind PROVE r.ids[2] = t
        OBVIOUS
      <3>1. LineOf(r).kind = kind /\ LineOf(r).ids = r.ids
        BY LineOfFacts
      <3>2. LineOf(r) = Line(kind, <<old.spec[kind].id, t>>, 0)
        BY <3>1, <1>13, <1>14, SpecLine
      <3> QED BY <3>1, <3>2 DEF Line
    <2> QED BY <2>1, <2>2, <1>14, LineOfFacts
  <1>15. (\A r \in Opened \ dead, q \in new : ~SameThing(r, q)) /\ \A r \in dead : Belongs(r, {t})
    <2>1. \A q \in new : q.kind \in Kinds
      BY <1>12 DEF NewRowsOK
    <2> QED BY <2>1, <1>1, <1>4, <1>11, FreshThings DEF Belongs
  <1>16. \A l : l \in ObjectLines(t, object) <=>
           \/ l \in ObjectLines(t, old) \ gone
           \/ \E r \in new : IsVersioned(r.kind) /\ Speaks(r) /\ l = LineOf(r)
    <2> DEFINE Rest == {Line(TABLE_ROW, <<t, old.schema>>, 0)}
                         \cup (IF old.tag = Null THEN {} ELSE {Line(TAG_ROW, <<t>>, old.tag)})
                         \cup ColumnLines(t, old.columns)
               Keys(table) == {Line(k, <<table.spec[k].id, t>>, 0) : k \in {k \in Specs : table.spec[k].id # Null}}
    <2>1. /\ ObjectLines(t, old) = Rest \cup Keys(old)
          /\ ObjectLines(t, object) = Rest \cup Keys(object)
      BY <1>2, <1>6, TableLineFacts DEF OtherLines
    <2>2. \A l \in Rest : l.kind \notin Specs
      BY ColumnLineFacts DEF Line, Specs, ColumnKinds
    <2>3. \A l : l \in Keys(object) <=> (l \in Keys(old) /\ l.kind # kind) \/ l = Line(kind, <<next, t>>, 0)
      <3>1. \A k, ids, name : Line(k, ids, name).kind = k
        BY DEF Line
      <3>2. object.spec[kind].id = next /\ next # Null /\ \A k \in Specs : k # kind => object.spec[k].id = old.spec[k].id
        BY <1>2, <1>6 DEF Null
      <3>3. \A table, l : l \in Keys(table) <=> \E k \in Specs : table.spec[k].id # Null /\ l = Line(k, <<table.spec[k].id, t>>, 0)
        OBVIOUS
      <3>4. \A l : l \in Keys(object) => (l \in Keys(old) /\ l.kind # kind) \/ l = Line(kind, <<next, t>>, 0)
        <4> SUFFICES ASSUME NEW k \in Specs, object.spec[k].id # Null
                     PROVE  LET l == Line(k, <<object.spec[k].id, t>>, 0)
                            IN  (l \in Keys(old) /\ l.kind # kind) \/ l = Line(kind, <<next, t>>, 0)
          OBVIOUS
        <4>1. CASE k = kind
          BY <4>1, <3>2
        <4>2. CASE k # kind
          BY <4>2, <3>1, <3>2
        <4> QED BY <4>1, <4>2
      <3>5. \A l \in Keys(old) : l.kind # kind => l \in Keys(object)
        <4> SUFFICES ASSUME NEW k \in Specs, old.spec[k].id # Null, Line(k, <<old.spec[k].id, t>>, 0).kind # kind
                     PROVE  Line(k, <<old.spec[k].id, t>>, 0) \in Keys(object)
          OBVIOUS
        <4>1. k # kind
          BY <3>1
        <4> QED BY <4>1, <3>2
      <3>6. Line(kind, <<next, t>>, 0) \in Keys(object)
        BY <3>2
      <3> HIDE DEF Keys
      <3> QED BY <3>4, <3>5, <3>6
    <2>4. \A l : (\E r \in new : IsVersioned(r.kind) /\ Speaks(r) /\ l = LineOf(r)) <=> l = Line(kind, <<next, t>>, 0)
      <3>1. \A r \in new : IsVersioned(r.kind) => r = row
        BY <1>7, <1>8, <1>9
      <3>2. row \in new /\ IsVersioned(row.kind) /\ Speaks(row)
        BY <1>7, <1>8, <1>11 DEF Speaks
      <3>3. LineOf(row) = Line(kind, <<next, t>>, 0)
        BY <1>7
      <3> QED BY <3>1, <3>2, <3>3
    <2>5. \A l : l \in gone <=> l \in ObjectLines(t, old) /\ l.kind = kind
      OBVIOUS
    <2> HIDE DEF Rest, Keys, gone
    <2> QED BY <2>1, <2>2, <2>3, <2>4, <2>5
  <1>17. \A k \in Specs : \/ object.spec[k] = old.spec[k] \/ old.spec[k].id = Null
                          \/ Line(k, <<old.spec[k].id, t>>, 0) \in gone
    <2> TAKE k \in Specs
    <2>1. old.spec[k].id # Null => Line(k, <<old.spec[k].id, t>>, 0) \in ObjectLines(t, old)
      <3>1. \A l : (\E i \in Specs : old.spec[i].id # Null /\ l = Line(i, <<old.spec[i].id, t>>, 0)) => l \in ObjectLines(t, old)
        BY <1>2, <1>13, ObjectLineFacts
      <3> QED BY <3>1
    <2>2. Line(k, <<old.spec[k].id, t>>, 0).kind = k
      BY DEF Line
    <2> QED BY <2>1, <2>2, <1>6
  <1>18. \A p \in new : p.kind \in Parents =>
           {r \in new : IsChild(r) /\ Parent(r, p)} = ChildRows(lake, p.kind, p.ids)
    <2> TAKE p \in new
    <2> SUFFICES ASSUME p.kind \in Parents PROVE {r \in new : IsChild(r) /\ Parent(r, p)} = ChildRows(lake, p.kind, p.ids)
      OBVIOUS
    <2>1. p = row
      BY <1>7, <1>8, <1>9
    <2>2. \A r \in new : IsChild(r) /\ Parent(r, p) <=> r # row
      BY <2>1, <1>7, <1>8, <1>9, <1>11 DEF IsChild, Parent
    <2>3. {r \in new : IsChild(r) /\ Parent(r, p)} = {Field(i) : i \in DOMAIN fields}
      <3>1. \A i \in DOMAIN fields : Field(i) # row
        BY <1>7, <1>8
      <3> QED BY <2>2, <3>1, <1>9, <1>11
    <2>4. Lake \in LakeType
      BY <1>1, OpenSays
    <2>5. lake.objects[t] = object
      BY <2>4, <1>2, <1>13, WithFacts
    <2>6. p.ids[1] = next /\ p.ids[2] = t /\ p.kind = kind /\ kind # MACRO_ROW
      BY <2>1, <1>7 DEF Specs
    <2>7. lake.objects[p.ids[2]].spec[p.kind].fields = fields
      BY <2>5, <2>6, <1>6
    <2> HIDE DEF lake
    <2>8. ChildRows(lake, p.kind, p.ids) = {Row(FieldOf(kind), <<next, i, fields[i]>>, 0) : i \in DOMAIN fields}
      BY <2>6, <2>7 DEF ChildRows
    <2> QED BY <2>3, <2>8 DEF Field
  <1>19. dead \subseteq Opened /\ gone \subseteq ObjectLines(t, old) /\ old = Lake.objects[t]
    BY DEF old
  <1> HIDE DEF dead, gone
  <1>20. Changes(t, object, dead, gone, new)
    BY <1>2, <1>6, <1>13, <1>14, <1>15, <1>16, <1>17, <1>18, <1>19 DEF Changes
  <1> QED BY <1>5, <1>12, <1>20, UpdateKeeps

-----------------------------------------------------------------------------
(* The invariant *)

LEMMA InitKeeps ==
  ASSUME Init
  PROVE  IInv
  <1> DEFINE object == NewTable(1)
             lake == [schemas |-> {1}, objects |-> [o \in {2} |-> object]]
             schema == Row(SCHEMA_ROW, <<1>>, 0)
             rows == TableRows(2, 1)
             new == rows \cup {schema}
             First(r) == [r EXCEPT !.begin = 1]
  <1>1. /\ shown = <<lake>> /\ Latest = 1 /\ oldest = 1 /\ next = 3 /\ held = {} /\ asOf = 0 /\ base = 0 /\ known = {}
        /\ history = {First(r) : r \in new}
    BY DEF Init, Latest
  <1>2. /\ object \in TableObject
        /\ \A r \in rows :
              /\ r = Row(r.kind, r.ids, r.name) /\ r.kind \in {TABLE_ROW, COLUMN_ROW} /\ r.name = 0
              /\ r.ids \in [1..Width(r.kind) -> Int] /\ r.ids[1] = 2 /\ IsVersioned(r.kind) /\ Speaks(r)
        /\ \A r, q \in rows : SameThing(r, q) => r = q
        /\ \A l : l \in ObjectLines(2, object) <=> \E r \in rows : l = LineOf(r)
    BY NewTableFacts
  <1>3. /\ schema.kind = SCHEMA_ROW /\ schema.ids = <<1>> /\ schema.name = 0 /\ LineOf(schema) = Line(SCHEMA_ROW, <<1>>, 0)
        /\ schema = Row(schema.kind, schema.ids, schema.name)
    BY RowFacts
  <1>4. lake.schemas = {1} /\ DOMAIN lake.objects = {2} /\ lake.objects[2] = object
    OBVIOUS
  <1>5. lake \in LakeType /\ LakeOK(lake, 3)
    <2>1. [o \in {2} |-> object] \in [{2} -> ViewObject \cup MacroObject \cup TableObject]
      BY <1>2
    <2>2. {2} \in SUBSET Nat /\ {1} \in SUBSET Nat
      OBVIOUS
    <2>3. lake \in LakeType
      BY <2>1, <2>2 DEF LakeType
    <2> QED BY <2>3, <1>4 DEF LakeOK
  <1> HIDE DEF object, lake, schema, rows
  <1>6. ASSUME NEW r \in new
        PROVE  /\ r = Row(r.kind, r.ids, r.name) /\ r.kind \in Kinds \ (Parents \cup Children \cup {INLINED_TABLE_ROW})
               /\ r.ids \in [1..Width(r.kind) -> Int]
               /\ r.ids[1] \in 1..2 /\ r.name = 0 /\ IsVersioned(r.kind) /\ r.kind # TAG_ROW
    <2>1. {SCHEMA_ROW, TABLE_ROW, COLUMN_ROW} \subseteq Kinds \ (Parents \cup Children \cup {INLINED_TABLE_ROW, TAG_ROW})
      BY DEF Kinds, Parents, Children
    <2>2. CASE r \in rows
      BY <2>1, <2>2, <1>2
    <2>3. CASE r = schema
      <3>1. Width(SCHEMA_ROW) = 1 /\ IsVersioned(SCHEMA_ROW)
        BY DEF Width, IsVersioned
      <3>2. schema.ids \in [1..1 -> Int] /\ schema.ids[1] = 1
        BY <1>3
      <3> QED BY <2>1, <2>3, <3>1, <3>2, <1>3
    <2> QED BY <2>2, <2>3
  <1>7. ASSUME NEW r \in new, NEW q \in new, SameThing(r, q) PROVE r = q
    <2>1. r.kind = q.kind
      BY <1>7 DEF SameThing
    <2> QED BY <2>1, <1>2, <1>3, <1>7
  <1>8. ASSUME NEW l
        PROVE  l \in Lines(lake) <=> \E r \in new : l = LineOf(r)
    <2>1. l \in Lines(lake) <=> l = Line(SCHEMA_ROW, <<1>>, 0) \/ l \in ObjectLines(2, object)
      BY <1>4, <1>5, LinesFacts
    <2> QED BY <2>1, <1>2, <1>3
  <1> HIDE DEF new
  <1>9. ASSUME NEW r \in new
        PROVE  /\ First(r) = [kind |-> r.kind, ids |-> r.ids, name |-> r.name, begin |-> 1, end |-> Open]
               /\ First(r).kind = r.kind /\ First(r).ids = r.ids /\ First(r).name = r.name
               /\ First(r).begin = 1 /\ First(r).end = Open
               /\ LineOf(First(r)) = LineOf(r)
    <2>1. r = [kind |-> r.kind, ids |-> r.ids, name |-> r.name, begin |-> 0, end |-> Open]
      BY <1>6 DEF Row
    <2>2. First(r) = [kind |-> r.kind, ids |-> r.ids, name |-> r.name, begin |-> 1, end |-> Open]
      BY <2>1
    <2> QED BY <2>2 DEF LineOf
  <1> HIDE DEF First
  <1>10. ASSUME NEW x \in history
         PROVE  /\ RowOK(x, 3, 1) /\ x.begin = 1 /\ x.end = Open /\ IsVersioned(x.kind)
                /\ x.kind \notin Parents \cup Children \cup {INLINED_TABLE_ROW} /\ Speaks(x)
    <2>1. PICK r \in new : x = First(r)
      BY <1>1
    <2>2. r.kind \in Kinds \ (Parents \cup Children \cup {INLINED_TABLE_ROW}) /\ IsVersioned(r.kind) /\ r.kind # TAG_ROW
          /\ r.ids \in [1..Width(r.kind) -> Int] /\ r.ids[1] \in 1..2 /\ r.name = 0
      BY <1>6
    <2>3. /\ x = [kind |-> r.kind, ids |-> r.ids, name |-> r.name, begin |-> 1, end |-> Open]
          /\ x.kind = r.kind /\ x.ids = r.ids /\ x.name = r.name /\ x.begin = 1 /\ x.end = Open
      BY <2>1, <1>9
    <2> QED BY <2>2, <2>3 DEF RowOK, Open, Speaks
  <1>11. ASSUME NEW x \in history, NEW y \in history, SameThing(x, y) PROVE x = y
    <2>1. PICK r \in new : x = First(r)
      BY <1>1
    <2>2. PICK q \in new : y = First(q)
      BY <1>1
    <2>3. SameThing(r, q)
      BY <2>1, <2>2, <1>9, <1>11 DEF SameThing
    <2> QED BY <2>1, <2>2, <2>3, <1>7
  <1>12. \A x, y \in history : Key(x) = Key(y) => x = y
    <2> SUFFICES ASSUME NEW x \in history, NEW y \in history, Key(x) = Key(y) PROVE x = y
      OBVIOUS
    <2>1. x.kind \in Kinds
      BY <1>10 DEF RowOK
    <2>2. SameThing(x, y)
      BY <2>1, KeyFacts DEF SameThing
    <2> QED BY <2>2, <1>11
  <1>13. VersionsAt(history, 1) = history
    BY <1>10 DEF VersionsAt, VisibleAt, Open
  <1>14. Tells(history, 1, lake)
    <2>1. \A l : l \in Lines(lake) <=> \E x \in history : l = LineOf(x)
      BY <1>1, <1>8, <1>9
    <2>2. {LineOf(r) : r \in {q \in history : Speaks(q)}} = Lines(lake)
      BY <2>1, <1>10
    <2> QED BY <2>2, <1>10, <1>11, <1>13 DEF Tells
  <1>15. ServerInv
    <2>1. shown \in Seq(LakeType) /\ \A s \in 1..Latest : shown[s] = lake
      BY <1>1, <1>5
    <2>2. Latest \in 1..MaxSnapshot
      BY <1>1, BoundTypes
    <2>3. \A r \in history : RowOK(r, next, Latest) /\ (IsVersioned(r.kind) => r.end > oldest)
      BY <1>1, <1>10 DEF Open
    <2>4. \A s \in oldest..Latest : s = 1 /\ Tells(history, s, shown[s])
      BY <2>1, <1>1, <1>14
    <2> QED BY <2>1, <2>2, <2>3, <2>4, <1>1, <1>5, <1>10, <1>12 DEF ServerInv
  <1>16. MirrorInv
    <2>1. HeldOpen = {} /\ Told = {}
      BY <1>1, <1>10 DEF HeldOpen, Told
    <2> QED BY <2>1, <1>1, <1>10 DEF MirrorInv
  <1> QED BY <1>15, <1>16 DEF IInv

LEMMA StutterKeeps ==
  ASSUME IInv, UNCHANGED vars
  PROVE  IInv'
  <1>1. UNCHANGED <<history, shown, oldest, next, held, asOf, base, known>>
    BY DEF vars, server, mirror
  <1> QED BY <1>1 DEF IInv, ServerInv, MirrorInv, Latest, HeldOpen, Told

LEMMA NextKeeps ==
  ASSUME IInv, [Next]_vars
  PROVE  IInv'
  <1>1. CASE CreateSchema
    BY <1>1, CreateSchemaKeeps
  <1>2. CASE \E s \in Objects : DropSchema(s) \/ CreateTable(s) \/ CreateView(s) \/ CreateMacro(s)
    BY <1>2, DropSchemaKeeps, CreateTableKeeps, CreateViewKeeps, CreateMacroKeeps
  <1>3. CASE \E o \in Objects : Drop(o) \/ Insert(o)
    BY <1>3, DropKeeps, InsertKeeps
  <1>4. CASE \E o \in Objects, value \in {Null, 1} : Comment(o, value)
    <2>1. {Null, 1} \subseteq Int
      BY DEF Null
    <2> QED BY <2>1, <1>4, CommentKeeps
  <1>5. CASE \E t \in Objects, c \in Columns : CommentColumn(t, c) \/ RenameColumn(t, c) \/ DropColumn(t, c)
    BY <1>5, CommentColumnKeeps, RenameColumnKeeps, DropColumnKeeps
  <1>6. CASE \E t \in Objects, c \in Columns \cup {Null} : AddColumn(t, c)
    BY <1>6, AddColumnKeeps
  <1>7. CASE \E k \in Specs, t \in Objects, f \in Fields : SetSpec(k, t, f)
    BY <1>7, SetSpecKeeps, ColumnTypes
  <1>8. CASE \E r \in Inlined : Unregister(r)
    BY <1>8, UnregisterKeeps
  <1>9. CASE Expire
    BY <1>9, ExpireKeeps
  <1>10. CASE Load
    BY <1>10, LoadKeeps
  <1>11. CASE UNCHANGED vars
    BY <1>11, StutterKeeps
  <1> QED BY <1>1, <1>2, <1>3, <1>4, <1>5, <1>6, <1>7, <1>8, <1>9, <1>10, <1>11 DEF Next

LEMMA Inductive == Spec => []IInv
  <1>1. Init => IInv
    BY InitKeeps
  <1>2. IInv /\ [Next]_vars => IInv'
    BY NextKeeps
  <1> QED BY <1>1, <1>2, PTL DEF Spec

-----------------------------------------------------------------------------
(* The theorems *)

\* Rows are of the kinds AssembleCatalog reads, with a sequence of ids, and none begins after the
\* latest snapshot; a mirror is caught up to a snapshot there is, and answers for none older than
\* its base.
THEOREM TypeCorrect == Spec => []TypeOK
  <1>1. IInv => TypeOK
    <2> SUFFICES ASSUME IInv PROVE TypeOK
      OBVIOUS
    <2>1. ServerInv /\ MirrorInv
      BY DEF IInv
    <2>2. /\ Latest \in 1..MaxSnapshot /\ oldest \in 1..Latest /\ asOf \in 0..Latest /\ base \in 0..asOf
          /\ next \in Nat /\ \A r \in known : r.kind = INLINED_TABLE_ROW
      BY <2>1 DEF ServerInv, MirrorInv
    <2>3. \A r \in history \cup held : RowOK(r, next, Latest)
      BY <2>1 DEF ServerInv, MirrorInv
    <2>4. ASSUME NEW r \in history \cup held PROVE r.kind \in 1..15 /\ r.ids \in Seq(Int) /\ r.begin <= Latest
      <3>1. r.kind \in Kinds /\ r.ids \in [1..Width(r.kind) -> Int] /\ Latest \in Nat
            /\ (r.begin \in 1..Latest \/ r.begin = 0)
        BY <2>2, <2>3 DEF RowOK
      <3>2. r.kind \in 1..15
        BY <3>1 DEF Kinds, Parents, Children
      <3>3. Width(r.kind) \in Nat
        BY <3>1, KindFacts
      <3>4. r.ids \in Seq(Int)
        BY <3>1, <3>3
      <3> QED BY <3>1, <3>2, <3>4
    <2> QED BY <2>2, <2>4 DEF TypeOK
  <1> QED BY <1>1, Inductive, PTL

\* The rows the server keeps tell, for every snapshot an expiry has left, the lake as the commit of
\* that snapshot left it: what AssembleCatalog reads is every schema, object, column, comment and
\* key of it, once, with the children of its macros and keys, and nothing else.
ServerTells == \A s \in oldest..Latest : Tells(history, s, shown[s])

\* Commits and expiries keep it so, whatever they are and in whatever order they come.
THEOREM ServerTellsTheLake == Spec => []ServerTells
  <1>1. IInv => ServerTells
    BY DEF IInv, ServerInv, ServerTells
  <1> QED BY <1>1, Inductive, PTL

\* So do the rows a mirror holds, at every snapshot it answers for, in however many reads of changes
\* they came (Merge and Prune), and its inlined data tables are those of its fingerprint.
MirrorTells ==
  /\ asOf # 0 => \A s \in base..asOf : Tells(held, s, shown[s])
  /\ {r \in held : r.kind = INLINED_TABLE_ROW} = known

\* Loads keep it so, whenever they come between commits and expiries.
THEOREM MirrorTellsTheLake == Spec => []MirrorTells
  <1>1. IInv => MirrorTells
    BY DEF IInv, MirrorInv, MirrorTells
  <1> QED BY <1>1, Inductive, PTL
=============================================================================
