--------------------------- MODULE CatalogAssembly ---------------------------
(***************************************************************************)
(* The catalog of a lake at a snapshot, from the rows of its history       *)
(* (AssembleCatalog in src/src/mssql_catalog_load.cpp), through the mirror *)
(* that holds those rows or straight from the server.  CatalogMirror       *)
(* checks that concurrent loads leave the right rows in a mirror; here a   *)
(* load is one step, and the rows are those of the fourteen kinds of the   *)
(* source, with the keys a mirror tells them apart by, in an order no      *)
(* statement promises.                                                     *)
(*                                                                         *)
(* "shown" is the lake itself, as each commit left it, kept apart from the *)
(* rows.  Names, types, paths and SQL are one value per row.  The view's   *)
(* column tags are left out, and a schema has no parent.                   *)
(***************************************************************************)
EXTENDS Integers, Sequences, FiniteSets, SequencesExt

CONSTANTS MaxSnapshot,  \* bound: snapshots of the lake
          Columns,      \* bound: the columns of a table that commits touch
          MaxOldest,    \* bound: the oldest snapshot an expiry leaves
          Fields        \* the partition and sort keys a table may be given

Null == -1
Open == 99           \* no end_snapshot

ASSUME BoundTypes == MaxSnapshot \in 1..(Open - 1) /\ MaxOldest \in Nat
ASSUME ColumnTypes == Columns \subseteq Nat /\ Fields \subseteq Seq(Nat)

SCHEMA_ROW == 1
TABLE_ROW == 2
COLUMN_ROW == 3
TAG_ROW == 4
COLUMN_TAG_ROW == 5
INLINED_TABLE_ROW == 6
VIEW_ROW == 7
MACRO_ROW == 9
MACRO_IMPL_ROW == 10
MACRO_PARAMETER_ROW == 11
PARTITION_ROW == 12
PARTITION_COLUMN_ROW == 13
SORT_ROW == 14
SORT_EXPRESSION_ROW == 15

Specs == {PARTITION_ROW, SORT_ROW}
FieldOf(kind) == IF kind = PARTITION_ROW THEN PARTITION_COLUMN_ROW ELSE SORT_EXPRESSION_ROW

IsVersioned(kind) == kind \notin {INLINED_TABLE_ROW, MACRO_IMPL_ROW, MACRO_PARAMETER_ROW,
                                  PARTITION_COLUMN_ROW, SORT_EXPRESSION_ROW}

\* The kinds whose rows are children: those of the row with their first id.
ParentKind(kind) == CASE kind \in {MACRO_IMPL_ROW, MACRO_PARAMETER_ROW} -> MACRO_ROW
                      [] kind = PARTITION_COLUMN_ROW -> PARTITION_ROW
                      [] kind = SORT_EXPRESSION_ROW -> SORT_ROW

Row(kind, ids, name) == [kind |-> kind, ids |-> ids, name |-> name, begin |-> 0, end |-> Open]

VARIABLES
  \* the server
  history,   \* every row of the catalog's tables
  shown,     \* shown[s]: the lake at snapshot s
  oldest,    \* the oldest snapshot left
  next,      \* next_catalog_id
  \* the mirror of one attach
  held,      \* its rows
  asOf,      \* the snapshot they are caught up to, 0 before the first load
  base,      \* the oldest snapshot they answer for
  known      \* the inlined data tables its fingerprint stands for

server == <<history, shown, oldest, next>>
mirror == <<held, asOf, base, known>>
vars == <<server, mirror>>

Latest == Len(shown)
Lake == shown[Latest]

-----------------------------------------------------------------------------
(* Commits of DuckLake: what a lake becomes, and the rows that say so. *)

\* A lake is its schemas, and its tables, views and macros by id.
Ids(kind) == {id \in DOMAIN Lake.objects : Lake.objects[id].kind = kind}
With(id, object) == [Lake EXCEPT !.objects =
                       [i \in DOMAIN @ \cup {id} |-> IF i = id THEN object ELSE @[i]]]
Without(ids) == [o \in DOMAIN Lake.objects \ ids |-> Lake.objects[o]]

\* One commit: rows that begin, open rows that end, and the lake it leaves.
Commit(new, Ends(_), lake) ==
  /\ Latest < MaxSnapshot
  /\ LET s == Latest + 1
     IN  history' = {IF r.end = Open /\ Ends(r) THEN [r EXCEPT !.end = s] ELSE r : r \in history}
                      \cup {IF IsVersioned(r.kind) THEN [r EXCEPT !.begin = s] ELSE r : r \in new}
  /\ shown' = Append(shown, lake)
  /\ UNCHANGED <<oldest, mirror>>

NoRow(r) == FALSE

\* The rows that make an object of the lake: a table's versions, tags and specs go with it.
Belongs(r, ids) ==
  \/ r.kind \in {TABLE_ROW, VIEW_ROW, MACRO_ROW, TAG_ROW, COLUMN_ROW, COLUMN_TAG_ROW} /\ r.ids[1] \in ids
  \/ r.kind \in Specs /\ r.ids[2] \in ids

CreateSchema ==
  /\ Commit({Row(SCHEMA_ROW, <<next>>, 0)}, NoRow, [Lake EXCEPT !.schemas = @ \cup {next}])
  /\ next' = next + 1

\* DROP SCHEMA ... CASCADE
DropSchema(s) ==
  /\ s \in Lake.schemas
  /\ LET gone == {o \in DOMAIN Lake.objects : Lake.objects[o].schema = s}
     IN  Commit({}, LAMBDA r : Belongs(r, gone) \/ (r.kind = SCHEMA_ROW /\ r.ids[1] = s),
                [schemas |-> Lake.schemas \ {s}, objects |-> Without(gone)])
  /\ UNCHANGED next

\* A table of four columns: two plain ones, and under the second a struct of a struct.
FirstColumns == <<[parent |-> Null, name |-> 0, tag |-> Null], [parent |-> Null, name |-> 0, tag |-> Null],
                  [parent |-> 2, name |-> 0, tag |-> Null], [parent |-> 3, name |-> 0, tag |-> Null]>>
NoSpec == [id |-> Null, fields |-> <<>>]
ColumnRow(t, c, column) == Row(COLUMN_ROW, <<t, c, c, column.parent>>, column.name)

NewTable(s) == [kind |-> TABLE_ROW, schema |-> s, tag |-> Null, columns |-> FirstColumns,
                spec |-> [k \in Specs |-> NoSpec]]
TableRows(t, s) == {Row(TABLE_ROW, <<t, s>>, 0)} \cup {ColumnRow(t, c, FirstColumns[c]) : c \in 1..4}

CreateTable(s) ==
  /\ s \in Lake.schemas
  /\ Commit(TableRows(next, s), NoRow, With(next, NewTable(s)))
  /\ next' = next + 1

CreateView(s) ==
  /\ s \in Lake.schemas
  /\ Commit({Row(VIEW_ROW, <<next, s>>, 0)}, NoRow, With(next, [kind |-> VIEW_ROW, schema |-> s, tag |-> Null]))
  /\ next' = next + 1

\* A macro of two implementations, the second of which takes two parameters.
CreateMacro(s) ==
  /\ s \in Lake.schemas
  /\ Commit({Row(MACRO_ROW, <<next, s>>, 0)} \cup {Row(MACRO_IMPL_ROW, <<next, i>>, 0) : i \in 1..2}
              \cup {Row(MACRO_PARAMETER_ROW, <<next, 2, p>>, 0) : p \in 1..2}, NoRow,
            With(next, [kind |-> MACRO_ROW, schema |-> s]))
  /\ next' = next + 1

Drop(o) ==
  /\ o \in DOMAIN Lake.objects
  /\ Commit({}, LAMBDA r : Belongs(r, {o}), [Lake EXCEPT !.objects = Without({o})])
  /\ UNCHANGED next

\* COMMENT ON: a new version of the tag, without a value when the comment is taken away.
Comment(o, value) ==
  /\ o \in Ids(TABLE_ROW) \cup Ids(VIEW_ROW)
  /\ Commit({Row(TAG_ROW, <<o>>, value)}, LAMBDA r : r.kind = TAG_ROW /\ r.ids[1] = o,
            With(o, [Lake.objects[o] EXCEPT !.tag = value]))
  /\ UNCHANGED next

Live(table) == {c \in DOMAIN table.columns : table.columns[c].name # Null}
WithColumn(t, c, column) ==
  With(t, [Lake.objects[t] EXCEPT !.columns = [i \in DOMAIN @ \cup {c} |-> IF i = c THEN column ELSE @[i]]])

CommentColumn(t, c) ==
  /\ t \in Ids(TABLE_ROW) /\ c \in Live(Lake.objects[t])
  /\ Commit({Row(COLUMN_TAG_ROW, <<t, c>>, 1)},
            LAMBDA r : r.kind = COLUMN_TAG_ROW /\ r.ids[1] = t /\ r.ids[2] = c,
            WithColumn(t, c, [Lake.objects[t].columns[c] EXCEPT !.tag = 1]))
  /\ UNCHANGED next

\* At the top or in a struct.  A column id is never used twice in a table.
AddColumn(t, parent) ==
  /\ t \in Ids(TABLE_ROW)
  /\ \E c \in Live(Lake.objects[t]) : parent = Lake.objects[t].columns[c].parent
  /\ LET c == Cardinality(DOMAIN Lake.objects[t].columns) + 1
         column == [parent |-> parent, name |-> 0, tag |-> Null]
     IN  Commit({ColumnRow(t, c, column)}, NoRow, WithColumn(t, c, column))
  /\ UNCHANGED next

\* Its next version begins where the last one ends.
RenameColumn(t, c) ==
  /\ t \in Ids(TABLE_ROW) /\ c \in Live(Lake.objects[t])
  /\ LET column == [Lake.objects[t].columns[c] EXCEPT !.name = @ + 1]
     IN  Commit({ColumnRow(t, c, column)}, LAMBDA r : r.kind = COLUMN_ROW /\ r.ids[1] = t /\ r.ids[2] = c,
                WithColumn(t, c, column))
  /\ UNCHANGED next

\* With all that hangs under it.  Not the last of its struct or table, nor one a key needs.
DropColumn(t, c) ==
  /\ t \in Ids(TABLE_ROW) /\ c \in Live(Lake.objects[t])
  /\ LET columns == Lake.objects[t].columns
         Up(d) == IF d = Null THEN Null ELSE columns[d].parent
         gone == {d \in Live(Lake.objects[t]) : c \in {d, Up(d), Up(Up(d))}}
     IN  /\ \E d \in Live(Lake.objects[t]) \ {c} : Up(d) = Up(c)
         /\ \A k \in Specs : gone \cap ToSet(Lake.objects[t].spec[k].fields) = {}
         /\ Commit({}, LAMBDA r : r.kind \in {COLUMN_ROW, COLUMN_TAG_ROW} /\ r.ids[1] = t /\ r.ids[2] \in gone,
                   With(t, [Lake.objects[t] EXCEPT !.columns =
                              [d \in DOMAIN @ |-> IF d \in gone THEN [@[d] EXCEPT !.name = Null] ELSE @[d]]]))
  /\ UNCHANGED next

\* Another partition or sort key: a spec of its own, whose fields are its children.
SetSpec(kind, t, fields) ==
  /\ t \in Ids(TABLE_ROW) /\ ToSet(fields) \subseteq Live(Lake.objects[t])
  /\ Commit({Row(kind, <<next, t>>, 0)}
              \cup {Row(FieldOf(kind), <<next, i, fields[i]>>, 0) : i \in DOMAIN fields},
            LAMBDA r : r.kind = kind /\ r.ids[2] = t,
            With(t, [Lake.objects[t] EXCEPT !.spec[kind] = [id |-> next, fields |-> fields]]))
  /\ next' = next + 1

\* A small INSERT: the first under a version of the table's schema registers an inlined data table.
Inlined == {r \in history : r.kind = INLINED_TABLE_ROW}
SchemaVersion ==
  CHOOSE s \in 1..Latest : (\A q \in s..Latest : shown[q] = Lake) /\ (s > 1 => shown[s - 1] # Lake)

Insert(t) ==
  /\ t \in Ids(TABLE_ROW)
  /\ Commit({Row(INLINED_TABLE_ROW, <<t, SchemaVersion>>, 0)}, NoRow, Lake)
  /\ UNCHANGED next

\* One that a flush has emptied is dropped, without a snapshot.
Unregister(r) ==
  /\ r \in Inlined
  /\ history' = history \ {r}
  /\ UNCHANGED <<shown, oldest, next, mirror>>

Parent(r, p) == p.kind = ParentKind(r.kind) /\ p.ids[1] = r.ids[1]
IsChild(r) == ~IsVersioned(r.kind) /\ r.kind # INLINED_TABLE_ROW

\* ducklake_expire_snapshots: the rows no snapshot left can see, and their children.  What an expiry
\* takes before a mirror has read its end is the subject of CatalogMirror, not of this module.
Expire ==
  /\ oldest < Latest /\ oldest < MaxOldest
  /\ asOf = 0 \/ oldest < asOf
  /\ oldest' = oldest + 1
  /\ LET dead == {r \in history : IsVersioned(r.kind) /\ r.end <= oldest + 1}
     IN  history' = {r \in history \ dead : ~(IsChild(r) /\ \E p \in dead : Parent(r, p))}
  /\ UNCHANGED <<shown, next, mirror>>

-----------------------------------------------------------------------------
(* AssembleCatalog *)

VisibleAt(r, s) == IsVersioned(r.kind) => r.begin <= s /\ s < r.end

\* A sorts before B: numbers one after another, NULL first.
Before(a, b) == \E i \in DOMAIN a : (\A j \in 1..(i - 1) : a[j] = b[j]) /\ a[i] < b[i]

\* std::stable_sort by a key
Sorted(rows, KeyOf(_)) ==
  LET less(i, j) == \/ Before(KeyOf(rows[i]), KeyOf(rows[j]))
                    \/ KeyOf(rows[i]) = KeyOf(rows[j]) /\ i < j
      order == SortSeq([i \in DOMAIN rows |-> i], less)
  IN  [i \in DOMAIN rows |-> rows[order[i]]]

ById(r) == <<r.ids[1]>>
BySecond(r) == <<r.ids[2]>>
ByThird(r) == <<r.ids[3]>>
ByTableThenId(r) == <<r.ids[2], r.ids[1]>>
ByParentThenOrder(r) == <<r.ids[4], r.ids[3]>>

Of(rows, kind, id) == SelectSeq(rows, LAMBDA r : r.kind = kind /\ r.ids[1] = id)
OfKind(rows, kind) == SelectSeq(rows, LAMBDA r : r.kind = kind)
Values(rows) == {r.name : r \in {q \in ToSet(rows) : q.name # Null}}

\* Its columns in the base's order, parents first.
ColumnsOf(rows, t) == Sorted(Of(rows, COLUMN_ROW, t), ByParentThenOrder)

\* Mutant: only among those at the top level.
AddToTopLevel(columns, i) ==
  columns[i].ids[4] = Null
    \/ \E j \in 1..(i - 1) : columns[j].ids[2] = columns[i].ids[4] /\ columns[j].ids[4] = Null

\* AddChildColumn finds the parent of the i-th among the columns before it, wherever they sit.
AddChildColumn(columns, i) ==
  columns[i].ids[4] = Null \/ \E j \in 1..(i - 1) : columns[j].ids[2] = columns[i].ids[4]

\* The three refusals: no schema, no columns, no parent of a column.
Refused(rows) ==
  \E i \in DOMAIN rows :
    /\ rows[i].kind = TABLE_ROW
    /\ LET columns == ColumnsOf(rows, rows[i].ids[1])
       IN  \/ Of(rows, SCHEMA_ROW, rows[i].ids[2]) = <<>>
           \/ columns = <<>>
           \/ \E c \in DOMAIN columns : ~AddChildColumn(columns, c)

\* Its columns as a tree: what hangs under each, in order.
TableInfo(rows, row) ==
  LET t == row.ids[1]
      columns == ColumnsOf(rows, t)
      inlined == Sorted(Of(rows, INLINED_TABLE_ROW, t), BySecond)
      TagsOf(c) == Values(SelectSeq(rows, LAMBDA r : r.kind = COLUMN_TAG_ROW /\ r.ids[1] = t /\ r.ids[2] = c))
      Under(p) == SelectSeq(columns, LAMBDA c : c.ids[4] = p)
  IN  [id |-> t, schema |-> row.ids[2], tags |-> Values(Of(rows, TAG_ROW, t)),
       columns |-> [p \in {Null} \cup {c.ids[2] : c \in ToSet(columns)} |->
                      [i \in DOMAIN Under(p) |-> [id |-> Under(p)[i].ids[2], name |-> Under(p)[i].name,
                                                  tags |-> TagsOf(Under(p)[i].ids[2])]]],
       inlined |-> [i \in DOMAIN inlined |-> inlined[i].ids[2]]]

ViewInfo(rows, row) ==
  [id |-> row.ids[1], schema |-> row.ids[2], tags |-> Values(Of(rows, TAG_ROW, row.ids[1]))]

\* Its implementations in order, each the number of its parameters, in order.
MacroInfo(rows, row) ==
  LET impls == Sorted(Of(rows, MACRO_IMPL_ROW, row.ids[1]), BySecond)
      params == Sorted(Of(rows, MACRO_PARAMETER_ROW, row.ids[1]), ByThird)
      ParamsOf(i) == SelectSeq(params, LAMBDA p : p.ids[2] = impls[i].ids[2])
  IN  [id |-> row.ids[1], schema |-> row.ids[2],
       impls |-> [i \in DOMAIN impls |-> [p \in DOMAIN ParamsOf(i) |-> ParamsOf(i)[p].ids[3]]]]

\* Partitions and sorts: a spec without fields is not loaded, and two of one table would be one
\* entry, under the id of the first.
SpecInfo(rows, kind) ==
  LET FieldsOf(r) == Sorted(Of(rows, FieldOf(kind), r.ids[1]), BySecond)
      specs == SelectSeq(Sorted(OfKind(rows, kind), ByTableThenId), LAMBDA r : FieldsOf(r) # <<>>)
      first == SelectSeq([i \in DOMAIN specs |-> i],
                         LAMBDA i : i = 1 \/ specs[i - 1].ids[2] # specs[i].ids[2])
      Mine(r) == SelectSeq(specs, LAMBDA q : q.ids[2] = r.ids[2])
      All(r) == FlattenSeq([i \in DOMAIN Mine(r) |-> FieldsOf(Mine(r)[i])])
      Entry(r) == [table |-> r.ids[2], id |-> r.ids[1],
                   fields |-> [i \in DOMAIN All(r) |-> All(r)[i].ids[3]]]
  IN  [i \in DOMAIN first |-> Entry(specs[first[i]])]

AssembleCatalog(all, s) ==
  LET rows == SelectSeq(all, LAMBDA r : VisibleAt(r, s))
      Each(kind, Info(_, _)) ==
        LET list == Sorted(OfKind(rows, kind), ById) IN [i \in DOMAIN list |-> Info(rows, list[i])]
  IN  IF Refused(rows) THEN [refused |-> TRUE]
      ELSE [refused |-> FALSE,
            schemas |-> Each(SCHEMA_ROW, LAMBDA q, r : r.ids[1]),
            tables |-> Each(TABLE_ROW, TableInfo),
            views |-> Each(VIEW_ROW, ViewInfo),
            macros |-> Each(MACRO_ROW, MacroInfo),
            specs |-> [k \in Specs |-> SpecInfo(rows, k)]]

-----------------------------------------------------------------------------
(* The mirror: what it reads, and how it merges. *)

\* Mutant: a column is told apart by its table.
KeyIdsOfTable(kind) == CASE kind \in {INLINED_TABLE_ROW, MACRO_IMPL_ROW, PARTITION_COLUMN_ROW,
                                      SORT_EXPRESSION_ROW} -> 2
                         [] kind = MACRO_PARAMETER_ROW -> 3
                         [] OTHER -> 1

\* What makes a row this row: its key columns and, for a version, the snapshot it began at.
KeyIds(kind) == CASE kind \in {COLUMN_ROW, COLUMN_TAG_ROW, INLINED_TABLE_ROW, MACRO_IMPL_ROW,
                               PARTITION_COLUMN_ROW, SORT_EXPRESSION_ROW} -> 2
                  [] kind = MACRO_PARAMETER_ROW -> 3
                  [] OTHER -> 1

Key(r) == <<r.kind, [i \in 1..KeyIds(r.kind) |-> r.ids[i]], IF IsVersioned(r.kind) THEN r.begin ELSE Null>>

\* A statement promises no order of its rows: the model takes them one way, the other, and the way
\* loads bring them, older versions first but each load's the other way.
ByRow(r) == <<r.kind, r.begin>> \o r.ids
InOrder(rows) == Sorted(FoldSet(LAMBDA r, list : Append(list, r), <<>>, rows), ByRow)
ByBegin(r) == <<r.begin>>
Orders(rows) == LET list == InOrder(rows) IN {list, Reverse(list), Sorted(Reverse(list), ByBegin)}

\* The rows of one read: versions the snapshot condition wants, and the children of their parents.
Branches(Wanted(_), WantedParent(_), inlined) ==
  {r \in history :
     \/ IsVersioned(r.kind) /\ Wanted(r)
     \/ IsChild(r) /\ (\E p \in history : Parent(r, p) /\ WantedParent(p))}
    \cup inlined

AtSnapshot(s) ==
  LET Wanted(r) == VisibleAt(r, s) IN Branches(Wanted, Wanted, Inlined)
ReadHistory ==
  LET Wanted(r) == r.end = Open \/ r.end > oldest IN Branches(Wanted, Wanted, Inlined)
ReadChanges ==
  LET Wanted(r) == r.begin > asOf \/ (r.end # Open /\ r.end > asOf)
      WantedParent(r) == r.begin > asOf
  IN  Branches(Wanted, WantedParent, IF Inlined # known THEN Inlined ELSE {})

\* A new row is added; one that is held open takes the end that was read.  Of rows read under one
\* key, which no two are, any would do.
WithKey(read, key) == CHOOSE r \in read : Key(r) = key
Kept(rows) == {r \in rows : Inlined = known \/ r.kind # INLINED_TABLE_ROW}
Merged(rows, read) ==
  LET kept == Kept(rows)
      Keys(some) == {Key(r) : r \in some}
  IN  {IF r.end = Open /\ Key(r) \in Keys(read) THEN [r EXCEPT !.end = WithKey(read, Key(r)).end] ELSE r : r \in kept}
        \cup {WithKey(read, key) : key \in Keys(read) \ Keys(kept)}
Pruned(rows) == {r \in rows : IsVersioned(r.kind) => (r.end = Open \/ r.end > oldest)}

\* Mutant: it answers from its newest snapshot on.
LoadSwapped ==
  /\ LET rows == Merged(held, IF asOf = 0 THEN ReadHistory ELSE ReadChanges)
     IN  held' = IF asOf # 0 /\ oldest > base THEN Pruned(rows) ELSE rows
  /\ asOf' = oldest /\ base' = Latest /\ known' = Inlined
  /\ UNCHANGED server

Load ==
  /\ LET rows == Merged(held, IF asOf = 0 THEN ReadHistory ELSE ReadChanges)
     IN  held' = IF asOf # 0 /\ oldest > base THEN Pruned(rows) ELSE rows
  /\ asOf' = Latest /\ base' = oldest /\ known' = Inlined
  /\ UNCHANGED server

-----------------------------------------------------------------------------

\* A lake whose first commit made a table.
Init ==
  /\ history = {[r EXCEPT !.begin = 1] : r \in TableRows(2, 1) \cup {Row(SCHEMA_ROW, <<1>>, 0)}}
  /\ shown = <<[schemas |-> {1}, objects |-> [o \in {2} |-> NewTable(1)]]>>
  /\ oldest = 1 /\ next = 3
  /\ held = {} /\ asOf = 0 /\ base = 0 /\ known = {}

Objects == 1..next

Next ==
  \/ CreateSchema
  \/ \E s \in Objects : DropSchema(s) \/ CreateTable(s) \/ CreateView(s) \/ CreateMacro(s)
  \/ \E o \in Objects : Drop(o) \/ Insert(o)
  \/ \E o \in Objects, value \in {Null, 1} : Comment(o, value)
  \/ \E t \in Objects, c \in Columns : CommentColumn(t, c) \/ RenameColumn(t, c) \/ DropColumn(t, c)
  \/ \E t \in Objects, c \in Columns \cup {Null} : AddColumn(t, c)
  \/ \E k \in Specs, t \in Objects, f \in Fields : SetSpec(k, t, f)
  \/ \E r \in Inlined : Unregister(r)
  \/ Expire \/ Load

Spec == Init /\ [][Next]_vars

-----------------------------------------------------------------------------
(* Properties *)

\* The catalog of a lake, written down without its rows; inlined are the tables' inlined data tables.
Ascending(ids) == InOrder({Row(0, <<i>>, 0) : i \in ids})
ListOf(ids, Info(_)) == [i \in 1..Cardinality(ids) |-> Info(Ascending(ids)[i].ids[1])]

CatalogOf(lake, inlined) ==
  LET All(kind) == {o \in DOMAIN lake.objects : lake.objects[o].kind = kind}
      Tags(tag) == {tag} \ {Null}
      Table(t) ==
        LET table == lake.objects[t]
            Column(c) == [id |-> c, name |-> table.columns[c].name, tags |-> Tags(table.columns[c].tag)]
        IN  [id |-> t, schema |-> table.schema, tags |-> Tags(table.tag),
             columns |-> [p \in {Null} \cup Live(table) |->
                            ListOf({c \in Live(table) : table.columns[c].parent = p}, Column)],
             inlined |-> ListOf({r.ids[2] : r \in {q \in inlined : q.ids[1] = t}}, LAMBDA v : v)]
      View(v) == [id |-> v, schema |-> lake.objects[v].schema, tags |-> Tags(lake.objects[v].tag)]
      Macro(m) == [id |-> m, schema |-> lake.objects[m].schema, impls |-> <<<<>>, <<1, 2>>>>]
      SpecOf(k, t) == [table |-> t, id |-> lake.objects[t].spec[k].id, fields |-> lake.objects[t].spec[k].fields]
  IN  [refused |-> FALSE,
       schemas |-> ListOf(lake.schemas, LAMBDA s : s),
       tables |-> ListOf(All(TABLE_ROW), Table),
       views |-> ListOf(All(VIEW_ROW), View),
       macros |-> ListOf(All(MACRO_ROW), Macro),
       specs |-> [k \in Specs |-> LET Entry(t) == SpecOf(k, t)
                  IN ListOf({t \in All(TABLE_ROW) : lake.objects[t].spec[k].fields # <<>>}, Entry)]]

CatalogDifference(expected, ours) == {p \in DOMAIN expected : p \notin DOMAIN ours \/ ours[p] # expected[p]}

\* Type correctness.
TypeOK ==
  /\ \A r \in history \cup held : r.kind \in 1..15 /\ r.ids \in Seq(Int) /\ r.begin <= Latest
  /\ Latest \in 1..MaxSnapshot /\ oldest \in 1..Latest /\ asOf \in 0..Latest /\ base \in 0..asOf
  /\ next \in Nat /\ \A r \in known : r.kind = INLINED_TABLE_ROW

\* Read at a snapshot, in whatever order the rows come, the catalog is the lake as the commit of
\* that snapshot left it, and is never refused.
ServerShowsTheLake ==
  \A s \in oldest..Latest : \A read \in Orders(AtSnapshot(s)) :
    CatalogDifference(CatalogOf(shown[s], Inlined), AssembleCatalog(read, s)) = {}

\* So is the catalog a mirror answers with, at every snapshot it answers for, however many reads
\* of changes its rows came in.
MirrorShowsTheLake ==
  asOf # 0 => \A s \in base..asOf : \A rows \in Orders(held) :
    CatalogDifference(CatalogOf(shown[s], known), AssembleCatalog(rows, s)) = {}
=============================================================================
