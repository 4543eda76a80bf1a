---------------------------- MODULE ColumnValues ----------------------------
(***************************************************************************)
(* One column of a lake table: how its values reach SQL Server and what a  *)
(* reader makes of them.  A small insert is inlined, row by row, in a      *)
(* column of the type the manager chose (TSQLColumnType), as the literal   *)
(* it renders (RenderInlinedValue) or, where it renders none, by DuckDB's  *)
(* own INSERT.  Other rows go to files, whose least and greatest values    *)
(* are text in the catalog: written by the appender, the server-side apply *)
(* or the commit batch, which alone cuts a long one, and rewritten when    *)
(* the type of the column changes.  A release before this one left them as *)
(* they were, and those of a file it was given in the type of that file:   *)
(* the migration of its catalog clears the ones it cannot trust.  A filter *)
(* is compared with that text on the server (GenerateFileListQuery), and   *)
(* leaves out the files where no row can match.                            *)
(*                                                                         *)
(* A value is its place on a ladder of the values that tell the types of   *)
(* its family apart, in DuckDB's order:                                    *)
(*   integers: 0, then the greatest value of 8 bits signed and unsigned,   *)
(*     16, 32, 64 likewise (1..8), 10^38-1, 10^38, 2^127-1, 2^128-1        *)
(*     (9..12); below 0 likewise, the odd ones the least signed values     *)
(*   floats: 0, 1.1, the FLOAT 1.1 as a DOUBLE, 1.79E308, 1.795E308,       *)
(*     infinity (5), NaN (6); below 0 -1.79E308 (-3) to -infinity (-5)     *)
(*   instants: -infinity, a year BC, 0001-01-01, 2024-01-01, and from it a *)
(*     second, a millisecond, a microsecond, a nanosecond on (4..7),       *)
(*     9999-12-31, its last microsecond, 10000-01-01, infinity (11)        *)
(*   times: 0:00, a microsecond, a nanosecond, 23:59:59.999999, 24:00      *)
(*   strings: '', 'a', one with a NUL, one of four bytes, one of five, one *)
(*     of four characters and six bytes                                    *)
(***************************************************************************)
EXTENDS Integers, FiniteSets

CONSTANTS Types,        \* the types a column may begin with
          StatsLengths, \* the catalog's bounds of a statistic, in bytes; 0 is none
          Releases,     \* those of a column in a catalog that an earlier release made
          MaxFiles,     \* bound: the files of a column of a type
          MaxRows       \* bound: its inlined rows

Null == -99
NaN == 6

Dates == {0, 1, 2, 3, 8, 10, 11}
Values ==
  [BOOLEAN |-> 0..1,
   TINYINT |-> -1..1, SMALLINT |-> -3..3, INTEGER |-> -5..5, BIGINT |-> -7..7, HUGEINT |-> -11..11,
   UTINYINT |-> 0..2, USMALLINT |-> 0..4, UINTEGER |-> 0..6, UBIGINT |-> 0..8, UHUGEINT |-> 0..12,
   DECIMAL |-> -1..1, FLOAT |-> {-5, 0, 2, 5, NaN}, DOUBLE |-> (-5 .. NaN) \ {-2, -1},
   DATE |-> Dates, TIMESTAMP_SEC |-> Dates \cup {4}, TIMESTAMP_MS |-> Dates \cup 4..5,
   TIMESTAMP |-> 0..11 \ {7}, TIMESTAMP_TZ |-> 0..11 \ {7}, TIMESTAMP_NS |-> {0, 3, 4, 5, 6, 7, 11},
   TIME |-> {0, 1, 3, 4}, TIME_TZ |-> {0, 1, 3, 4}, TIME_NS |-> 0..4,
   VARCHAR |-> 0..5, UUID |-> 0..1, BLOB |-> 0..1, INTERVAL |-> 0..1, BIT |-> 0..1, ENUM |-> 0..1,
   GEOMETRY |-> 0..1, VARIANT |-> 0..1, STRUCT |-> 0..1]

ASSUME ColumnAssumption ==
  /\ Types \subseteq DOMAIN Values /\ Releases \subseteq DOMAIN Values
  /\ StatsLengths \subseteq Nat /\ MaxFiles \in [DOMAIN Values -> Nat] /\ MaxRows \in Nat

Integral == {"TINYINT", "SMALLINT", "INTEGER", "BIGINT", "UTINYINT", "USMALLINT", "UINTEGER"}
Wide == {"UBIGINT", "HUGEINT", "UHUGEINT"}
Floats == {"FLOAT", "DOUBLE"}
Instants == {"DATE", "TIMESTAMP", "TIMESTAMP_SEC", "TIMESTAMP_MS", "TIMESTAMP_TZ"}

HasFourDigitYear(v) == v \in 1..9
IsBC(v) == v = 1
HasNul(t, v) == t = "VARCHAR" /\ v = 2
Bytes(t, v) == IF t = "VARCHAR" /\ v # Null THEN <<0, 1, 2, 4, 5, 6>>[v + 1] ELSE 0

VARIABLES
  type,        \* the column's
  types,       \* those it has had
  old,         \* is the catalog still the earlier release's?
  statsLength, \* the bound of its statistics
  inlined,     \* its inlined rows: what was written, by which way, and what the server holds
  pending,     \* the files of a commit under way, new ones and those a compaction wrote
  files,       \* the files of the lake, with the statistics in the catalog
  refused      \* the ways whose statements the server has refused

columnVars == <<type, types, old, statsLength>>
vars == <<columnVars, inlined, pending, files, refused>>

-----------------------------------------------------------------------------
(* Inlined rows *)

\* What a column of SQL Server holds exactly; a string, the text of anything.
Holds ==
  [BIT |-> 0..1, TINYINT |-> 0..2, SMALLINT |-> -3..3, INT |-> -5..5, BIGINT |-> -7..7,
   DECIMAL_38 |-> -9..9, DECIMAL |-> -1..1, FLOAT |-> -4..4,
   DATE |-> {2, 3, 8}, DATETIME2_0 |-> {2, 3, 4, 8}, DATETIME2_3 |-> {2, 3, 4, 5, 8},
   DATETIME2_6 |-> 2..9 \ {7}, DATETIMEOFFSET_6 |-> 2..9 \ {7}, TIME_6 |-> {0, 1, 3},
   VARCHAR_MAX |-> -11..12, VARBINARY_MAX |-> 0..1, UNIQUEIDENTIFIER |-> 0..1]

\* Digits it has no room for are lost; what is out of its range is an error.
Stored(column, v) ==
  LET below == {h \in Holds[column] : h <= v}
  IN  IF v \in Holds[column] THEN v
      ELSE IF column \in {"DATE", "DATETIME2_0", "DATETIME2_3", "DATETIME2_6", "DATETIMEOFFSET_6", "TIME_6"}
              /\ below # {} /\ (\E h \in Holds[column] : h > v)
           THEN CHOOSE h \in below : \A g \in below : g <= h
           ELSE Null

TypeIsNativelySupported(t) ==
  t \notin Floats \cup Wide \cup {"TIMESTAMP_NS", "TIME_NS", "INTERVAL", "TIME_TZ", "BIT", "ENUM", "VARIANT",
                                  "GEOMETRY", "STRUCT"}

SupportsInlining(t) == t # "VARIANT"

TSQLColumnType(t) ==
  CASE t = "BOOLEAN" -> "BIT"
    [] t = "UTINYINT" -> "TINYINT"
    [] t \in {"TINYINT", "SMALLINT"} -> "SMALLINT"
    [] t \in {"USMALLINT", "INTEGER"} -> "INT"
    [] t \in {"UINTEGER", "BIGINT"} -> "BIGINT"
    [] t = "DECIMAL" -> "DECIMAL"
    [] t = "BLOB" -> "VARBINARY_MAX"
    [] t = "DATE" -> "DATE"
    [] t = "TIME" -> "TIME_6"
    [] t = "TIMESTAMP" -> "DATETIME2_6"
    [] t = "TIMESTAMP_MS" -> "DATETIME2_3"
    [] t = "TIMESTAMP_SEC" -> "DATETIME2_0"
    [] t = "TIMESTAMP_TZ" -> "DATETIMEOFFSET_6"
    [] t = "UUID" -> "UNIQUEIDENTIFIER"
    [] OTHER -> "VARCHAR_MAX"

\* Mutant: the year is enough.
RenderAnyEra(t, v) ==
  /\ t \notin {"VARIANT", "GEOMETRY", "BIT", "ENUM", "STRUCT"} /\ ~HasNul(t, v)
  /\ t \in Instants => HasFourDigitYear(v)
  /\ t = "TIME" => v # 4

\* Is the value a literal of the batch?  If not, its row is DuckDB's to insert.
RenderInlinedValue(t, v) ==
  /\ t # "STRUCT"
  /\ ~TypeIsNativelySupported(t) => t \notin {"VARIANT", "GEOMETRY", "BIT", "ENUM"}
  /\ t \in Instants => HasFourDigitYear(v) /\ ~IsBC(v)
  /\ t = "TIME" => v # 4
  /\ ~HasNul(t, v)

\* A row the server refuses takes its whole commit with it.
Inline(v) ==
  LET way == IF RenderInlinedValue(type, v) THEN "literal" ELSE "base"
      stored == Stored(TSQLColumnType(type), v)
  IN  /\ SupportsInlining(type)
      /\ Cardinality(inlined) < MaxRows
      /\ IF stored = Null
         THEN refused' = refused \cup {way} /\ UNCHANGED inlined
         ELSE inlined' = inlined \cup {[value |-> v, stored |-> stored]} /\ UNCHANGED refused
      /\ UNCHANGED <<columnVars, pending, files>>

-----------------------------------------------------------------------------
(* Files and their statistics *)

\* The shortest text of the FLOAT 1.1 is that of the DOUBLE 1.1.
Text(t, v) == IF t = "FLOAT" /\ v = 2 THEN 1 ELSE v

\* Of a file's values the least and the greatest, NaN aside.
Statistics(t, values) ==
  LET known == {v \in values : ~(t \in Floats /\ v = NaN)}
      Bound(Beyond(_, _)) ==
        IF known = {} THEN Null ELSE Text(t, CHOOSE v \in known : \A w \in known : ~Beyond(w, v))
  IN  [min |-> Bound(LAMBDA w, v : w < v), max |-> Bound(LAMBDA w, v : w > v), nan |-> known # values]

Write(origin, values) ==
  /\ Cardinality(pending) + Cardinality(files) < MaxFiles[type]
  /\ pending' = pending \cup {[origin |-> origin, values |-> values]}
  /\ UNCHANGED <<columnVars, inlined, files, refused>>

Past(stats) == Bytes(type, stats.min) > statsLength \/ Bytes(type, stats.max) > statsLength

\* Mutant: what a compaction wrote is not looked at.
NewFilesPastBound ==
  statsLength > 0 /\ \E f \in pending : f.origin = "insert" /\ Past(Statistics(type, f.values))

HasStatsPastBound == statsLength > 0 /\ \E f \in pending : Past(Statistics(type, f.values))

\* A bound that is too long becomes unknown.
BoundStats(stats) ==
  LET Cut(bound) == IF statsLength > 0 /\ Bytes(type, bound) > statsLength THEN Null ELSE bound
  IN  [stats EXCEPT !.min = Cut(@), !.max = Cut(@)]

SupportsAppender == ~HasStatsPastBound
IsDataFilesOnlyCommit == \A f \in pending : f.origin = "insert"

Ways == {"appender", "apply", "batch"}
Takes(way) ==
  CASE way = "appender" -> SupportsAppender
    [] way = "apply" -> IsDataFilesOnlyCommit /\ ~HasStatsPastBound
    [] OTHER -> TRUE

\* Mutant: the files stay in the transaction.
CommitAgain(way) ==
  /\ pending # {} /\ Takes(way)
  /\ files' = files \cup {[values |-> f.values, added |-> FALSE,
                            stats |-> BoundStats(Statistics(type, f.values))] : f \in pending}
  /\ UNCHANGED <<columnVars, inlined, pending, refused>>

Commit(way) ==
  /\ pending # {} /\ Takes(way)
  /\ LET Sent(f) == IF way = "batch" THEN BoundStats(Statistics(type, f.values)) ELSE Statistics(type, f.values)
     IN  IF statsLength > 0 /\ \E f \in pending : Past(Sent(f))
         THEN refused' = refused \cup {way} /\ UNCHANGED files
         ELSE files' = files \cup {[values |-> f.values, added |-> FALSE, stats |-> Sent(f)] : f \in pending}
              /\ UNCHANGED refused
  /\ pending' = {}
  /\ UNCHANGED <<columnVars, inlined>>

\* Mutant: the text is good enough.
NotRetyped(stats, to) == IF to = "DOUBLE" THEN stats ELSE [stats EXCEPT !.min = Null, !.max = Null]

\* The bounds of a FLOAT are written again as those of the DOUBLE it becomes - infinity is no REAL,
\* and the same text either way -, any others are unknown.
RewriteRetypedStats(stats, to) ==
  LET AsDouble(bound) == IF bound = 1 THEN 2 ELSE bound
  IN  IF to = "DOUBLE" THEN [stats EXCEPT !.min = AsDouble(@), !.max = AsDouble(@)]
      ELSE [stats EXCEPT !.min = Null, !.max = Null]

Widenings == {<<"FLOAT", "DOUBLE">>, <<"INTEGER", "BIGINT">>, <<"UTINYINT", "UINTEGER">>}

\* The bound leaves a column its files when it widens.
ASSUME BoundAssumption == \A w \in Widenings : MaxFiles[w[1]] <= MaxFiles[w[2]]

\* ALTER ... TYPE.  Inlined rows stay in a table of the type they were written in, and are left out.
\* Only a VARCHAR's text has a length here: that of the bounds rewritten for a DOUBLE, two dozen bytes
\* that nothing cuts (src/src/mssql_commit_batch.cpp:608), is left out, and so is their refusal.
Alter(to) ==
  /\ <<type, to>> \in Widenings
  /\ pending = {} /\ inlined = {}
  /\ type' = to /\ types' = types \cup {to}
  /\ files' = IF old THEN files ELSE {[f EXCEPT !.stats = RewriteRetypedStats(@, to)] : f \in files}
  /\ UNCHANGED <<old, statsLength, inlined, pending, refused>>

-----------------------------------------------------------------------------
(* A catalog of an earlier release *)

Addable == {<<"FLOAT", "DOUBLE">>, <<"TIMESTAMP_NS", "TIMESTAMP">>, <<"TIMESTAMP", "TIMESTAMP_MS">>,
            <<"TIMESTAMP_MS", "TIMESTAMP_SEC">>}

\* What a column reads of a value finer than it holds.
AsRead(v) ==
  LET below == {w \in Values[type] : w <= v} IN CHOOSE w \in below : \A u \in below : u <= w

\* A file of another type was added with the statistics of its own (not of the last microsecond,
\* whose millisecond is no place of the ladder).
Add(from, values) ==
  /\ old /\ 9 \notin values
  /\ <<from, type>> \in Addable
  /\ Cardinality(pending) + Cardinality(files) < MaxFiles[type]
  /\ files' = files \cup {[values |-> {AsRead(v) : v \in values}, added |-> TRUE, stats |-> Statistics(from, values)]}
  /\ UNCHANGED <<columnVars, inlined, pending, refused>>

\* Is the bound a number that a REAL holds, or one that no REAL comes near?
IsReal(bound) == bound # 1

Digits(v) == CASE v = 5 -> 3 [] v \in {6, 9} -> 6 [] v = 7 -> 9 [] OTHER -> 0

\* Are there more digits to a second than one of the column's types keeps?
IsFiner(bound) ==
  \/ "TIMESTAMP_SEC" \in types /\ Digits(bound) > 0
  \/ "TIMESTAMP_MS" \in types /\ Digits(bound) > 3
  \/ "TIMESTAMP" \in types /\ Digits(bound) > 6

\* Mutant: only the files that were added.
MigratedAddedFiles(f) ==
  LET Clear(bound) ==
        IF f.added /\ (("DOUBLE" \in types /\ ~IsReal(bound)) \/ IsFiner(bound)) THEN Null ELSE bound
  IN  [f EXCEPT !.stats.min = Clear(@), !.stats.max = Clear(@)]

\* MigrateRetypedBounds: the statistics of a FLOAT in a DOUBLE, and the finer ones, become unknown.
RetypedBoundsMigration(f) ==
  LET Clear(bound) ==
        IF \/ "DOUBLE" \in types /\ (types # {"DOUBLE"} \/ f.added) /\ ~IsReal(bound)
           \/ f.added /\ (IsFiner(bound) \/ "TIMESTAMP_TZ" \in types)
        THEN Null ELSE bound
  IN  [f EXCEPT !.stats.min = Clear(@), !.stats.max = Clear(@)]

MigrateToV1_1 ==
  /\ old /\ pending = {}
  /\ old' = FALSE
  /\ files' = {RetypedBoundsMigration(f) : f \in files}
  /\ UNCHANGED <<type, types, statsLength, inlined, pending, refused>>

-----------------------------------------------------------------------------
(* The file list *)

Comparisons == {"=", "<", "<=", ">", ">="}
Matches(v, op, c) ==
  CASE op = "=" -> v = c
    [] op = "<" -> v < c
    [] op = "<=" -> v <= c
    [] op = ">" -> v > c
    [] op = ">=" -> v >= c

\* What statistics are compared as on the server, and what stands in for one it cannot read.  No such
\* type: no pruning.  The extremes of DATETIMEOFFSET are half a day past the years it holds.
NoType == [type |-> "none", lowest |-> Null, highest |-> Null]
StatsTypeFor(t) ==
  CASE t \in Integral -> [type |-> "BIGINT", lowest |-> -7, highest |-> 7]
    [] t \in Wide -> [type |-> "DECIMAL_38", lowest |-> -9, highest |-> 9]
    [] t = "DECIMAL" -> [type |-> "DECIMAL", lowest |-> -1, highest |-> 1]
    [] t \in Floats -> [type |-> "FLOAT", lowest |-> -3, highest |-> 3]
    [] t = "DATE" -> [type |-> "DATE", lowest |-> 2, highest |-> 8]
    [] t \in {"TIMESTAMP", "TIMESTAMP_SEC", "TIMESTAMP_MS"} -> [type |-> "DATETIME2_6", lowest |-> 2, highest |-> 9]
    [] t = "TIMESTAMP_TZ" -> [type |-> "DATETIMEOFFSET_6", lowest |-> 1, highest |-> 10]
    [] t = "BOOLEAN" -> [type |-> "BIT", lowest |-> 0, highest |-> 1]
    [] OTHER -> NoType

ComparedAsText(t) == t \in {"VARCHAR", "UUID"}

\* A filter's constant as a parameter, or no pruning.
CastValueToTarget(t, c) ==
  IF \/ HasNul(t, c)
     \/ StatsTypeFor(t) = NoType /\ ~ComparedAsText(t)
     \/ t \in Floats /\ c \in {-5, 5, NaN}
     \/ t \in Instants /\ ~HasFourDigitYear(c)
  THEN Null ELSE Text(t, c)

\* A parameter that is not a value of its type fails the query.
Fails(t, c) ==
  CastValueToTarget(t, c) # Null /\ ~ComparedAsText(t) /\ Text(t, c) \notin Holds[StatsTypeFor(t).type]

\* TRY_CONVERT
Read(t, bound) == IF ComparedAsText(t) \/ bound \in Holds[StatsTypeFor(t).type] THEN bound ELSE Null

\* Mutant: a bound that is not read excludes.
CastOnly(t, bound, side) == IF bound = Null \/ Read(t, bound) # Null THEN bound ELSE IF side = "min" THEN 98 ELSE -98

\* The bound is compared as it was read, or as the extreme that stands in for it.
CastStatsToTarget(t, bound, side) ==
  IF ComparedAsText(t) \/ Read(t, bound) # Null THEN bound
  ELSE IF side = "min" THEN StatsTypeFor(t).lowest ELSE StatsTypeFor(t).highest

\* The file list in DuckDB's SQL, when a partition's value is not ASCII or a switch is set: every text
\* is read as the column's type.
AsTyped(t, text) == IF t = "FLOAT" /\ text = 1 THEN 2 ELSE text

\* DuckLake's builder: a file stays when its statistics are unknown, when they admit the constant, and
\* when it has a NaN, greater than anything.
Admits(min, max, op, c) ==
  CASE op = "=" -> min <= c /\ c <= max
    [] op = "<" -> min < c
    [] op = "<=" -> min <= c
    [] op = ">" -> max > c
    [] op = ">=" -> max >= c
Unknown(stats, op) ==
  \/ stats.min = Null /\ op \in {"=", "<", "<="}
  \/ stats.max = Null /\ op \in {"=", ">", ">="}

Listed(route, f, op, c) ==
  LET constant == IF route = "server" THEN CastValueToTarget(type, c) ELSE c
      Bound(bound, side) ==
        IF route = "server" THEN CastStatsToTarget(type, bound, side) ELSE AsTyped(type, bound)
  IN  \/ constant = Null
      \/ Unknown(f.stats, op)
      \/ f.stats.nan /\ (op \in {">", ">="} \/ c = NaN)
      \/ Admits(Bound(f.stats.min, "min"), Bound(f.stats.max, "max"), op, constant)

-----------------------------------------------------------------------------

Init ==
  /\ \/ old = FALSE /\ type \in Types /\ statsLength \in StatsLengths
     \/ old = TRUE /\ type \in Releases /\ statsLength = 0
  /\ types = {type}
  /\ inlined = {} /\ pending = {} /\ files = {} /\ refused = {}

Contents(t) == {{v, w} : v \in Values[t], w \in Values[t]}

Next ==
  \/ \E v \in Values[type] : Inline(v)
  \/ \E origin \in {"insert", "compaction"}, values \in Contents(type) : Write(origin, values)
  \/ \E way \in Ways : Commit(way)
  \/ \E to \in DOMAIN Values : Alter(to)
  \/ \E from \in DOMAIN Values : \E values \in Contents(from) : Add(from, values)
  \/ MigrateToV1_1

Spec == Init /\ [][Next]_vars

-----------------------------------------------------------------------------
(* Properties *)

\* Type correctness: a file is of the transaction or of the lake.
TypeOK ==
  /\ type \in types /\ types \subseteq DOMAIN Values /\ old \in BOOLEAN
  /\ statsLength \in StatsLengths \cup {0}
  /\ \A r \in inlined : r.value \in Values[type] /\ r.stored \in Values[type]
  /\ \A f \in pending \cup files : f.values \subseteq Values[type] /\ f.values # {}
  /\ Cardinality(pending) + Cardinality(files) <= MaxFiles[type]
  /\ refused \subseteq Ways \cup {"literal", "base"}

\* The server takes what the manager writes: each literal it rendered for the type of its column, and
\* each statistic of a file it commits, by whichever way that goes.  It says nothing of the bounds a
\* widening rewrites, and what DuckDB inserts is the extension's.
NoneRefused == refused \subseteq {"base"}

\* Is the constant at the extreme that stands in for a bound the server could not read, or past it?
PastStandIn(f, op, c) ==
  LET t == StatsTypeFor(type)
  IN  \/ op = ">" /\ Read(type, f.stats.max) = Null /\ c >= t.highest
      \/ op \in {">=", "="} /\ Read(type, f.stats.max) = Null /\ c > t.highest
      \/ op = "<" /\ Read(type, f.stats.min) = Null /\ c <= t.lowest
      \/ op \in {"<=", "="} /\ Read(type, f.stats.min) = Null /\ c < t.lowest

\* Every filter finds the rows it matches: the inlined ones as they were written, and the others in a
\* file that is listed.  Two exceptions the server makes: a constant where the stand-in of a bound it
\* could not read ends, and one it cannot read itself.  Of an earlier release's catalog that
\* begins with its migration.
FiltersFindTheRows ==
  ~old => \A op \in Comparisons, c \in Values[type] :
    /\ \A r \in inlined : Matches(r.value, op, c) = Matches(r.stored, op, c)
    /\ \A f \in files : (\E v \in f.values : Matches(v, op, c)) =>
         /\ Listed("catalog", f, op, c)
         /\ Listed("server", f, op, c) \/ Fails(type, c) \/ PastStandIn(f, op, c)
=============================================================================
