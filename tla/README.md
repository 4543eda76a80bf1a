# A verification of mssql_ducklake

`mssql_ducklake` is a DuckDB extension that keeps the metadata catalog of a DuckLake lake in SQL
Server. DuckLake itself (the lake format, the client commit loop, the initializer) and the `mssql`
extension (which talks to the server) are dependencies outside this repository; the 6801 lines under
`src/src/` are a *metadata manager* that DuckLake calls, with caches, a server-side commit, a
rewriter from DuckDB SQL to T-SQL, and the care of a catalog that many processes attach to at once.
This directory holds TLA+ models of that code, configurations that TLC checks, and proofs that TLAPS
checks. Everything is translated from the sources; `PROJECT.json` maps each definition to its lines.

Line numbers below are of `src/src/mssql_<name>.cpp`, written `<name>:<line>`.

## 1. The system

### Components

| # | Component | State it keeps | Operations | Modelled in |
|---|-----------|----------------|------------|-------------|
| 1 | Catalog mirror (`catalog_load`) | per ATTACH: rows of the catalog's history, `base`, `as_of`, a fingerprint of the inlined data tables, an over-budget flag | `LoadCatalog`: preamble, read (everything or changes), `Merge`, `Prune`, `AssembleCatalog` | `CatalogMirror`, `CatalogAssembly`, partly |
| 2 | Cache of global table statistics (`metadata_queries:653-835`) | per ATTACH, in DuckDB's object cache: statistics by table, `as_of` | `GetGlobalTableStats` | `GlobalStatsCache` |
| 3 | Commit protocol (`server_commit`, `metadata_queries:25-188, 627-645`, `commit_batch:993-1007`) | rows of the metadata database; the lock on the last snapshot | server-side apply, the client loop's batch, conflict check, deadlock priority, which errors are retried | `CommitProtocol`, `SerialLake`, partly |
| 4 | Rewrite of the commit batch (`commit_batch`) | the run being gathered, refreshes being joined, tables dropped | `Execute`, `RewriteWriteStatement` for `Query` and `ExecuteInTransaction` | `CommitBatch`, `ColumnValues`, partly |
| 5 | Readiness, shaping and migration (`metadata_manager:292-366`, `catalog_shape`) | the catalog's stamp, limits, migration marker, keys; a shaping lock; the *ready* entry of an attach | `EnsureReady`, `EnsureCatalogShape`, `MigrateToV1_1` | `CatalogShape`, `ColumnValues`, partly |
| 6 | Inlined data tables (`metadata_manager:372-442`, `commit_batch:1148-1268`) | tables created outside the transaction, their registry, names a manager remembers | `GetInlinedTableQueries`, `WriteNewInlinedData` | `InlinedTables`, partly |
| 7 | Limits of the catalog's strings (`catalog_lengths`) | `META_LIMITS`: given, recorded, defaulted | the combinations of them | within `CatalogShape` and `ColumnValues`, partly |
| 8 | File list in T-SQL (`metadata_queries:320-575`) | none | `GenerateFileListQuery`, `CastValueToTarget`, `CastStatsToTarget` | `ColumnValues`, partly |
| 9 | Type matrix (`metadata_manager:69-163`, `commit_batch:1052-1144`) | none | `TSQLColumnType`, `TypeIsNativelySupported`, `RenderInlinedValue` | `ColumnValues`, partly |
| 10 | Query routing, extension entry, trace; the harness of the benchmarks (`scripts/bench`) | none that another part depends on | text in, text out | not modelled |

### How they interact

A transaction's first query goes through `EnsureReady` (5), which reads the catalog's markers and, if
the stamp is old, shapes the catalog in the same transaction under an application lock. Loading the
catalog for a snapshot goes to the mirror (1); statistics for planning and for a commit go to the
statistics cache (2). A commit of many data files and nothing else may be applied on the server in one
batch (3); every other commit goes through DuckLake's client loop, whose batch `Execute` rewrites (4)
and whose conflict check is a single rewritten query (3). A commit with inlined rows first creates
their table on a second connection (6), in autocommit, so a failed commit leaves it behind, and sends
each value as a literal or leaves its row to DuckDB (9). A commit whose statistics are past the
catalog's bound must take the batch, which cuts them (4, 7); the file list compares the statistics,
text that earlier commits and earlier releases wrote, with a filter's constant on the server (8). All nodes
share one SQL Server database; the only things between them are its locks, its primary keys, and the
order in which each statement reads.

### What is hard

* Nothing asks for an isolation level. Under SQL Server's default READ COMMITTED every statement, and
  each part of one statement, sees what is committed at its own time. The models therefore give each
  read a step of its own.
* Caches are read under a lock, brought up to date without it, and written under it again (1, 2).
* Snapshots expire and their rows are deleted while caches are behind (1, 2).
* Two ways of committing take locks in different orders, so deadlocks happen, and one of the two ways
  cannot retry (3).
* DDL and extended properties are written in transactions, in autocommit and on second connections
  (5, 6); processes die and transactions roll back between them.
* A rewrite that reorders or joins statements must be one nobody can tell from the original (4).
* A mirror's rows have no order, and what tells one version of an object from another is a key made of
  the ids its kind happens to have (1).
* Each of thirty types has its own edges, and one value crosses four conversions: a literal, a column
  of SQL Server, text in the catalog, a parameter (8, 9).

### What makes each part correct

1. No load loses a row of the history, whatever is committed meanwhile; the mirror shows nothing the
   history does not; a slow load takes nothing back. The catalog put together from the rows of a
   snapshot is the lake that commit left.
2. The cache never claims a commit it has not read, never publishes what is uncommitted, never answers
   with less than was committed when the question was asked.
3. Commits are serial: each is numbered from what the one before it left. No deadlock fails a writer
   that goes round the client loop, and every commit ends, if only with an error.
4. What reaches the server leaves what DuckLake's statements leave one after another; a failure ends
   the batch; what is to happen in one transaction happens all or not at all.
5. The stamp and the version claim nothing that is not done; limits recorded are limits declared; an
   attach that is ready has a keyed catalog; every attach ends.
6. The rows of every commit are where a reader looks for them, and no leftover stops a later commit.
7. What an attach cuts a statistic to fits the column, and no way of committing forgets to cut.
8. A file with a row that a filter wants is listed.
9. The server takes every literal, and a row reads back as it was written.

The list of hazards, each at its line with the properties that cover it, is in `PROJECT.json`.

## 2. The modules

| Module | Kind | What it is |
|--------|------|------------|
| `CatalogMirror` | component | one mirror, several loads, the server's history, expiry, the registry of inlined data tables |
| `CatalogMirrorProofs` | proofs | seven theorems about `CatalogMirror` |
| `GlobalStatsCache` | component | one cache entry, several transactions, commits, drops, expiry, eviction |
| `GlobalStatsCacheProofs` | proofs | five theorems about `GlobalStatsCache` |
| `SerialLake` | abstract specification | a lake on which transactions happen one at a time |
| `CommitProtocol` | component | writers that apply on the server or go round the client loop; implements `SerialLake` |
| `CatalogShape` | component | nodes that attach, migrate and shape one catalog; the lock; the limits |
| `InlinedTables` | component | commits that name, probe, create, register and fill inlined tables |
| `CommitBatch` | component, sequential | `Execute` and its siblings over every short sequence of statements |
| `CatalogAssembly` | component | the rows that schema changes leave, a mirror of them, and the catalog assembled from either |
| `ColumnValues` | component | a column of any type: its inlined rows, the statistics of its files, the file list |
| `CommitProtocolProofs` | proofs | the ids of a serial lake; that `CommitProtocol` implements it, and three invariants |
| `CatalogShapeProofs` | proofs | seven theorems about `CatalogShape` |
| `InlinedTablesProofs` | proofs | three theorems about `InlinedTables` |
| `CommitBatchProofs` | proofs | six theorems about `CommitBatch` |
| `CatalogAssemblyProofs` | proofs | three theorems about `CatalogAssembly` |
| `ColumnValuesProofs` | proofs | three theorems about `ColumnValues` |
| `MC...` | instances | constants for TLC |

Each component module keeps its mutants (a definition with a plausible bug, commented *Mutant*) beside
the definition they stand in for. A mutant is used by no specification.

### CatalogMirror

A `Row` is one version of a versioned row; `begin` and `end` are its snapshots on the server, `ends[r]`
the end the mirror has for it (`Unread` if it has none). `Commit`, `Expire`, `Register` and `Drop` are
what any node does to the server. A load `p` is a record `rd[p]`: `Start` is the section under the lock
that decides what to read (catalog_load:781-807), `ReadLatest`, `ReadOldest`, `ReadFingerprint` are the
three statements of the preamble, `ReadRow`, `ReadChild`, `ReadInlined` read one row each, in any order,
and `Merge` or `MergeNothing` is the second section under the lock with `Prune` and the budget
(809-864). A read finds a row exactly when the code's condition holds of it: `Wanted` for changes
(`begin > @a or end > @a`), everything not yet pruned for a full read.

Abstractions: what a row says besides its interval is in `CatalogAssembly`, and so is the verify switch
of the tests. Left out are the early return on an empty snapshot table (820-823) and a collision of the
32-bit fingerprint: `Fingerprint` is injective here.

### GlobalStatsCache

A table's statistics are one number, the snapshot that last changed them. `Commit` chooses the tables
it changes and drops and whether its `changes_made` can be parsed; `Expire` deletes any snapshots but
the last; `Write`/`EndTransaction` bracket a transaction that has written; `Evict` is DuckDB's object
cache dropping the entry. A load copies the entry (`Start`), reads the changes one row at a time
(`ReadChange`, with the gap, parse and cap checks), or reads everything (`ReadLatest` first, then
`ReadStats` per table), answers, and publishes only if nobody moved the entry (`Publish`). Not
modelled: `FillMissingTableSizes`, and a read torn within one table's rows.

### SerialLake and CommitProtocol

`SerialLake` says what committing promises: `Insert(work)` or `DropTable(t)` in one step, with file ids
and row ids numbered from the totals before it. `CommitProtocol` gives each writer a record `tx[w]`.
`FlushChangesServerSide` decides between the apply and the client loop (`TakesApply`, an armed writer
with enough files may also take the loop). The apply is `LockCatalog` (UPDLOCK, HOLDLOCK on the last
snapshot), `MergeStats`, and `Apply`, which checks the schema version and writes. The loop is
`StartBatch`, `CommitBatch` - refused by the primary key when the number is taken - and the conflict
check read part by part in the order the rewritten query names them (`ReadBefore`): `CheckSnapshot`,
`CheckChanges`, `CheckTotals`, then `CheckForConflicts`. `Deadlock(w, other)` is error 1205 for the one
of lower priority, a batch, a check or an apply, whose transaction is rolled back whole (`Unlocked`);
`Retryable` is what becomes of it: the loop tries a batch again, and nothing tries an apply again.
`Fails` is any other error that a batch or an apply throws (386-397). `Lake == INSTANCE SerialLake WITH ...` maps the
tables of the database to the abstract lake.

A writer in `Skipping` has the switch set that skips the fetch of its snapshot: it applies whatever the
number of its files, and sends -1 for the schema version it began with.

Which part of the check sees which commit is the one thing taken from SQL Server's habits: it promises
no order among the parts of one SELECT, and `ReadBefore` has them as the query names them, the last
snapshot first. `CommitsSerially` rests on that; its mutant `TotalsFirst` shows what another order does.

Not modelled: the cap on retries, and the staging of the files on the server. The last rests on an assumption about the `mssql` extension: `StageCommit` loads no empty
table (server_commit:213), and the apply reads the partition values when there is a table of them
(107), so a session must come back from the pool without what an earlier commit staged in it. If it
did not, the files of an unpartitioned table would get partition values of that commit's files.

### CatalogShape

`catalog` is what is committed: version, whether 1.1's columns are there, the declared lengths of a
name and of a statistic (two of the six classes; one is declared once, the other adjusted), keys, the
stamp, the recorded limits, the migration marker. `staged` is the same as the shaping transaction has
it. `locker` and `shared` are the exclusive and the shared holders of the application lock. Each read of
the markers is two steps, taking the lock shared and reading. `Attach` starts the migration
(`Migrate`, `CheckMigrationLimits`, `MigrateInlinedColumnNames`, `MigrationBatch`, then
`ApplyMigrationLimits` as `ReadRecorded`, an `AlterColumn` for each string, which commits by itself, and
`RecordLimits`, then `SeeChanged`); `unrecorded` are the strings that were altered and whose limits were
not recorded after. `Begin` starts a transaction (`EnsureReady`,
`ResolveCatalogLengths`, `ResolveUnused`, `LockShape`, `ReadShapeState`, `EnsureCatalogShape`,
`MarkReady`), which ends by `Commit`, `Rollback` or `Crash`. An attach that found a 1.0 catalog and does
not migrate it keeps to that format (`v10`), and its commits may create inlined tables with the names
of 1.0 columns; `Outlive` says whether it may do so once another attach has listed the tables to rename. `WithDefaults`, `WithMaxForMissing` and
`OverriddenBy` are `CatalogLengths`' own.

Not modelled: the 120 s lock timeouts (a read of the markers goes on without the lock when one runs
out; otherwise a timeout fails the attach or the transaction, which the model does by `Crash`), catalogs
that this build creates at 1.0 (`InitializeDuckLake`), the lengths of statistics already stored, database options, invalidation of the
extension's cache, parsing `META_LIMITS`.

### InlinedTables

A writer is one commit of DuckLake's loop that creates a lake table and inlines its first rows, or
inlines rows into one that exists. An attempt builds its name (`BuildCreate`, `BuildKnown`,
`BuildLatest`, `BuildFirst`), probes for a leftover of that name (`Probe`), drops it (`DropLeftover`)
and creates its own (`CreateTable`), all in autocommit; then the batch registers and fills it
(`RunBatch`, which the server may refuse, or `BatchConflicts`) and `Commit` makes that visible. A deadlock or a lost
race retries with the same manager, so with the name it remembers (`known`). `Apart` is the assumption
a run makes about which commits do not overlap.

Not modelled: dropping superseded tables, other nodes' cached columns. The inlined deletion table
appears in `CommitBatch` as the one DDL of a batch.

### CommitBatch

A statement is one of the kinds the rewriter tells apart: a refresh of a column's statistics, another
write of the same row, a write, appended rows, the DDL of the deletion table and rows for it, a drop,
something not recognised, a read. `Execute` is `Gather`, `AppendRows`, `CreateDeletionTable`,
`AppendWrite`, `AppendDrop`, `ToBase`, `Finish`, one per branch of its loop; `RewriteWriteStatement` is
`WholeToBase`, `SendRun`, `SendAtOnce`. The server is what `Outcomes` says a run may leave: several
states when an UPDATE joins two values for one row, none when the server refuses. A batch starts with
any of its deletion tables there before and the cache knowing of any of these (`Init`), and creating one
may fail as any call may. `NeverRefused` is about what a run may be refused for: two widths in one
UPDATE, or rows for a deletion table that is not there; two values for one row are `InOrder`'s. Lengths are counted
in statements. Not modelled: how literals are read and rendered, the strict switch of the tests, cutting
rows into thousands.

### CatalogAssembly

A `Row` is a row of the fourteen kinds the mirror holds, with its ids, a value for its name, and its
interval. `Commit` is what DuckLake writes for a schema change - `CreateSchema`, `CreateTable`,
`CreateView`, `CreateMacro`, `Drop`, `Comment`, `CommentColumn`, `AddColumn`, `RenameColumn`,
`DropColumn`, `SetSpec` (partition or sort keys), `Insert` with its inlined table, `Unregister` - and
`shown` keeps the lake itself beside the rows: schemas, tables with their tree of columns, tags, keys,
inlined tables, views and macros. `AssembleCatalog` is the source's: `TableInfo` with `AddChildColumn`,
`ViewInfo`, `MacroInfo`, `SpecInfo`, each of which sorts what it needs and no more. `Key` is
`CatalogRow::Key`, by which `Merged` tells rows apart; `Load` reads everything or the changes since
`as_of` and prunes (`Pruned`). The rows of a mirror are a set: the order they came in is left to `Orders`. A load is one step here; `CatalogMirror` has its interleavings. `CatalogDifference`
is the comparison behind the verify switch.

`Orders` gives the rows in three orders, because the statement has no ORDER BY and a mirror keeps what
each load appended: one way, the other, and older versions first with those of one snapshot the other way. Left out: the tags of a view's columns, nested schemas, and what a row says that is copied
unchanged (paths, types, SQL), which is one value per row.

### ColumnValues

A value is a place on a ladder of the values that tell the types of its family apart (the module's
heading lists them), so that "loses its microseconds", "is past 9999", "is the FLOAT beside the DOUBLE"
are facts about places. `Inline` writes a row as `RenderInlinedValue` decides, and `Stored` is what the
column `TSQLColumnType` chose keeps of it. `Write` and `Commit` are a file on each of the three ways a
commit goes: the appender (`SupportsAppender`), the apply (`IsDataFilesOnlyCommit`) and the batch, which
alone cuts (`BoundStats`). `Alter` widens the column and rewrites the statistics
(`RewriteRetypedStats`). While `old`, the catalog is an earlier release's, whose `Alter` did not and
which took files of another type with the statistics of their own (`Add`); `MigrateToV1_1` clears what
`RetypedBoundsMigration` names. `Listed` is DuckLake's condition on a file with the manager's
`CastValueToTarget` and `CastStatsToTarget` in it, or as the file list is when it falls back on DuckDB.

Not modelled: the rewriting of the file list's text (`FileListToTSQL`), Top-N and the filters of a
join, DECIMAL's width and scale, lists, maps and unions beside a struct, and statistics of tables.

## 3. What is checked

All times are with two workers on a small machine.

| Run | Instance | Shows | Distinct states |
|-----|----------|-------|-----------------|
| `mirror_loads` | one row, one inlined table, 2 loads, 2 snapshots, 1 expiry, budget 1 | types; no row lost (`MirrorComplete`); the only extra rows are expired ones (`GhostsAreExpired`); every live snapshot is within reach (`LiveSnapshotsHeld`); no merge moves back (`NeverMovesBack`) | 3.4 M, 50 s |
| `mirror_inlined` | one row with a child, two inlined tables, 1 load | children come with their rows; the fingerprint is that of the tables beside it; answers have the tables of their time | 1.2 M, 12 s |
| `stats` | 2 tables, 2 transactions, cap 1, 2 snapshots, 1 expiry or eviction | types; `CacheMissesNoChange`, `AnswersAreCurrent`, `OnlyCommittedStats`, `CacheNeverMovesBack` | 8.1 M, 80 s |
| `commit` | 2 writers that may apply and one that loops, works of 1 and 3 files over 2 tables, drops, 2 deadlocks | refinement of `SerialLake` (`CommitsSerially`); `IdsUnique`; `LoopLosesNoWriter`; `EveryCommitEnds` | 0.4 M, 75 s |
| `shape` | 3 nodes, 2 of them migrating and one that stays at the format it finds, a new or a 1.0 catalog, 1 crash, 1 rollback | `StampIsTruthful`, `MigratedIsWhole`, `NoShapingFails`, `EveryAttachEnds` | 0.5 M, 3 min |
| `shape_alone` | one node with limits, two kinds of old catalog, 3 crashes, 2 rollbacks | `LimitsAreDeclared`, `StatsFit` | 2.3 k |
| `inlined` | 5 commits to 4 lake tables; those that may need one name do not overlap; 2 deadlocks, 2 ends halfway | `RowsAreFound`, `NoneRefused` | 0.6 M, 15 s |
| `batch` | statistics: up to 4 statements of 7; runs: up to 5 of 8; writes: up to 5 of 5; each call may fail | `InOrder`, `EndsClean`, `NeverRefused`, `AllOrNothing`, `FailureEndsIt` | 0.6 M, 8 s |
| `assembly` | 3 commits after the first, which made a schema and a table with a struct; 2 of its columns are touched; keys of 1 and 2 fields; an expiry up to snapshot 2 | `ServerShowsTheLake`, `MirrorShowsTheLake` | 71 k, 56 s |
| `values` | every type with the values at its edges; a bound of 4 bytes or none; 2 files of a VARCHAR, 1 of another; 1 inlined row; 7 types in an earlier release's catalog | `NoneRefused`, `FiltersFindTheRows` | 0.2 M, 35 s |
| `shape_ready`, `inlined_race` | see section 4 | a counterexample each | small |

Why the bounds are enough. The mirror and the statistics cache compare a load with another and with the
server: two loads and two snapshots give every order of "began before", "committed between" and "merged
after"; a single row has every interval and a budget of one row is exceeded by one row and one inlined
table. Most of the properties are proved for all bounds besides (section 5). With
two tables and a cap of one the cache meets a change set over the cap. In `commit` the two works are one
below and one at the threshold of the apply, the second with two files of one table around one of
another, so ids depend on the position. Three nodes in `shape` are one that holds the lock, one that
waits, and one that reads under it; with two crashes the same invariants hold (0.9 M states). In `batch`
a run holds two statements, so five statements make two cuts. `MaxSnap`, `Expiries`, `Upsets`,
`Deadlocks`, `Crashes`, `Rollbacks` bound counters and are named in guards; they are not in the code.
In `assembly` the keys of two rows collide only if both exist, which takes two commits after the first;
the third ends or expires one of them; the columns are a struct and one added later, beside it or under it. In
`values` both properties speak of one row or one file at a time, so one of each reaches every state
they tell apart; two files let a compaction's stand beside an insert's in one commit. 4 bytes is below,
at and above the strings of the ladder, one of which is short in characters and long in bytes.

Deadlock is checked except where the system stops by right: in `mirror_loads` (an emptied mirror
answers nothing more and the server's bounds are used up), in `inlined` and its counterexample, whose
commits all end, in `batch`, whose statements run out, and in `assembly` and `values`, which stop at their
bounds.

**Fairness.** `CommitProtocol!FairSpec` is weak fairness of each writer's `Advance`: the thread of a
commit runs, the server answers, and a lock that is free is granted. Deadlocks are not fair, and there
are finitely many. `CatalogShape!FairSpec` is weak fairness of each node's `Advance`: a statement runs to
its end and a transaction that has begun is ended by its user. Weak fairness is enough for the locks
because only finitely many others stand before a waiter. Neither assumes that a crash, a rollback or a
deadlock ever happens. `EveryCommitEnds` says that a commit ends, not how: it may commit, find a conflict,
lose a deadlock where nothing retries, or throw.

Each property of each passing run has a mutant in `PROJECT.json`: a change to the code's definition
under which TLC finds the property violated.

## 4. Where the code differs from what it says

Two runs end in a counterexample, each against a sentence of the repository.

* **`shape_ready`** - the ready entry is cached (metadata_manager:364) while the shaping is part of a
  transaction that may roll back; the attach then skips the markers, "which are the truth" (269-270),
  on a catalog without keys.
* **`inlined_race`** - "a table of this name that no row of ducklake_inlined_data_tables names is such a
  leftover" (metadata_manager:395-396). Of two commits on one snapshot that each create a lake table the
  second probes after the first's CREATE and before its commit, waits with its DROP for the first's
  locks, and destroys rows that are committed by then.

Fourteen more follow from these modules with other constants. They are not runs; to see one, give the
module a configuration with these values (deadlock checking off where nothing else is left to do):

| Property | Module and constants | What happens |
|----------|----------------------|--------------|
| `MirrorNeverWrong` | `MCCatalogMirror`: `Parent <- MCParent`, `Row {r1}`, `Child {}`, `Inl {}`, 1 reader, `MaxSnap 3`, `Expiries 1`, `RowBudget 10` | "a mirror is never wrong, only behind" (catalog_load:24-27). A read of changes wants rows with `begin > @a or end > @a`; a row that another node ends after `as_of`, and that an expiry deletes before the next read, is in neither: this mirror shows it, open, at every later snapshot |
| `RowsAreFound` | `MCInlinedTables`: 5 writers, `Work <- Mixed`, `Existing 2`, `Inlined {2}`, `Apart <- OneName`, `Victims {w3}`, `Crashes 0` | "an entry from an earlier attempt is never reused" (hpp:223-224). A commit that lost a deadlock retries with the same snapshot id when nobody committed meanwhile, and takes the name its failed attempt remembered for a registered one: rows without a registration |
| `CommitsSerially` | `MCCommitProtocol` as in `commit.cfg`, with `Skipping {a1}` | a commit that skipped the fetch is not checked against the schema (server_commit:58): it adds files to a table that another commit dropped, and reports success. The switch is off by default; specs/005 has it as "implemented and correct" (198) |
| `MigratedIsWhole` | `MCCatalogShape` as in `shape.cfg`, with `Outlive TRUE` | the names of an inlined table's columns are to follow the catalog's format (metadata_internal.hpp:175-177), but an attach asks its own: one that stayed at 1.0 goes on creating tables with the old names after the migration |
| `FingerprintTruthful` | `MCCatalogMirror`: `Row {}`, `Child {}`, `Inl {1,2}`, 2 readers, `MaxSnap 1`, `Expiries 0`, `RowBudget 10` | two loads that overlap: whether the inlined tables changed is asked of the mirror at the merge (834), not of the one the read was made for; "two readers' rows in either order, ends in the same state" (667). The load that left the tables out, because the mirror had them, merges after one that brought others; `FingerprintTold` proves that this is the only overlap that does harm |
| `GivesUpWhenTooLarge` | `MCCatalogMirror`: `Row {}`, `Inl {1,2,3}`, 1 reader, `MaxSnap 1`, `RowBudget 3` | the budget counts reset slots (854), not rows ("grew past the row budget", 645) |
| `CheckIsOneState` | `MCCommitProtocol`, `Spec`: 3 writers, `Armed {}`, `Deadlocks 0` | the conflict check's parts are of different states (metadata_queries:138), though "a single statement is evaluated against a single consistent state" (109). The commit stays safe: the snapshot is read first and its primary key refuses a stale batch |
| the first conjunct of `LoopLosesNoWriter` for every writer | `MCCommitProtocol` as in `commit.cfg` | "a deadlocked commit is retried" (specs/019-global-stats-cache/spec.md:13-14; website/docs/catalog/shaping.md:145-147). An apply runs at the priority of any batch, and when it is the victim its error is thrown (server_commit:386-388) and nothing retries it: concurrency alone fails that commit |
| `LimitsAreDeclared` without its exception | `MCCatalogShape` as in `shape_alone.cfg`, `First <- Release`, `Crashes 1`, `Rollbacks 0` | the limits are to be those "the strings were declared with" (catalog_shape:1004). `ApplyMigrationLimits` alters column by column and records last (560-578): a node that dies in between leaves narrowed names in a catalog that says 1.1, so that nothing applies the limits again, and the next shaping records MAX (617) over them |
| `StatsFit` without its exception | the same, `Rollbacks 1` | after such a death an attach is ready at MAX, its shaping, which would have declared the statistics again, is rolled back, and the column is still narrow |
| `LimitsAreDeclared` | `MCCatalogShape`: nodes `{n1,n2}`, none migrating, `NoCatalog`, `Stored {0}`, `AskNothing` | the second node resolves its lengths (catalog_shape:697) before it has the lock (754) and records MAX over the first's limits |
| `LimitsAreDeclared` | one migrating node, `Release`, `Stored {0}` | a 1.0 catalog without a commit is taken for a new one after its migration dropped the stamp (602), and the defaults are recorded |
| `NoShapingFails` | nodes `{n1,n2}`, `n1` migrating, `Release`, `Stored {1}`, `OneAsks` | `ApplyMigrationLimits` (551) works without the shaping lock, between what the other node read and its DDL |
| `ShortLimitsLeaveV10` | nodes `{n1,n2}`, `n1` migrating, `Release`, `Stored {1}`, `Lengths {1,3}`, `OneAsks` | a longer name is committed between the check of the limits (211) and the migration: the attach fails at 1.1 |

What this means: `LimitsAreDeclared` and `StatsFit` are checked for one node and proved for nodes that
take turns (`Alone`), and both except the strings in `unrecorded`. The others hold, and are checked and proved, on the same condition: `NoShapingFails`
without limits on a migration, `MigratedIsWhole` without an attach that outlives the migration, `CommitsSerially` without the switch, `RowsAreFound` for commits of one name apart. `FingerprintTruthful`
and `InlinedTablesCurrent` are checked for one load at a time and proved for loads that overlap as they
like, but for the one overlap of the table (whether loads of one attach overlap is DuckLake's choice).

Five more are exceptions of a property of `ColumnValues` or of what `CatalogAssembly` leaves out:

* A bound the server cannot read is compared as the extreme of the type, so that it "must not exclude a
  file" (metadata_queries:512-513, and 352-353). A strict comparison with that extreme, or any with a
  constant past it, does exclude: `d > DATE '9999-12-31'` leaves out the file whose greatest value is
  infinity, `> 1.79E308` one whose greatest DOUBLE is beyond. `FiltersFindTheRows` excepts them by
  `PastStandIn`.
* A HUGEINT constant past 10^38 is declared a DECIMAL(38,0) parameter, and the server fails the query
  (`Fails`).
* So it does for a date BC: `HasFourDigitYear` looks at the digits, and only `RenderInlinedValue` looks
  for the era as well (commit_batch:1121).
* The bounds that a widening rewrites (commit_batch:608-613) are some two dozen bytes and are not cut at
  the catalog's limit, which may be less: the server then refuses the commit. The model gives a length to
  the text of a VARCHAR only, so `NoneRefused` says nothing of it.
* `CatalogRow::Key` joins the two names in the key of a view's column tag with a bar
  (catalog_load:101-132): the tag `c` of a column `a|b` and the tag `b|c` of a column `a` are one row
  to a mirror.

## 5. What is proved

Every theorem is for all values of the constants, from the named assumptions on them that the module
itself makes (finite sets, bounds in `Nat`, what the inputs look like), and from those in its own
`ASSUME`, which the table names. Everything the runs check is proved but for liveness and for what
`AssembleCatalog` makes of the rows, `ServerShowsTheLake` and `MirrorShowsTheLake`; that the rows are the
right ones is proved.

| Theorem | States | Assumes besides |
|---------|--------|-----------------|
| `CatalogMirrorProofs!TypeCorrect`, `NoRowLost`, `OnlyGhostsExtra`, `NoLiveSnapshotLeftOut`, `MirrorNeverMovesBack` | `TypeOK`, `MirrorComplete`, `GhostsAreExpired`, `LiveSnapshotsHeld`, `NeverMovesBack` | |
| `CatalogMirrorProofs!FingerprintTold`, `TablesOfTheirTime` | `FingerprintTruthful`, `InlinedTablesCurrent` | `NoneOvertaken`: no load that left the inlined tables out of its read, since the mirror had them, merges when the mirror has another fingerprint |
| `GlobalStatsCacheProofs!TypeCorrect`, `NoChangeMissed`, `AnswersCurrent`, `NothingUncommitted`, `CacheMovesOn` | `TypeOK`, `CacheMissesNoChange`, `AnswersAreCurrent`, `OnlyCommittedStats`, `CacheNeverMovesBack` | |
| `CommitProtocolProofs!SerialIds` | `LakeInv` of `SerialLake`: row ids of a table and file ids are given once | |
| `CommitProtocolProofs!Typing`, `LoopLosesNone`, `IdsGivenOnce` | `TypeOK`, `LoopLosesNoWriter`, `IdsUnique` | |
| `CommitProtocolProofs!Serializable` | `CommitsSerially`, the refinement of `SerialLake` | `Skipping = {}`: nobody skips the fetch |
| `CatalogShapeProofs!Typing`, `StampTruthful` | `TypeOK`, `StampIsTruthful` | `FirstSound` |
| `CatalogShapeProofs!MigrationWhole` | `MigratedIsWhole` | `FirstSound`, `~Outlive` |
| `CatalogShapeProofs!NoShapingRefused` | `NoShapingFails` | `FirstSound`, `FirstBounded`, `NoneNarrows`, `NamesFit` |
| `CatalogShapeProofs!LimitsDeclared`, `StatisticsFit` | `LimitsAreDeclared`, `StatsFit` | `FirstSound`, `FirstRecorded`, `[]Alone` |
| `CatalogShapeProofs!OneNode` | both of these | `FirstSound`, `FirstRecorded`, at most one node |
| `InlinedTablesProofs!Typing`, `RowsFound`, `NoneIsRefused` | `TypeOK`, `RowsAreFound`, `NoneRefused` | `OneNameApart`, `VictimsFind` |
| `CommitBatchProofs!Typing`, `NothingMisplaced`, `CleanEnd`, `NoneRefused`, `NothingAfterFailure`, `AllOrNone` | `TypeOK`, `InOrder`, `EndsClean`, `NeverRefused`, `FailureEndsIt`, `AllOrNothing` | |
| `CatalogAssemblyProofs!TypeCorrect` | `TypeOK` | |
| `CatalogAssemblyProofs!ServerTellsTheLake`, `MirrorTellsTheLake` | the rows on the server, and in a mirror, tell the lake of every snapshot | |
| `ColumnValuesProofs!Typing`, `NoneIsRefused`, `FilesAreFound` | `TypeOK`, `NoneRefused`, `FiltersFindTheRows` | |

Section 4 shows what happens without `NoneOvertaken`, `Skipping = {}`, `~Outlive`, `NoneNarrows`, `Alone`,
`FirstRecorded`, `OneNameApart` and `VictimsFind`; the others are about the catalog a system starts from
and the names it stores. `FirstSound`: a catalog
at the start is what a release leaves, keyed and bounded if it is stamped, with the columns its version
says. `FirstBounded`: limits are recorded only of bounded strings. `FirstRecorded`: the limits a catalog
records are those its strings are declared with, one with bounded strings that records none has
been committed to, and one at 1.0 has none of 1.1's columns (`Plain`). `Alone`: while a node is busy -
between resolving lengths and the end of its shaping, or migrating with limits from their check to their
record - no other is past the first markers of its transaction, checking limits, or ready; others
shape before it or after it, and may roll back or die. `NoneNarrows`: no migrating attach
asks for limits. `NamesFit`: what commits store fits what an attach declares of an unused catalog.
`OneNameApart`: commits that may need an inlined table of one name do not overlap. `VictimsFind`: a commit
that may lose a deadlock finds its table registered, or creates its lake table too.

**`CatalogMirror`.** `IInv == TypeOK /\ ServerInv /\ MirrorInv /\ \A p : LoadInv(rd[p])`.
`MirrorComplete` is not inductive: it says nothing of what a load in flight has read. `MirrorInv` says of
each row begun by `as_of` that the mirror has it, and has it open only if it was open at `as_of`, unless
no live snapshot can see it. `LoadInv` says the same of what a load in flight has read, with the load's
`latest` in place of `as_of`, but for the rows a read of changes leaves out: those that began by the
snapshot it reads from (`after`) and did not end between it and `latest`, which the mirror the load
merges into already has. `Grows` is what every server step keeps
(history only grows, ends once, is deleted only when unseen), and the lemmas `MirrorStays` and
`LoadStays` carry both invariants over it; then there is one lemma per action of a load, `MergeInv` the
largest. The inlined tables have an invariant of their own, `InlinedInv`: the fingerprint of a mirror or
a load is that of a set `S` of tables which is registered now, with the tables beside it being `S`, or
which never will be again (`Gone`: one of `S` is dropped, or there is a newer table than any in `S`; the
registry never goes back, `RegistryMoves`). So a fingerprint that is equal is equal for the right reason.
Loads overlap, so it also says of each load that it may answer with what the mirror has, while their
fingerprints are equal (`MirrorFits`), and with what any other load of its fingerprint has read
(`ReadsFit`): a merge may then go before any of them. What is left is a load that read no tables and
merges under another fingerprint, which `NoneOvertaken` excludes.

**`GlobalStatsCache`.** `IInv == TypeOK /\ Inv /\ OrderInv`.
`LoadInv` says that a load's copy has every change up to `last` (`KnowsTheRest`), but for the tables
it still has to read (`Pending`), and holds only values that were committed.
`OrderInv` compares a load with the entry it was copied from: while the entry is still as it was
(`Same`), what the load publishes is not older, table by table.

**`SerialLake` and `CommitProtocol`.** `LakeInv` adds to `RowIdsDisjoint` and `FileIdsUnique` that every
id is below the stored next one; that a work's ids do not overlap is arithmetic of `RowsUpTo`, by
induction on the position of a file. `CommitProtocol`'s `IInv` says of each writer what its reads are
worth: the snapshot it saw is the last one or older (`Past`), and *while it is the last one* the totals
it has read since are the stored ones and no table it writes is gone (`ReadInv`, `ConflictInv`). A batch
whose number nobody took was built on the last snapshot, so its step is a step of `SerialLake`; the same
holds under the lock of an apply. `IdsUnique` is carried by the lemma about adding a
work (`AddedKeepsIds`), which does not ask whether its tables are still there: so it holds of writers
that skip the fetch, too.

**`CatalogShape`.** `IInv == TypeOK /\ DatabaseInv /\ NodesOK`: the catalog and what is staged are `Sound`;
what is staged differs from the catalog only in what shaping writes, since only the holder of the lock
writes the rest; what a node read before it had the lock is good for one thing, that a bounded string is
never unbounded again. `ShapingInv` is a second layer on top: without limits on a migration, what a node
read of the state under the lock *is* the state until it writes, so its DDL is never refused. `LimitsInv`
is a third: what is recorded is what is declared (`Recorded`), in the catalog and in what is staged; the
lengths a node has resolved are those of the strings that are bounded already (`Matches`), so that
recording them is true of these as well; and the bound of a ready attach fits the column as it is now
and, if its shaping is still staged, as it will be (`Keeps`). All of it leaves out the strings that are
`Loose`: altered by a migration that recorded nothing, and not declared again since, which happens to a
statistic and never to a name. `MigrationOK` says that a migration which lives finds nothing loose and
leaves only what it has itself altered, so that recording the limits makes the exception empty. `Alone` is used where one node writes and another is
ready or has resolved.

**`InlinedTables`.** `NamesDiffer` is the core: two commits under way that have a name each have different
ones, because their lake tables differ. `CommitOK` then says what a commit found out on its second
connection (no table, a leftover, the table it made), which nobody else's step disturbs, and that a table
it takes for registered is; `KnownOK` says that a remembered name is of this attempt's snapshot or
registered, which is what a retry on the same snapshot id could break.

**`CommitBatch`.** `Gathered(ss, n, b)`: whatever the server has, what the run leaves of it is a single state
`u`, and the refreshes still pending make of `u` what DuckLake's statements up to `n` leave one by one
(`Told`); the run is no longer than the limit, and drops nothing that is not remembered (`Tidy`). "A single
state" is what joining refreshes could break - an UPDATE with two values for a row has several - and is
carried by `Coherent`: the refreshes joined are of one table and one width, a column each. That a run
means what its pieces mean, in any length, is an induction over the run, made with the least natural
number for which it would fail.

**`CatalogAssembly`.** `IInv == ServerInv /\ MirrorInv`. `Tells(rows, s, lake)` is what the assembly needs of
rows, said without an order: the versions visible at `s`, stripped of their intervals, are the lines of
the lake (`Lines`); no two of them are of one thing (`SameThing`, the key without its begin); each macro
and each spec has its own children and no others. `ServerInv` has it of the history for every snapshot
left, with what a commit relies on: ids are below `next`, a key belongs to one row, a parent's id to one
parent. A commit adds the lines that its lake gains and ends the rows of those that it loses, one lemma
per kind of commit, all through one lemma about such a change; earlier snapshots see what they saw.
`MirrorInv` says what makes a read of changes enough: the versions a mirror holds open are those the
server had open at `as_of` (`Told`), with the children that parents begun by then had. So the merge ends
what has ended since, adds what has begun, and prunes only what no snapshot from `base` on sees, and
`Tells` of the history becomes `Tells` of the mirror at every snapshot after `as_of`; those before are as
they were. `Key` decides all of this: with a column told apart by its table alone, a mutant, an open row
would take another's end.

**`ColumnValues`.** `Tells(t, stats, values)`: a bound that is known is the text, in type `t`, of the least or
greatest value, and the flag says whether there is a NaN. `FileOK` says for which type a file's
statistics tell: the column's or, in an earlier release's catalog, one it had, or that of a file that
was added, of whose values the column reads the greatest of its own not above them (`AsRead`). `AddedTells`
and `CommittedTells` are why the migration clears enough; `RewrittenTells` why a widening rewrites enough;
`CutTells` why a cut bound only becomes unknown. Then a filter that a value matches passes each bound the
list compares (`CatalogLists`, `ServerLists`), as text keeps the order of its type's values (`TextOrder`). The ladder
of values is finite, as in TLC's run; the files, their values' bounds and their number are not. `BoundAssumption`
is about TLC's bound on the number of files, which is not in the code.

**Only model-checked.** `ServerShowsTheLake` and `MirrorShowsTheLake` of `CatalogAssembly`: that the assembly
turns rows that tell a lake into the catalog of that lake, in every order of the rows. It sorts, selects and
folds with library operators that recur over the rows (`SortSeq`, `SelectSeq`, `FoldSet`, `FlattenSeq`), so this is
an induction over data. Liveness (`EveryCommitEnds`, `EveryAttachEnds`) and fairness are beyond the
prover. A mirror has two models, `CatalogMirror` for the interleavings of its loads and `CatalogAssembly` for
keys and contents, and nothing proves that they agree: that a row of the first is a version in the second
is an argument of this text.

## 6. Plan

Done, in this order: `CatalogMirror` with its proofs, `GlobalStatsCache` with its proofs, `SerialLake`
with `CommitProtocol`, `CatalogShape`, `InlinedTables`, `CommitBatch`, `CatalogAssembly`,
`ColumnValues` with the migration of statistics; the skipped fetch in `CommitProtocol` and attaches at
1.0 in `CatalogShape`; then the proofs about all of these.

Left, to extend the models:

1. The staging of an apply, with sessions that a pool hands from one commit to the next, and the cap on
   retries.
2. Parsing `META_LIMITS` and the watch on ATTACH (catalog_lengths:315-423).
3. The drop of superseded inlined tables (server_commit:424, commit_batch:1009) in `InlinedTables`.
4. The shared lock of `CatalogShape` running out, after which the markers are read without it.

Next, to prove: that `AssembleCatalog` makes of rows that tell a lake its catalog, once the prover can
follow a fold; and that `LimitsAreDeclared` holds of nodes that overlap if lengths are resolved under the
shaping lock, a change to the code that section 4 asks for.
