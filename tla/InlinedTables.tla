---------------------------- MODULE InlinedTables ----------------------------
(***************************************************************************)
(* The inlined data tables: small inserts are kept as rows of a SQL Server *)
(* table of their own, named after the lake table and the schema version,  *)
(* and found by readers through ducklake_inlined_data_tables.  The table   *)
(* is created in autocommit on a second connection, while the commit that  *)
(* needs it is still being built; its registration and its rows are part   *)
(* of the commit.  A commit that fails in between leaves the table behind, *)
(* and the next commit to take the name drops it and creates it afresh.    *)
(*                                                                         *)
(* A writer is one commit of DuckLake's commit loop.  It either creates a  *)
(* lake table and inlines its first rows ("create": the inlined table is   *)
(* new with it), or inlines rows into a lake table that exists ("insert"). *)
(* The commit loop is DuckLake's: the snapshot's primary key decides which *)
(* of two commits of one number wins, the loser retries on the snapshot    *)
(* then current with the same metadata manager, and so does a commit that  *)
(* lost a deadlock.                                                        *)
(***************************************************************************)
EXTENDS Naturals, Functions

CONSTANTS
    Writer,      \* the commits
    Work,        \* what each does: [kind |-> "create"] or [kind |-> "insert", table |-> t]
    Existing,    \* the number of lake tables there are at first
    Inlined,     \* those of them that have an inlined table
    Apart,       \* the pairs of commits that are not under way together
    Victims,     \* the commits that may lose a deadlock, each once
    Crashes      \* bound: how many end halfway, by a crash or an error elsewhere

ASSUME InlinedAssumption ==
    /\ Existing \in Nat /\ Crashes \in Nat
    /\ Inlined \subseteq 1 .. Existing
    /\ Apart \subseteq Writer \X Writer /\ Victims \subseteq Writer
    /\ \A w \in Writer :
          \/ Work[w] = [kind |-> "create"]
          \/ \E t \in 1 .. Existing : Work[w] = [kind |-> "insert", table |-> t]

VARIABLES
    snapshot,    \* the latest snapshot: its id, the schema version, the tables' last id
    registry,    \* ducklake_inlined_data_tables: [table, name], committed
    tables,      \* the inlined tables on the server, by name: whose columns, whose rows
    tx,          \* each writer's commit
    deadlocks,   \* the commits that have lost one
    crashes

vars == <<snapshot, registry, tables, tx, deadlocks, crashes>>

-----------------------------------------------------------------------------
NoName == [commit |-> 0]

\* A commit as it stands.  "known" is the manager's inlined_table_names entry
\* for the lake table: it outlives an attempt, as the manager does.
Idle == [pc |-> "idle", base |-> [id |-> 0], table |-> 0, schema |-> 0, name |-> <<>>,
         registers |-> FALSE, leftover |-> FALSE, known |-> NoName]

\* Whose columns a table has: those of the lake table it was created for.
Columns(w) == IF Work[w].kind = "create" THEN [kind |-> "create", by |-> w] ELSE Work[w]

Init ==
    /\ snapshot = [id |-> 1, schema |-> 1, table |-> Existing]
    /\ registry = {[table |-> t, name |-> <<t, 1>>] : t \in Inlined}
    /\ tables = [name \in Inlined \X {1} |->
                    [columns |-> [kind |-> "insert", table |-> name[1]], rows |-> {}]]
    /\ tx = [w \in Writer |-> Idle]
    /\ deadlocks = {} /\ crashes = 0

Names(t) == {r \in registry : r.table = t}
Registered(name) == \E r \in registry : r.name = name
Exists(name) == name \in DOMAIN tables
Ended == {"idle", "committed", "refused", "gone"}

\* The commit whose batch has run and is not yet committed: it holds the locks
\* on its snapshot row and on the inlined table it wrote.
Written == {w \in Writer : tx[w].pc = "written"}

-----------------------------------------------------------------------------
(* The commit loop.                                                        *)

Begin(w) ==
    /\ tx[w].pc = "idle"
    /\ \A v \in Writer : <<v, w>> \in Apart => tx[v].pc \in Ended
    /\ tx' = [tx EXCEPT ![w].pc = "build", ![w].base = snapshot]
    /\ UNCHANGED <<snapshot, registry, tables, deadlocks, crashes>>

\* A failed attempt is rolled back and built again on the snapshot then
\* current.  inlined_table_names keeps its entry.
Retry(w) ==
    /\ tx[w].pc = "retry"
    /\ tx' = [tx EXCEPT ![w].pc = "build", ![w].base = snapshot]
    /\ UNCHANGED <<snapshot, registry, tables, deadlocks, crashes>>

\* WriteNewInlinedData, for a lake table this commit creates: the table and its
\* inlined table are named together.
BuildCreate(w) ==
    LET b == tx[w].base
        name == <<b.table + 1, b.schema + 1>>
    IN /\ tx[w].pc = "build" /\ Work[w].kind = "create"
       /\ tx' = [tx EXCEPT ![w].pc = "probe", ![w].table = b.table + 1, ![w].schema = b.schema + 1,
                           ![w].name = name, ![w].registers = TRUE,
                           ![w].known = [commit |-> b.id + 1, name |-> name]]
       /\ UNCHANGED <<snapshot, registry, tables, deadlocks, crashes>>

IsKnown(w) == tx[w].known.commit = tx[w].base.id + 1

\* The name this attempt already has for the lake table: what an entry of the
\* same commit snapshot says.
BuildKnown(w) ==
    /\ tx[w].pc = "build" /\ Work[w].kind = "insert" /\ IsKnown(w)
    /\ tx' = [tx EXCEPT ![w].pc = "batch", ![w].table = Work[w].table, ![w].schema = tx[w].base.schema,
                        ![w].name = tx[w].known.name, ![w].registers = FALSE]
    /\ UNCHANGED <<snapshot, registry, tables, deadlocks, crashes>>

\* The latest inlined table the catalog has for the lake table.
BuildLatest(w) ==
    /\ tx[w].pc = "build" /\ Work[w].kind = "insert" /\ ~IsKnown(w)
    /\ \E r \in Names(Work[w].table) :
          /\ \A other \in Names(Work[w].table) : other.name[2] <= r.name[2]
          /\ tx' = [tx EXCEPT ![w].pc = "batch", ![w].table = r.table, ![w].schema = tx[w].base.schema,
                              ![w].name = r.name, ![w].registers = FALSE,
                              ![w].known = [commit |-> tx[w].base.id + 1, name |-> r.name]]
    /\ UNCHANGED <<snapshot, registry, tables, deadlocks, crashes>>

\* A mutant: the name is the schema version's alone.
BuildFirstByVersion(w) ==
    LET b == tx[w].base
        name == <<0, b.schema + 1>>
    IN /\ tx[w].pc = "build" /\ Work[w].kind = "insert" /\ ~IsKnown(w)
       /\ Names(Work[w].table) = {}
       /\ tx' = [tx EXCEPT ![w].pc = "probe", ![w].table = Work[w].table, ![w].schema = b.schema + 1,
                           ![w].name = name, ![w].registers = TRUE,
                           ![w].known = [commit |-> b.id + 1, name |-> name]]
       /\ UNCHANGED <<snapshot, registry, tables, deadlocks, crashes>>

\* No inlined table yet: a new schema version, and a table named after it.
BuildFirst(w) ==
    LET b == tx[w].base
        name == <<Work[w].table, b.schema + 1>>
    IN /\ tx[w].pc = "build" /\ Work[w].kind = "insert" /\ ~IsKnown(w)
       /\ Names(Work[w].table) = {}
       /\ tx' = [tx EXCEPT ![w].pc = "probe", ![w].table = Work[w].table, ![w].schema = b.schema + 1,
                           ![w].name = name, ![w].registers = TRUE,
                           ![w].known = [commit |-> b.id + 1, name |-> name]]
       /\ UNCHANGED <<snapshot, registry, tables, deadlocks, crashes>>

-----------------------------------------------------------------------------
(* GetInlinedTableQueries.                                                 *)

\* A mutant: the probe never finds a leftover, as before the manager had one.
FindsNoLeftover(name) == FALSE
\* A table of this name that no committed registration names.
IsLeftover(name) == Exists(name) /\ ~Registered(name)

Probe(w) ==
    /\ tx[w].pc = "probe"
    /\ tx' = [tx EXCEPT ![w].leftover = IsLeftover(tx[w].name),
                        ![w].pc = IF IsLeftover(tx[w].name) THEN "drop" ELSE "create"]
    /\ UNCHANGED <<snapshot, registry, tables, deadlocks, crashes>>

\* The DROP waits for a commit that wrote to the table; it fails when somebody
\* else dropped the table first.
DropLeftover(w) ==
    LET name == tx[w].name
    IN /\ tx[w].pc = "drop"
       /\ \A v \in Written : tx[v].name # name
       /\ tables' = Restrict(tables, DOMAIN tables \ {name})
       /\ tx' = [tx EXCEPT ![w].pc = IF Exists(name) THEN "create" ELSE "refused"]
       /\ UNCHANGED <<snapshot, registry, deadlocks, crashes>>

\* The tables, and an empty one of this name for what commit w writes.
WithTable(name, w) ==
    [n \in DOMAIN tables \cup {name} |->
        IF n = name THEN [columns |-> Columns(w), rows |-> {}] ELSE tables[n]]

\* A mutant: a table that was there is taken for a registered one.
CreateUnregistered(w) ==
    LET name == tx[w].name
    IN /\ tx[w].pc = "create"
       /\ tables' = IF Exists(name) THEN tables ELSE WithTable(name, w)
       /\ tx' = [tx EXCEPT ![w].pc = "batch", ![w].registers = ~tx[w].leftover]
       /\ UNCHANGED <<snapshot, registry, deadlocks, crashes>>

CreateTable(w) ==
    LET name == tx[w].name
    IN /\ tx[w].pc = "create"
       /\ tables' = IF Exists(name) THEN tables ELSE WithTable(name, w)
       /\ tx' = [tx EXCEPT ![w].pc = "batch"]
       /\ UNCHANGED <<snapshot, registry, deadlocks, crashes>>

-----------------------------------------------------------------------------
(* The batch and the commit.                                               *)

Writable(w) == Exists(tx[w].name) /\ tables[tx[w].name].columns = Columns(w)

\* The commit batch: the registration, the rows and the snapshot row, which
\* waits for another commit of its number.  Rows that do not fit the table of
\* that name, or that find none, are an error the loop does not retry.
RunBatch(w) ==
    /\ tx[w].pc = "batch"
    /\ IF Writable(w)
       THEN /\ tx[w].base.id = snapshot.id
            /\ \A v \in Written : tx[v].base.id # tx[w].base.id
            /\ tx' = [tx EXCEPT ![w].pc = "written"]
       ELSE tx' = [tx EXCEPT ![w].pc = "refused"]
    /\ UNCHANGED <<snapshot, registry, tables, deadlocks, crashes>>

\* The snapshot of that number is another commit's.
BatchConflicts(w) ==
    /\ tx[w].pc = "batch"
    /\ tx[w].base.id < snapshot.id
    /\ tx' = [tx EXCEPT ![w].pc = "retry"]
    /\ UNCHANGED <<snapshot, registry, tables, deadlocks, crashes>>

\* IsRetryableCommitError: the batch lost a deadlock, and its transaction with
\* it, to anyone who reads or writes the catalog's tables.
Deadlocked(w) ==
    /\ tx[w].pc = "batch" /\ w \in Victims \ deadlocks
    /\ deadlocks' = deadlocks \cup {w}
    /\ tx' = [tx EXCEPT ![w].pc = "retry"]
    /\ UNCHANGED <<snapshot, registry, tables, crashes>>

Commit(w) ==
    LET t == tx[w]
    IN /\ t.pc = "written"
       /\ snapshot' = [id |-> t.base.id + 1, schema |-> t.schema,
                       table |-> IF Work[w].kind = "create" THEN t.table ELSE snapshot.table]
       /\ registry' = registry \cup (IF t.registers THEN {[table |-> t.table, name |-> t.name]} ELSE {})
       /\ tables' = [tables EXCEPT ![t.name].rows = @ \cup {w}]
       /\ tx' = [tx EXCEPT ![w].pc = "committed"]
       /\ UNCHANGED <<deadlocks, crashes>>

\* The process ends, or the commit fails for a reason of its own: what is not
\* committed is rolled back, and the table stays.
Crash(w) ==
    /\ tx[w].pc \notin Ended /\ crashes < Crashes
    /\ crashes' = crashes + 1
    /\ tx' = [tx EXCEPT ![w] = [Idle EXCEPT !.pc = "gone"]]
    /\ UNCHANGED <<snapshot, registry, tables, deadlocks>>

Next ==
    \E w \in Writer :
        \/ Begin(w) \/ Retry(w)
        \/ BuildCreate(w) \/ BuildKnown(w) \/ BuildLatest(w) \/ BuildFirst(w)
        \/ Probe(w) \/ DropLeftover(w) \/ CreateTable(w)
        \/ RunBatch(w) \/ BatchConflicts(w) \/ Deadlocked(w)
        \/ Commit(w) \/ Crash(w)

Spec == Init /\ [][Next]_vars

-----------------------------------------------------------------------------
(* Properties.                                                             *)

\* Every variable keeps its type.
TypeOK ==
    /\ snapshot \in [id : Nat \ {0}, schema : Nat, table : Nat]
    /\ registry \subseteq [table : Nat, name : (Nat \ {0}) \X Nat]
    /\ DOMAIN tables \subseteq (Nat \ {0}) \X Nat
    /\ \A name \in DOMAIN tables : tables[name].rows \subseteq Writer
    /\ \A w \in Writer : tx[w].pc \in {"build", "probe", "drop", "create", "batch", "written", "retry"} \cup Ended
    /\ deadlocks \subseteq Victims /\ crashes \in 0 .. Crashes

\* The rows of every commit are where a reader looks for them: in a table the
\* registry names for the lake table (GetInlinedTableQueries against another
\* commit's DROP, and WriteNewInlinedData's name kept from an earlier attempt).
RowsAreFound ==
    \A w \in Writer :
        tx[w].pc = "committed" =>
            \E r \in Names(tx[w].table) : Exists(r.name) /\ w \in tables[r.name].rows

\* No commit is refused over the inlined table it created: neither a leftover's
\* columns nor a missing table stop it (GetInlinedTableQueries, specs/018).
NoneRefused == \A w \in Writer : tx[w].pc # "refused"
=============================================================================
