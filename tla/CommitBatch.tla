----------------------------- MODULE CommitBatch -----------------------------
(***************************************************************************)
(* How DuckLake's commit batch - DuckDB statements, one string - becomes   *)
(* T-SQL.  Execute reads it statement by statement into a run that goes to *)
(* the server in one call, cut where it would be too long; the refreshes   *)
(* of one table's column statistics become one UPDATE; a statement that is *)
(* not recognised waits for the run before it and goes DuckDB's way.       *)
(* RewriteWriteStatement does the same for the writes DuckLake sends one   *)
(* string at a time, and for those that must happen all or not at all.     *)
(*                                                                         *)
(* A statement is what the rewrite's families tell apart.  The server's    *)
(* state is the column statistics, which refreshes and other statements    *)
(* write over each other, and the list of every other write in the order   *)
(* it happened.  Lengths are counted in statements.                        *)
(***************************************************************************)
EXTENDS Naturals, Sequences, Functions

CONSTANTS
    Inputs,      \* the statement sequences DuckLake may send
    Column,      \* the statistics rows: <<table, column>>
    StatsLength, \* the longest bound the statistics columns hold; a value is its length
    RunLimit,    \* how many statements a run holds
    Rewrites,    \* the settings of the rewrite switch to check, a subset of BOOLEAN
    Failures     \* may a call to the server fail?

ASSUME BatchAssumption ==
    /\ \A c \in Column : c = <<c[1], c[2]>>
    /\ RunLimit \in Nat \ {0} /\ StatsLength \in Nat \ {0}
    /\ Rewrites \subseteq BOOLEAN /\ Failures \in BOOLEAN

\* What a statement says besides its kind, and that one which writes into a
\* deletion table comes after the one that creates it.
ASSUME InputsAssumption ==
    \A i \in Inputs :
      /\ DOMAIN i = 1 .. Len(i) /\ Len(i) \in Nat
      /\ \A n \in 1 .. Len(i) :
           /\ i[n].kind = "refresh" => i[n] \in [kind : {"refresh"}, column : Column,
                                           exactness : BOOLEAN, value : Nat, exact : Nat]
           /\ i[n].kind = "retyped" => i[n].column \in Column
           /\ i[n].kind = "deletes" =>
                \E m \in 1 .. n - 1 : i[m].kind = "ddl" /\ i[m].table = i[n].table

VARIABLES
    input,      \* the statements, how they came ("execute", "query", "transaction"), the switch
    at,         \* the next statement
    batch,      \* what is gathered, what the server and the extension's cache hold
    ended

vars == <<input, at, batch, ended>>

-----------------------------------------------------------------------------
(* The server.                                                             *)

Unknown == 0
\* A bound longer than the column is written as NULL, and so is its exactness.
Bounded(s) ==
    IF s.value > StatsLength THEN [s EXCEPT !.value = Unknown, !.exact = Unknown] ELSE s

\* One statement: a refresh or another write of a statistics row, or a write
\* that only its place in the order tells of.  The one DDL is not of the
\* transaction.
Apply(db, s) ==
    CASE s.kind = "refresh" ->
             [db EXCEPT !.stats[s.column] =
                [value |-> Bounded(s).value,
                 exact |-> IF s.exactness THEN Bounded(s).exact ELSE @.exact]]
      [] s.kind = "retyped" ->
             [db EXCEPT !.stats[s.column].value = Unknown, !.written = Append(@, s)]
      [] s.kind = "ddl" -> db
      [] OTHER -> [db EXCEPT !.written = Append(@, s)]

\* What the first n statements leave, one after another.
Reference(db, statements, n) ==
    LET after[k \in 0 .. Len(statements)] ==
          IF k = 0 THEN db ELSE Apply(after[k - 1], statements[k])
    IN after[n]

\* A piece of a run is one statement, or the refreshes joined into one: an
\* UPDATE of the first one's table, as wide as the first one, from the joined
\* values.  Values of two widths are refused, and of two values for one column
\* either may be the one that stays.
Joined(piece) == Head(piece).kind = "refresh"
Target(piece, s) == <<Head(piece).column[1], s.column[2]>>

Chosen(piece) ==
    LET cols == {Target(piece, s) : s \in Range(piece)}
    IN {f \in [cols -> Range(piece)] : \A c \in cols : Target(piece, f[c]) = c}

Update(db, piece, f) ==
    [db EXCEPT !.stats = [c \in Column |->
        IF c \notin DOMAIN f THEN db.stats[c]
        ELSE [value |-> Bounded(f[c]).value,
              exact |-> IF Head(piece).exactness THEN Bounded(f[c]).exact ELSE db.stats[c].exact]]]

\* The states a piece may leave; none when the server refuses it: what is not
\* T-SQL, and rows of a table that is not there.
Outcomes(db, created, piece) ==
    LET s == Head(piece)
    IN IF Joined(piece)
       THEN IF \A r \in Range(piece) : r.exactness = s.exactness
            THEN {Update(db, piece, f) : f \in Chosen(piece)} ELSE {}
       ELSE IF \/ s.kind \in {"unknown", "read"}
               \/ s.kind = "deletes" /\ s.table \notin created
            THEN {} ELSE {Apply(db, s)}

RunOutcomes(db, created, run) ==
    LET after[k \in 0 .. Len(run)] ==
          IF k = 0 THEN {db} ELSE UNION {Outcomes(d, created, run[k]) : d \in after[k - 1]}
    IN after[Len(run)]

Drops(run) == {Head(piece).name : piece \in {p \in Range(run) : Head(p).kind = "drop"}}

-----------------------------------------------------------------------------
(* The run.                                                                *)

Empty == [run |-> << >>, refreshes |-> << >>, dropped |-> {}, failed |-> FALSE, refused |-> FALSE,
          db |-> [stats |-> [c \in Column |-> [value |-> 1, exact |-> 1]], written |-> << >>],
          created |-> {}, cached |-> {}, stale |-> {}]

\* RunCommitBatch, and after it the invalidation of what the run dropped.  A
\* call that fails leaves a transaction that is rolled back.
Sent(b) ==
    {[b EXCEPT !.run = << >>, !.dropped = {}, !.db = d,
               !.stale = (@ \cup Drops(b.run)) \ b.dropped] : d \in RunOutcomes(b.db, b.created, b.run)}

\* A mutant: a failure takes the tables back that were created, and not from the cache.
FailedTakesTablesBack(b) ==
    LET refused == RunOutcomes(b.db, b.created, b.run) = {}
    IN IF Failures \/ refused
       THEN {[b EXCEPT !.run = << >>, !.failed = TRUE, !.refused = refused, !.created = {}]} ELSE {}

Failed(b) ==
    LET refused == RunOutcomes(b.db, b.created, b.run) = {}
    IN IF Failures \/ refused
       THEN {[b EXCEPT !.run = << >>, !.failed = TRUE, !.refused = refused]} ELSE {}

Flushed(b) == IF b.run = << >> THEN {b} ELSE Sent(b) \cup Failed(b)

\* A mutant: no limit.
AppendedAlways(b, piece) == {[b EXCEPT !.run = Append(@, piece)]}

\* The run goes as a call of its own when the piece would not fit.
Appended(b, piece) ==
    LET room == IF Len(b.run) >= RunLimit THEN Flushed(b) ELSE {b}
    IN {IF c.failed THEN c ELSE [c EXCEPT !.run = Append(@, piece)] : c \in room}

Closed(b) ==
    IF b.refreshes = << >> THEN {b}
    ELSE {[c EXCEPT !.refreshes = << >>] : c \in Appended(b, b.refreshes)}

-----------------------------------------------------------------------------
(* Execute.                                                                *)

\* The sequences made of some kinds only.
Of(kinds) == {i \in Inputs : \A s \in Range(i) : s.kind \in kinds}

\* The tables whose creation the statements ask for.
Named(statements) == {s.table : s \in {r \in Range(statements) : r.kind = "ddl"}}

\* Rows are held behind a marker, and writes through Query rewritten, only with
\* the rewrite on; a read is no part of a batch.  Earlier batches and other
\* processes may have created what this one asks for, and the cache may know.
Init ==
    /\ input \in [statements : Of({"refresh", "retyped", "write", "rows", "ddl", "deletes", "drop", "unknown"}),
                  through : {"execute"}, rewrite : Rewrites \cap {TRUE}]
           \cup [statements : Of({"refresh", "retyped", "write", "ddl", "deletes", "drop", "unknown"}),
                 through : {"execute"}, rewrite : Rewrites \cap {FALSE}]
           \cup [statements : Of({"write", "drop", "unknown", "read"}) \ {<< >>},
                 through : {"query", "transaction"}, rewrite : Rewrites \cap {TRUE}]
    /\ at = 1
    /\ \E created \in SUBSET Named(input.statements) : \E cached \in SUBSET created :
          batch = [Empty EXCEPT !.created = created, !.cached = cached]
    /\ ended = FALSE

Going(through) == input.through = through /\ ~ended

Statement == input.statements[at]
Left == Len(input.statements) - at + 1

\* What the families of the rewrite recognise: inserts, updates and deletes, a
\* retyped column's statistics, drops, and the refresh of a column's statistics.
IsWrite(s) == s.kind \in {"write", "deletes"}
IsRetyped(s) == s.kind = "retyped"
Recognised(s) == input.rewrite /\ (IsWrite(s) \/ IsRetyped(s))
IsRefresh(s) == input.rewrite /\ s.kind = "refresh"
RecognisedDrop(s) == input.rewrite /\ s.kind = "drop"

\* A mutant: a column twice, and its later value, in one join.
JoinsAnyColumn(refreshes, s) ==
    /\ refreshes # << >>
    /\ Head(refreshes).column[1] = s.column[1]
    /\ Head(refreshes).exactness = s.exactness
\* A mutant: refreshes of two widths in one join.
JoinsAnyWidth(refreshes, s) ==
    /\ refreshes # << >>
    /\ Head(refreshes).column[1] = s.column[1]
    /\ \A r \in Range(refreshes) : r.column # s.column

Joins(refreshes, s) ==
    /\ refreshes # << >>
    /\ Head(refreshes).column[1] = s.column[1]
    /\ Head(refreshes).exactness = s.exactness
    /\ \A r \in Range(refreshes) : r.column # s.column

Gather ==
    /\ Going("execute") /\ Left > 0
    /\ IsRefresh(Statement)
    /\ \E b \in IF Joins(batch.refreshes, Statement) THEN {batch} ELSE Closed(batch) :
          /\ batch' = IF b.failed THEN b ELSE [b EXCEPT !.refreshes = Append(@, Statement)]
          /\ at' = at + 1
    /\ ended' = batch'.failed
    /\ UNCHANGED input

\* The user's inlined rows, held by WriteNewInlinedData behind their marker.
AppendRows ==
    /\ Going("execute") /\ Left > 0
    /\ Statement.kind = "rows"
    /\ \E b \in Closed(batch) : batch' \in IF b.failed THEN {b} ELSE Appended(b, <<Statement>>)
    /\ at' = at + 1
    /\ ended' = batch'.failed
    /\ UNCHANGED input

\* The inlined deletion table is created at once, outside the transaction,
\* unless the catalog's cache says it is there.  The call that creates it throws
\* if it fails, and the run is never sent.
CreateDeletionTable ==
    /\ Going("execute") /\ Left > 0
    /\ Statement.kind = "ddl"
    /\ \E b \in Closed(batch) :
          batch' \in IF b.failed \/ Statement.table \in b.cached THEN {b}
                     ELSE {[b EXCEPT !.created = @ \cup {Statement.table}, !.cached = @ \cup {Statement.table}]}
                          \cup IF Failures THEN {[b EXCEPT !.run = << >>, !.failed = TRUE]} ELSE {}
    /\ at' = at + 1
    /\ ended' = batch'.failed
    /\ UNCHANGED input

\* A mutant: what the call before it came to is not asked.
AppendWriteRegardless ==
    /\ Going("execute") /\ Left > 0
    /\ Recognised(Statement)
    /\ \E b \in Closed(batch) : batch' \in Appended([b EXCEPT !.failed = FALSE], <<Statement>>)
    /\ at' = at + 1
    /\ ended' = FALSE
    /\ UNCHANGED input

AppendWrite ==
    /\ Going("execute") /\ Left > 0
    /\ Recognised(Statement)
    /\ \E b \in Closed(batch) : batch' \in IF b.failed THEN {b} ELSE Appended(b, <<Statement>>)
    /\ at' = at + 1
    /\ ended' = batch'.failed
    /\ UNCHANGED input

\* A mutant: the drop is recorded before it joins the run.
AppendDropRecorded ==
    /\ Going("execute") /\ Left > 0
    /\ RecognisedDrop(Statement)
    /\ \E b \in Closed(batch) :
          batch' \in IF b.failed THEN {b}
                     ELSE Appended([b EXCEPT !.dropped = @ \cup {Statement.name}], <<Statement>>)
    /\ at' = at + 1
    /\ ended' = batch'.failed
    /\ UNCHANGED input

AppendDrop ==
    /\ Going("execute") /\ Left > 0
    /\ RecognisedDrop(Statement)
    /\ \E b \in Closed(batch) : \E c \in IF b.failed THEN {b} ELSE Appended(b, <<Statement>>) :
          batch' = IF c.failed THEN c ELSE [c EXCEPT !.dropped = @ \cup {Statement.name}]
    /\ at' = at + 1
    /\ ended' = batch'.failed
    /\ UNCHANGED input

\* What the rewrite does not take: the run first, then DuckDB's own way, which
\* creates what it writes to and keeps its own cache.
ToBase ==
    /\ Going("execute") /\ Left > 0
    /\ Statement.kind \notin {"rows", "ddl"}
    /\ ~Recognised(Statement) /\ ~RecognisedDrop(Statement)
    /\ ~IsRefresh(Statement)
    /\ \E b \in Closed(batch) : \E c \in IF b.failed THEN {b} ELSE Flushed(b) :
          batch' \in IF c.failed THEN {c}
                     ELSE {[c EXCEPT !.db = Apply(c.db, Statement)]}
                          \cup IF Failures THEN {[c EXCEPT !.failed = TRUE]} ELSE {}
    /\ at' = at + 1
    /\ ended' = batch'.failed
    /\ UNCHANGED input

Finish ==
    /\ Going("execute") /\ Left = 0
    /\ \E b \in Closed(batch) : batch' \in IF b.failed THEN {b} ELSE Flushed(b)
    /\ ended' = TRUE
    /\ UNCHANGED <<input, at>>

-----------------------------------------------------------------------------
(* RewriteWriteStatement: writes that come through Query, or through       *)
(* ExecuteInTransaction.                                                   *)

Throughs == {"query", "transaction"}
AllRecognised == \A s \in Range(input.statements) : Recognised(s) \/ RecognisedDrop(s)

\* One statement that is not ours leaves the whole string to the base.
WholeToBase ==
    /\ \E t \in Throughs : Going(t)
    /\ Left > 0 /\ ~AllRecognised
    /\ batch' = [batch EXCEPT !.db = Reference(@, input.statements, Len(input.statements))]
    /\ at' = Len(input.statements) + 1 /\ ended' = TRUE
    /\ UNCHANGED input

Pieces(n) == [i \in 1 .. n |-> <<input.statements[at + i - 1]>>]

DroppedSoFar(b, run) == b.dropped \cup Drops(run)

\* A call per run; the tables dropped are invalidated after the last.
SendRun ==
    /\ Going("query") /\ Left > 0 /\ AllRecognised
    /\ LET n == IF Left < RunLimit THEN Left ELSE RunLimit
           b == [batch EXCEPT !.run = Pieces(n), !.dropped = DroppedSoFar(batch, Pieces(n))]
           kept == [b EXCEPT !.dropped = {}]
       IN /\ \E c \in Sent(kept) \cup Failed(kept) :
                batch' = IF c.failed THEN c
                         ELSE IF n < Left THEN [c EXCEPT !.dropped = b.dropped]
                         ELSE [c EXCEPT !.stale = @ \ b.dropped]
          /\ at' = at + n
          /\ ended' = (n = Left \/ batch'.failed)
    /\ UNCHANGED input

\* A mutant: the string goes in runs, each a transaction of its own.
SendInRuns ==
    /\ Going("transaction") /\ Left > 0 /\ AllRecognised
    /\ LET n == IF Left < RunLimit THEN Left ELSE RunLimit
       IN /\ batch' \in Flushed([batch EXCEPT !.run = Pieces(n)])
          /\ at' = at + n
          /\ ended' = (n = Left \/ batch'.failed)
    /\ UNCHANGED input

\* One call, one transaction: XACT_ABORT takes back all of it on an error.
SendAtOnce ==
    /\ Going("transaction") /\ Left > 0 /\ AllRecognised
    /\ batch' \in Flushed([batch EXCEPT !.run = Pieces(Left), !.dropped = Drops(Pieces(Left))])
    /\ at' = Len(input.statements) + 1
    /\ ended' = TRUE
    /\ UNCHANGED input

Next ==
    \/ Gather \/ AppendRows \/ CreateDeletionTable \/ AppendWrite \/ AppendDrop \/ ToBase \/ Finish
    \/ WholeToBase \/ SendRun \/ SendAtOnce

Spec == Init /\ [][Next]_vars

-----------------------------------------------------------------------------
(* Properties.                                                             *)

\* Every variable keeps its type, and a run its length.
TypeOK ==
    /\ at \in 1 .. Len(input.statements) + 1
    /\ Len(batch.run) <= RunLimit
    /\ batch.failed \in BOOLEAN /\ ended \in BOOLEAN
    /\ DOMAIN batch.db.stats = Column

\* Nothing is lost, doubled, or out of order: what the server holds, with what
\* is still gathered sent after it, is what DuckLake's statements leave one by
\* one - whatever was joined, cut or handed to the base in between (Execute).
InOrder ==
    ~batch.failed =>
        RunOutcomes(batch.db, batch.created,
                    batch.run \o (IF batch.refreshes = << >> THEN << >> ELSE <<batch.refreshes>>))
            = {Reference(Empty.db, input.statements, at - 1)}

\* At its end nothing is left to send, and the extension's cache names no table
\* the batch dropped (InvalidateTableCache after the run that dropped it).
EndsClean ==
    ended /\ ~batch.failed => batch.run = << >> /\ batch.refreshes = << >> /\ batch.stale = {}

\* The rewrite writes nothing the server refuses: a call fails for a reason of
\* its own, never by refreshes of two widths in one join or a deletion table that
\* is not there (CoalescedColumnStatsRefresh, Execute).  And the cache that says
\* it is there is left as true as it was found, though the batch fails after
\* creating one: the next batch goes by it.
NeverRefused == ~batch.refused /\ batch.cached \subseteq batch.created

\* Nothing is sent after a call that failed: its transaction is gone, and what
\* came after would be a commit of its own (the early returns of Execute).
FailureEndsIt == [][batch.failed => UNCHANGED batch]_vars

\* What came through ExecuteInTransaction happened all or not at all: never a
\* registration deleted and its table still there.
AllOrNothing ==
    input.through = "transaction" =>
        batch.db \in {Empty.db, Reference(Empty.db, input.statements, Len(input.statements))}
=============================================================================
