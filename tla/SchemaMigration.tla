-------------------------- MODULE SchemaMigration --------------------------
(***************************************************************************)
(* The startup of a Standard backend: make the artifact directories, bring *)
(* the product database forward along the chain of twelve revisions,       *)
(* verify the schema without writing, and only then serve.                 *)
(*                                                                         *)
(* SQLite makes every DDL statement durable by itself; alembic commits the *)
(* row that stamps a revision after the last statement of it.  A process   *)
(* stopped between two of them leaves half a revision, which the next      *)
(* startup meets.  An object is a table with its indexes, or the guard of  *)
(* a table: the triggers that make it append-only.                         *)
(***************************************************************************)
EXTENDS Naturals, Sequences, FiniteSets

CONSTANT Populated  \* the revisions at which a database with rows may be found

----------------------------------------------------------------------------
(* The chain of revisions.                                                 *)

Table(t) == [op |-> "table", on |-> t]
Guard(t) == [op |-> "guard", on |-> t]
Tables(ts) == [i \in DOMAIN ts |-> Table(ts[i])]
Guards(ts) == [i \in DOMAIN ts |-> Guard(ts[i])]

AccountTables    == << "paper_accounts", "paper_account_events" >>
PostingTables    ==
  << "paper_cash_ledger_entries", "paper_position_ledger_entries",
     "paper_account_creation_keys" >>
ProjectionTables == << "paper_account_projections", "paper_account_position_projections" >>
EvidenceTables   == << "paper_account_snapshots", "paper_account_reconciliations" >>
LedgerTables     == AccountTables \o PostingTables \o ProjectionTables \o EvidenceTables
LedgerGuards ==
  << "paper_account_events", "paper_cash_ledger_entries", "paper_position_ledger_entries",
     "paper_account_creation_keys", "paper_account_snapshots",
     "paper_account_reconciliations", "paper_accounts" >>
CalendarTables == << "trading_calendars", "trading_sessions" >>
MarketTables ==
  << "market_data_events", "market_data_replays", "market_data_replay_events" >>
MarketGuards ==
  << "market_data_events", "market_data_replay_events", "market_data_replays" >>
SignalTables   == << "strategy_signals", "order_intents" >>
DecisionTables == << "pre_trade_risk_decisions", "strategy_order_command_receipts" >>
OrderTables    == SignalTables \o DecisionTables
AttemptTables  == << "paper_execution_orders", "paper_execution_attempts" >>
FillTables     ==
  << "paper_execution_fills", "paper_execution_settlement_links",
     "paper_execution_command_receipts" >>
ExecutionTables == AttemptTables \o FillTables
WorkTables      == << "paper_runtime_work", "paper_runtime_checkpoints" >>
TrailTables     == << "paper_runtime_events", "paper_runtime_command_receipts" >>
RuntimeGuards   == WorkTables \o TrailTables

\* The vocabulary of three ledger tables grows: each is copied, dropped (its guard with it)
\* and put back, and at the end their guards are created where they are missing.
Rebuilt ==
  << "paper_account_events", "paper_cash_ledger_entries", "paper_position_ledger_entries" >>
\* A mutant: the rows are not carried over.
RebuildEmpty(t) ==
  << [op |-> "copy", on |-> t], [op |-> "drop", on |-> t], [op |-> "rename", on |-> t] >>
Rebuild(t) ==
  << [op |-> "copy", on |-> t], [op |-> "fill", on |-> t],
     [op |-> "drop", on |-> t], [op |-> "rename", on |-> t] >>
ExpandVocabulary ==
  Rebuild(Rebuilt[1]) \o Rebuild(Rebuilt[2]) \o Rebuild(Rebuilt[3])
    \o [i \in 1..3 |-> [op |-> "guard if missing", on |-> Rebuilt[i]]]

Chain ==
  << << >>,
     << Table("artifact_index_entries") >>,
     << Table("paper_jobs") >>,
     << Table("paper_job_submission_keys"), Table("paper_job_attempts") >>,
     << Table("paper_job_result_references") >>,
     << Table("portfolio_reviews") >>,
     Tables(LedgerTables) \o Guards(LedgerGuards),
     Tables(CalendarTables) \o Guards(CalendarTables),
     Tables(MarketTables) \o Guards(MarketGuards),
     Tables(OrderTables) \o Guards(OrderTables),
     ExpandVocabulary \o Tables(ExecutionTables) \o Guards(ExecutionTables),
     << Table("paper_runtimes"), Guard("paper_runtimes") >>
       \o Tables(WorkTables \o TrailTables) \o Guards(RuntimeGuards) >>
Newest == 12

MigrationAssumption == Populated \subseteq 1..Newest

\* What the statements of the revisions up to r make.
Made(op, r) ==
  UNION {{Chain[v][i].on : i \in {j \in DOMAIN Chain[v] : Chain[v][j].op = op}} : v \in 1..r}

----------------------------------------------------------------------------
(* What the verifier asks for, listed apart from the chain.                *)

RequiredJobTables ==
  {"artifact_index_entries", "paper_jobs", "paper_job_submission_keys", "paper_job_attempts",
   "paper_job_result_references", "portfolio_reviews"}
RequiredAccountTables ==
  {"paper_accounts", "paper_account_events", "paper_cash_ledger_entries",
   "paper_position_ledger_entries", "paper_account_creation_keys",
   "paper_account_projections", "paper_account_position_projections",
   "paper_account_snapshots", "paper_account_reconciliations"}
RequiredOrderTables ==
  {"trading_calendars", "trading_sessions", "market_data_events", "market_data_replays",
   "market_data_replay_events", "strategy_signals", "order_intents",
   "pre_trade_risk_decisions", "strategy_order_command_receipts"}
RequiredExecutionTables ==
  {"paper_execution_orders", "paper_execution_attempts", "paper_execution_fills",
   "paper_execution_settlement_links", "paper_execution_command_receipts", "paper_runtimes",
   "paper_runtime_work", "paper_runtime_checkpoints", "paper_runtime_events",
   "paper_runtime_command_receipts"}
RequiredTables ==
  RequiredJobTables \union RequiredAccountTables \union RequiredOrderTables
    \union RequiredExecutionTables
RequiredGuards ==
  {"paper_accounts", "paper_account_events", "paper_cash_ledger_entries",
   "paper_position_ledger_entries", "paper_account_creation_keys", "paper_account_snapshots",
   "paper_account_reconciliations", "trading_calendars", "trading_sessions",
   "market_data_events", "market_data_replay_events", "market_data_replays",
   "strategy_signals", "order_intents", "pre_trade_risk_decisions",
   "strategy_order_command_receipts", "paper_execution_orders", "paper_execution_attempts",
   "paper_execution_fills", "paper_execution_settlement_links",
   "paper_execution_command_receipts", "paper_runtimes", "paper_runtime_work",
   "paper_runtime_checkpoints", "paper_runtime_events", "paper_runtime_command_receipts"}

----------------------------------------------------------------------------
(* The workspace and the process.                                          *)

VARIABLES
  db,    \* [rev, tables, guards, rows]: rows holds the tables the user's rows are in
  dirs,  \* the artifact directories there are
  demo,  \* the root carries the identity of a Demo installation
  at,    \* where the process is: stopped, reading, upgrading, verifying, serving, refused
  next,  \* the next statement of the revision being applied
  kept   \* the tables that ever held rows of the user (history)

vars == <<db, dirs, demo, at, next, kept>>

NoFile == [rev |-> 0, tables |-> {}, guards |-> {}, rows |-> {}, file |-> FALSE]
\* The table a batch operation copies a rebuilt table to.
Copy(t) == CASE t = Rebuilt[1] -> "_alembic_tmp_paper_account_events"
             [] t = Rebuilt[2] -> "_alembic_tmp_paper_cash_ledger_entries"
             [] t = Rebuilt[3] -> "_alembic_tmp_paper_position_ledger_entries"
Artifacts == {"research", "evidence", "paper"}

Whole(r) ==
  [rev |-> r, tables |-> Made("table", r), guards |-> Made("guard", r),
   rows |-> Made("table", r), file |-> TRUE]
\* Found with a trigger dropped by hand, at the head.
Damaged == [Whole(Newest) EXCEPT !.guards = @ \ {"paper_account_events"}]

Init ==
  /\ db \in {NoFile, Damaged} \union {Whole(r) : r \in Populated}
  /\ demo \in BOOLEAN
  /\ dirs = IF db.file THEN Artifacts ELSE {}
  /\ at = "stopped" /\ next = 1
  /\ kept = db.rows

Refuse == at' = "refused" /\ UNCHANGED next

\* start_local_backend, prepare_standard_workspace: one directory after the other.
Start ==
  /\ at \in {"stopped", "refused"}
  /\ at' = "preparing"
  /\ UNCHANGED <<db, dirs, demo, next, kept>>

Prepare ==
  /\ at = "preparing"
  /\ IF dirs = Artifacts THEN at' = "reading" /\ UNCHANGED dirs
     ELSE /\ \E d \in Artifacts \ dirs : dirs' = dirs \union {d}
          /\ UNCHANGED at
  /\ UNCHANGED <<db, demo, next, kept>>

\* An existing file must carry exactly one approved revision; the upgrade opens the file.
ReadRevision ==
  /\ at = "reading"
  /\ IF db.file /\ db.rev = 0 THEN Refuse /\ UNCHANGED db
     ELSE /\ at' = "upgrading" /\ next' = 1
          /\ db' = [db EXCEPT !.file = TRUE]
  /\ UNCHANGED <<dirs, demo, kept>>

\* Whether a statement can be executed, and what it makes of the database.
Executable(s) ==
  CASE s.op = "table" -> s.on \notin db.tables
    [] s.op = "guard" -> s.on \in db.tables \ db.guards
    [] s.op = "copy" -> s.on \in db.tables /\ Copy(s.on) \notin db.tables
    [] OTHER -> TRUE
Moved(S, a, b) == IF a \in S THEN (S \ {a}) \union {b} ELSE S
Executed(s) ==
  CASE s.op = "table" -> [db EXCEPT !.tables = @ \union {s.on}]
    [] s.op \in {"guard", "guard if missing"} -> [db EXCEPT !.guards = @ \union {s.on}]
    [] s.op = "copy" -> [db EXCEPT !.tables = @ \union {Copy(s.on)}]
    [] s.op = "fill" ->
         [db EXCEPT !.rows = IF s.on \in @ THEN @ \union {Copy(s.on)} ELSE @]
    [] s.op = "drop" ->
         [db EXCEPT !.tables = @ \ {s.on}, !.guards = @ \ {s.on}, !.rows = @ \ {s.on}]
    [] s.op = "rename" ->
         [db EXCEPT !.tables = Moved(@, Copy(s.on), s.on), !.rows = Moved(@, Copy(s.on), s.on)]

Statements == Chain[db.rev + 1]

Execute ==
  /\ at = "upgrading" /\ db.rev < Newest /\ next <= Len(Statements)
  /\ IF Executable(Statements[next])
     THEN db' = Executed(Statements[next]) /\ next' = next + 1 /\ UNCHANGED at
     ELSE Refuse /\ UNCHANGED db
  /\ UNCHANGED <<dirs, demo, kept>>

Stamp ==
  /\ at = "upgrading" /\ db.rev < Newest /\ next > Len(Statements)
  /\ db' = [db EXCEPT !.rev = @ + 1]
  /\ next' = 1
  /\ UNCHANGED <<dirs, demo, at, kept>>

Upgraded ==
  /\ at = "upgrading" /\ db.rev = Newest
  /\ at' = "verifying"
  /\ UNCHANGED <<db, dirs, demo, next, kept>>

\* verify_product_schema: the revision, every table and every guard.
SchemaVerified ==
  db.rev = Newest /\ RequiredTables \subseteq db.tables /\ RequiredGuards \subseteq db.guards

Verify ==
  /\ at = "verifying"
  /\ at' = IF SchemaVerified /\ dirs = Artifacts /\ ~demo THEN "serving" ELSE "refused"
  /\ UNCHANGED <<db, dirs, demo, next, kept>>

\* The user works: rows come to every table.
Work ==
  /\ at = "serving"
  /\ db' = [db EXCEPT !.rows = RequiredTables]
  /\ kept' = kept \union RequiredTables
  /\ UNCHANGED <<dirs, demo, at, next>>

\* The process ends, wherever it is; what it has made durable stays.
Stop ==
  /\ at \notin {"stopped", "refused"}
  /\ at' = "stopped" /\ next' = 1
  /\ UNCHANGED <<db, dirs, demo, kept>>

Next ==
  \/ Start \/ Prepare \/ ReadRevision \/ Execute \/ Stamp \/ Upgraded \/ Verify \/ Work \/ Stop
Spec == Init /\ [][Next]_vars

----------------------------------------------------------------------------
(* Properties.                                                             *)

TypeOK ==
  /\ db.rev \in 0..Newest /\ db.file \in BOOLEAN
  /\ db.rows \subseteq db.tables /\ db.guards \subseteq db.tables
  /\ dirs \subseteq Artifacts /\ kept \subseteq RequiredTables
  /\ at \in {"stopped", "preparing", "reading", "upgrading", "verifying", "serving", "refused"}

\* A backend that serves has the whole product below it: the last revision, every table and
\* every append-only guard, no half-rebuilt ledger table, and no Demo identity; however often
\* an upgrade was interrupted on the way (start_local_backend verifies before it serves).
ServedIsWhole ==
  at = "serving" =>
    /\ db.rev = Newest /\ db.tables = RequiredTables /\ db.guards = RequiredGuards
    /\ dirs = Artifacts /\ ~demo

\* An upgrade loses no row: wherever it stops, the rows of a table are in the table, or in
\* the copy the rebuild of it has made (0011 drops three ledger tables to rebuild them).
RowsSurvive ==
  \A t \in kept : t \in db.rows \/ \E i \in 1..3 : t = Rebuilt[i] /\ Copy(t) \in db.rows

\* A refusal is for a cause that is in the workspace: a file without a revision, objects of a
\* revision that is not stamped, a copy left by a rebuild, a missing guard, a Demo identity.
\* So an upgrade stopped between two revisions, or within the rebuild once the table is
\* back in place, is resumed by the next startup.
HalfMade ==
  \/ db.file /\ db.rev = 0
  \/ ~(db.tables \subseteq Made("table", db.rev))
  \/ ~(db.guards \subseteq Made("guard", db.rev))
RefusedForCause ==
  at = "refused" =>
    HalfMade \/ demo \/ (db.rev = Newest /\ ~(RequiredGuards \subseteq db.guards))

\* However often an upgrade is stopped, it loses no row, what is served in the end is
\* whole, and a refusal has a cause that is in the workspace.
UpgradesKeepRows == TypeOK /\ RowsSurvive /\ ServedIsWhole /\ RefusedForCause

=============================================================================
