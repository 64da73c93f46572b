# A TLA+ model of El-Psy-Quant

El-Psy-Quant keeps paper-trading authority in one SQLite database: accounts, market
replays, strategy orders, execution orders, the runtimes that step them, paper jobs
and portfolio reviews. Several processes (the HTTP API, the command line, any number
of runtime workers) write to it, most of them in short `BEGIN IMMEDIATE`
transactions, and any of them may stop between two. These modules model what those
transactions do to the shared state, what happens to the files beside it, and what
may come in between.

## Inventory

| Part | State it keeps | Operations | What is hard about it |
|---|---|---|---|
| Durable paper runtime, M35 (`application/paper_runtime.py`, `paper_runtime/`, `persistence/paper_runtime_*`) | runtime row (desired and observed state, owner, fence, lease, version), Works, checkpoints, events, command receipts | create, start, stop, resume, recover; claim, renew, release; R1/R2/R3 recovery; Phase A, Step, Phase C | fencing of superseded workers, crashes between phases, a Stop that races a Step, Steps by hand, a clock that steps back |
| Runtime process (`cli.py`, `run_paper_runtime_process`) | none that lasts | claim and recover, iterate, release | may die or lose its lease anywhere |
| Runtime inspection (`application/paper_runtime_inspection.py`) | none | health, reconciliation, paged lists | asserts the consistency the writers must keep |
| Paper execution, M34 (`application/paper_execution.py`, `paper_execution/`, `persistence/paper_execution_*`) | orders, attempts, fills, settlement links, command receipts, and the evidence each was derived from | create order, step order, load a history | retries, orders that compete for an account head or a replay cursor, rounding, risk and settlement that decide apart |
| Market replay, M32 (`market_time/`, `persistence/market_time_*`) | event stream, cursor | start, pause, resume, next event, compare-and-swap of the checkpoint | one cursor, several processes and orders; shared events |
| Paper account, M31 (`application/paper_accounts.py`, `paper_account/`, `persistence/paper_account_*`) | event ledger with postings, head, projection, snapshots, reconciliations | create, cash and position movements, review links, freeze/reactivate/close, settlement, rebuild, detail and page reads | rules stated several times (writer, mapping, replay, cash replay, page reader), reads of many statements, rows restored piecemeal |
| Paper jobs (`application/paper_jobs.py`, `persistence/paper_job_*`, `api/routes/paper_jobs.py`) | job row, attempts, submission keys, result references, files | submit, claim, execute, complete, cancel, recover, retry, result | execution outside any transaction, zombie executors, files without rows, answers read in pieces, background tasks |
| Strategy orders, M33 (`application/strategy_order.py`, `strategy_order/`, `persistence/strategy_order_*`) | signals, intents, risk decisions, receipts | evaluate signal, derive intent, decide risk; read back | freshness of the account and market references they freeze; look-ahead; rows that rest on rows somebody has changed |
| Portfolio reviews (`application/portfolio_reviews.py`, `portfolio_review/`) | reviews, decisions, write-once files | create review, record decision | files and rows, racing decisions |
| Workspaces and migrations (`local_workspace.py`, `demo_workspace.py`, `persistence/schema.py`, `persistence/migrations/`) | directories, the schema and its revision, the installed Demo | startup: upgrade, verify, install, validate | stops between DDL statements, racing installers, restarts after use |
| HTTP API (`api/`) | log events, request counters | routes, translators, middleware, paging | errors after a commit, storage that comes and goes, rows that move between two pages |
| Lifecycle reviews, research, reporting, catalogues, web client | files | batch computations, listings | sequential |

How they interact. A runtime worker calls `step_order` of the execution service in a
transaction of its own, between its own Phase A and Phase C transactions; `step_order`
reads and writes the account ledger and the replay cursor in that transaction. The
HTTP API calls the same services: it may step an order that a runtime owns, move the
account of an order, or send a control command, between any two transactions of a
worker. M33 reads account and replay and stores what it froze of them; M34 orders
start from that. There are no messages between processes; all communication goes
through the database and, for jobs and reviews, through files.

What makes each correct:

* runtime: one attempt per Work; nobody without the unexpired claim writes; a Stop
  lets at most the Step already entered through; completed and blocked are final and
  mean what they say; a crash never leaves a runtime that no recovery can finish; one
  answer per command, and none carried out on a row its sender has not seen;
* execution: one attempt per expected version, one working order per account, replay
  and session, each replay event consumed once, each fill settled once, every stored
  history accepted by its own validator and no other; what the risk allows, the
  account settles;
* account: contiguous versions, mutations applied once per key, a projection that is
  current or known not to be, rows that load as they were written or not at all;
* jobs: at most one live attempt, a result that is there, an accepted run that is
  carried out and told;
* strategy orders: one moment per decision, allowed orders that fit the account;
* reviews and workspaces: whatever stops where, what is in the database can be
  reopened, what is installed is whole, what was there stays;
* API: answers and log agree, a listing is whole, a key is one command.

## Modules

| Module | Models | State and actions |
|---|---|---|
| `PaperRuntime` | one runtime, its order as it sees it, its worker processes | below |
| `PaperRuntimeControl` | the runtime row as all its writers see it | row, events, receipts, clock; `Control` and `ControlReplay` (create, start, stop, resume, recover), claims, `Transition`, `Work`, `Block`, `Tick`, `SetBack` |
| `OrderAuthority` | the abstract execution order | version, status, chain; `Attempt`, `Diverge` |
| `PaperExecution` | orders on shared accounts and replays, without money | below |
| `ExecutionEvidence` | the numbers: price, costs, risk, fills, settlement, and the load that derives all again | decisions, orders, attempts, fills, links, account ledger; `Decide`, `CreateOrder`, `StepOrder`, `AccountMoves` |
| `ExecutionRefinement` | `ExecutionEvidence` seen as `PaperExecution` | a refinement mapping |
| `PaperLedger` | the rules of an account's ledger, as pure operators | used by the next three and by `ExecutionEvidence` |
| `PaperAccount` | account row, ledger, projection, evidence, readers | `Create`, `Mutate` and their repetitions, `RebuildProjection`, `CreateSnapshot`, `ReconcileProjection`, `Damage`, and a read of five statements |
| `PaperTrades` | `PaperAccount` and `ExecutionEvidence`, side by side, for the proofs | theirs |
| `StoredLedger` | the rows of one account, table by table, and its three readers | `CommitHere`, `CommitThere` (the program on a copy), `CopyOut`, `PutBack`, `PutBackEvent`, `Lose`, `Edit` |
| `KeyedCommands` | the abstract promise of idempotent commands | `First`, `Again` |
| `PaperJobSubmission` | racing submissions under a key | lookup, insert, failed insert, second look, crash |
| `PaperJob` | one job, its files and the requests on it | preflight, claim, execute (file by file), observe, finalize, retry, cancel, crash |
| `PaperJobRoutes` | what the routes answer and log | commit or refuse, three reads, finish, the background task, its audit, the result |
| `PaperJobs` | the three above, side by side | theirs |
| `MovingAverage` | the crossover strategy, as pure operators | used by `StrategyOrder` |
| `StrategyOrder` | M33 on one account and replay | `EvaluateSignal`, `DeriveIntent`, `EvaluateRisk`, account and replay moving on |
| `StrategyRecords` | the stored rows of M33 and what is read of them | `EvaluateSignal`, `DeriveIntent`, `EvaluateRisk` as what they store, `Moves`, `ByHand` (a row lost or changed) |
| `MarketReplay` | replays that several processes restore and checkpoint | add, restore, start, pause, resume, next event, replace checkpoint, drop |
| `StrategyOrders` | the three above, side by side | theirs |
| `PortfolioReview` | reviews, their rows and write-once files | every statement and every published file of a call, and a stop between any two |
| `SchemaMigration` | the startup of a Standard backend | prepare, read revision, one DDL statement, stamp, verify, serve, stop |
| `DemoInstall` | the startup of a Demo backend | inspect, claim, build in stages, validate, replace, verify, serve; fail, stop, intrude, use |
| `Workspace` | the three above, side by side | theirs |
| `ApiErrors` | the translators, as functions from errors to answers | used by `ApiBoundary` |
| `ApiBoundary` | one request from arrival to answer | arrive, authenticate, resolve, commit or replay or refuse, complete, send; crash, storage changes |
| `Pagination` | a listing read page by page | one query per collection, cursors, `Create`, `Extend`, `Change` |
| `HttpApi` | `ApiBoundary` and `Pagination`, side by side | theirs |

How they compose. `PaperRuntime` keeps of its order only version, status and whether
its chain is current. `OrderAuthority` is the contract between it and
`PaperExecution`: theorem `OrderUsed` says that everything `PaperRuntime` does to its
order is a step of `OrderAuthority`, theorem `Contract` that every order of
`PaperExecution`, seen through `View`, is one too. `ExecutionEvidence` in turn
implements `PaperExecution` (`FollowsExecution`, with the mapping of
`ExecutionRefinement`): what that leaves to choice, whether
a fill is allowed and what it fills, is computed there. `PaperAccount`,
`PortfolioReview` (`Creations`, `Settlements`), `PaperJobSubmission` and `ApiBoundary`
each implement `KeyedCommands`, at the service and again at the HTTP boundary, which
relies on the former. `ExecutionEvidence`
settles by the rules of `PaperLedger`, `StoredLedger` replays by them, and
`StrategyOrder` evaluates `MovingAverage`.

`PaperJobs`, `StrategyOrders`, `Workspace` and `HttpApi` put the modules of one part of
the system side by side: each keeps variables of its own, since what one of them knows
of another is an input it may get in any state (the routes, for instance, have a job of
their own whose status any commit may change). They state what the runs ask of the
modules they instantiate, and both the MC module and the proofs extend them, so that a
run and a theorem speak of one formula.

The MC modules give them a next-state relation where a run asks several questions: a
variable (`scene`, `question`, `kind`, `subject`, `component`) is chosen at the start
and never changes, and the variables of the other components keep their first state.
Each question has an instance with the constants it needs, so that no bound is shared
by questions that do not need it. A definition marked "Mutant" is a plausible bug; no
specification uses it, it is there to see that the properties notice it.

### PaperRuntime

One database transaction is one action. A worker is a program counter (`pc`) and
what it keeps in memory between two transactions: the fence it believes in
(`token`), the Work it holds (`item`) and whether it is still in recovery or in
the runner's loop (`role`).

| Action | Code (`application/paper_runtime.py`) |
|---|---|
| `CreateRuntime`, `StartRuntime`, `StopRuntime`, `ResumeRuntime` | `create_runtime`, `_mutate_existing` |
| `ClaimRuntime`, `RenewClaim`, `ReleaseClaim` | `claim_runtime`, `renew_runtime_claim`, `release_runtime_claim` |
| `Reconcile` | `_phase_r1_reconcile`; its verdict to block is carried out by `BlockRuntime` (`_transition_blocked`), a transaction of its own |
| `PhaseA` | `_phase_a_prepare` |
| `Confirm` | `_confirm_step_entry` (runner), the first statement of `_confirm_recovery_step_entry` (recovery): a read, not a write |
| `Look` | the rest of recovery's read, statement by statement, and what it makes of it |
| `StepOrder` | `step_order` of the execution service under the Work's key |
| `PhaseC` | `_phase_c_observe`, also R3 of recovery |
| `AssertClaim`, `SettleStopped` | the last look for a Stop, `_settle_stopped_before_step` |
| `ManualStep`, `AuthorityDiverges` | other users of the execution and account services |
| `LeaseLapses`, `Crash` | the clock, the operating system |

A Work is known by the execution version it expects: its identity and its M34
idempotency key are derived from that version. The lease is abstracted to its
status (unowned, active, expired) as `get_health` classifies it. A read that
asserts the claim took its clock before its snapshot, so it may pass on a lease
that has just expired (`ClaimReadAsCurrent`); a write takes its clock under the
lock and may not (`ClaimCurrent`). The runtime's era starts at the attempts older
than the runtime (`start`); with `ClockTies` an attempt may carry the runtime's
own timestamp, which the strict comparison counts as the runtime's.

Recovery's last read before its Step has no transaction around it
(`_confirm_recovery_step_entry`, `:1886`, in `_read`, `:1789`): runtime, Work, attempts,
fills, account and receipt are statements of their own. `Confirm` begins it and keeps
what it saw (`view`); `Look` ends it, with any version the order had in between, or, if
the order was moved meanwhile, with rows that do not belong together. That the code
takes for corruption (`:2214`), so that a Step of a superseded worker or by hand, or a
movement of the account, can block a sound runtime for good. The runner's read before a
Step is of one row, and errors of its other reads end its process (`Crash`).

Four history variables serve the properties alone: `overtaken`, whether an attempt was
ever made during such a look; `late`, the attempts that workers
made while the runtime was desired stopped or observed blocked; `bypassed`, whether an
attempt of the runtime's era was made by hand; `twins`, whether two processes of one
owner id were ever at work at once. The code forbids neither of the last two nor the
first, and the audits judge a runtime by what they may leave behind, so the properties
say where they make a difference.

### PaperExecution

`CreateOrder` and `StepOrder` of the code are one transaction each (`_write`, `BEGIN
IMMEDIATE`), so each accepted command is one action with everything it writes. A
command that is refused, or sent again under its own key, writes nothing and is no
action.

| Action | Code |
|---|---|
| `CreateOrder` | `_create_order_in_session`, no order with this digest yet; the orders of the market come from `list_orders`, the newest `ListLimit` of them |
| `CreateConverges` | the same, under another key, for an order that exists: a receipt and nothing else |
| `StepOrder` | `step_order`, with `step_paper_execution_order` as `RejectAtBoundary`, `NoFill`, `RejectByRisk` or `Fill`, then `settle` (the ledger), the replay checkpoint and the receipt |
| `StepConverges` | `step_order` under another key, for a version that has been attempted: a receipt |
| `AccountMoves` | `append_mutation` by anybody else: cash, positions, freeze, reactivation, closure |

`Replays(o)` is `load_historical_history`: every path reads an order through it and
refuses what it does not accept, so `HistoriesReplay` says that the writers never
lock themselves out. `Current(o)` is the comparison of account head and replay
cursor in `step_order`. Terminal orders and versions are derived from the attempts,
as in `lifecycle.py`.

Abstractions. Prices, costs and account balances are left out; whether the risk
revalidation of a fill allows it is a choice (`Fill` or `RejectByRisk`). Event times
and sessions are numbers, a trade event is one with a usable price. Command keys are
counted (`createReceipts`, `stepReceipts`), not named. An order intent names the
account version and the replay position it was taken at and is placed only there, so
both are recorded at creation. The account must also be active then; the model does
not keep the account's lifecycle and allows the creation. Nothing can come of the
difference after it: freezing an account moves its head, which the model has. Replay
cursors are moved by Steps alone, as in the running system. `list_orders` sorts by
creation time; `orders` is in the order of creation, which is the same as long as the
clock does not step back.

### PaperRuntimeControl

Every transaction reads the clock, replaces the whole row and appends an event that
holds the result. A command is told from another by its digest (what it asks for and
the row version it expects); the same request under another key converges on the event
it once caused. `compare_and_swap_runtime` refuses an `updated_at` that regresses:
`TimestampRegresses`. `Transition` and `Work` stand for what `PaperRuntime` has in
detail. With a clock that is set back between a claim and the reconciliation, the
refusal is taken for corruption and the runtime is blocked; `BlockedForCause` is
therefore asked only of behaviours without `SetBack`. A recovery's look at the order of
a Work may be torn (`PaperRuntime`), which here is any reconciliation of a runtime that
has a Work (`Worked`); `BlockedForCause` speaks of those that never had one.

### ExecutionEvidence

Money is counted in quanta (1E-8 in the code), quantities in units of which `Scale`
make a share, rates in parts of `FullRate`; with small scales every rounding of the
code happens at small numbers. A digest stands for the content it is taken of: what
names a record by its digest holds the record. One account and one instrument.
Sessions are times at which an intent's session closes. `Decide` freezes what an intent
saw of account and replay, and whether the risk before the trade allows it; an order is
placed (`CanHandOff`) on a decision that allows, while account and replay are still
where that decision saw them. An order names what was handed over, and its load looks
at each handoff again. An order whose price or gross
rounds to zero cannot be stepped (the cost record refuses it); `AllowedIsSettled`
excepts exactly that. An account that moves while an order works leaves it stuck.

### PaperLedger, PaperAccount, StoredLedger

`PaperLedger` states what commands post and the replay. `PaperAccount` keeps what the
replay makes of an event with the event, as neither changes. A command asks for a
version it has seen; what is stored under its key is the command, the version it
expected and the answer (`Repeatable`). Money and quantities are integers of any size,
as quanta of the code's decimals. A detail read is the row,
the events, the two kinds of postings and the projection, in five statements; a
command may commit between any two. `Damage` is a projection that is lost, restored
from before or changed in place.

`StoredLedger` takes the same account apart into its tables. The mapping
(`reconstruct_history`) applies every command again and replays what comes of it
(`Load`); a ledger page checks its rows alone (`Page`), and asks for a full load only
for settlements; the cash ledger has a replay of its own (`CashReplay`). A digest is
its content, a chain digest the sequence of the events it covers, an event id stands
for the header fields (keys, actors, timestamps). Commands are sent only before any
harm is done: a harmed store that loads is an honest one, and what does not load takes
no command. Pages check less than a load (no command is applied again, orphans and a
stale account row go unseen) and yet show only written events.

### Paper jobs

`PaperJob`: a request is a sequence of short transactions with file system calls
between them. Nobody knows whether an executor still lives, so a recovery may take its
job away while it goes on. A file is absent, being written, or whole; who wrote it is
kept for the properties. `PaperJobRoutes` takes an execution as one step, has no file
but the result, and asks what callers are told: a status read error after the commit
of a claim leaves a running job without executor until it is recovered, which is why
`RunIsCarried` excepts faults. Who serves a job (`service`) is chosen at the start: the
API's functions or the operator's own runs, and whether two of its transactions may
carry one timestamp. A recovery recognizes the row it looked at by its timestamp, so
`ResultIsThere` and `ResultStays` ask for timestamps that do not tie.

### StrategyOrder, MarketReplay

One account, one replay, any instruments. `expected_signal_time`, an optional extra
match, and formatting are left out; float means are compared as cross-multiplied sums
of integers, which is exact where the code's floats are. Calendars and sessions are a
flag of an event. In `MarketReplay` engines move in memory and store their checkpoint
where they still find the one they read.

`StrategyRecords` keeps the rows: each has its record (`payload_json`), the digest of it,
and columns that repeat parts of it. A reader derives everything again (`SignalHolds`,
`OrderHolds`, `DecisionHolds`), compares the columns, and holds a row against the one it
refers to; a repeated command is answered from such a reading. `ByHand` loses a row, or
changes a column, the payload, the payload with its digest, or the row as a whole,
towards another record that may be well made in itself. The commands are taken as what
they store, the account and the replay as the versions and positions they are at.

### PortfolioReview

A SELECT takes no lock; the first INSERT or UPDATE of a transaction takes SQLite's one
write lock. Documents are published while the transaction is open, and stay when it is
rolled back.

### SchemaMigration, DemoInstall

SQLite's DDL is durable statement by statement (alembic's non-transactional DDL); a
guard is the two triggers of a table, indexes belong to their table, the foreign-key
check of the rebuild is left out, and one process upgrades at a time. `DemoInstall`
records a part of a workspace by what the validators tell apart. A crash's leftover
staging directory blocks later installs, as in the code. Reseeding a Demo of revision
0004 is left out. `Use` is what the API lets users do with what the validators look at:
each use changes one part, and a part they will not recognize is `"amiss"`. Such uses
are another event on the seeded account, an order of the manual candidate under another
policy than the Demo's, a second one in its market, a working order whose account was
moved, and a step of the runtime's order by hand; `surprises` remembers them.

### ApiErrors, ApiBoundary, Pagination

Services are abstracted to `KeyedCommands`: a transaction is one step, a refusal any
error of the family's translator. Events of an account share one key space. Stored
results fit their schemas; malformed JSON is not modelled. As in the code, an absent
execution order of a runtime is answered 503 `paper_runtime_authority_corrupt`, an
unreadable account file 500. A cursor is the fields it carries: the checksum makes any
other text refused. Others write as long as the client reads: an answer is compared with
the rows it was told of. The look for a cursor's row and the page are one step; a ledger
page read in several statements is the matter of `PaperAccount`.

## Runs

`CHECK_DEADLOCK FALSE` everywhere: runtimes, orders, jobs and requests end, and the
bounds stop the rest.

| Run | Question |
|---|---|
| `runtime_safety` | Two workers of different owner ids, with somebody who may step the order by hand at times that may tie ("apart"), or of one owner id ("shared"): `FenceNamesOwner`, `WorkExecutedOnce`, `StopAdmitsOneStep`, `EndsAreJustified`, `OnlyHolderWrites`, `EndsAreFinal` |
| `liveness` | Under the fairness below: `StopSettles`, `RuntimeEnds`, `OrdersAndAttemptsEnd` |
| `execution_safety` | Four orders on one replay, three of them on one market: `OneWorkingOrder`, `HistoriesReplay`, `NothingTwice`, `AnswersKept`, `OrdersKeepContract` (refinement of `OrderAuthority`) |
| `evidence` | Up to two of six orders at every price of every trade: `AllowedIsSettled`, `TradesAreRight`, `RowsAreJudged`, `FollowsExecution` (refinement of `PaperExecution`) |
| `control` | Repeated commands; commands and two processes with a clock that is set back; blocks with a clock that is not: `AnswersAgree`, `LastWordHolds`, `HistoryIsSound` |
| `account` | Ledgers, promises, projections, readers, rows: `LedgersAreSound`, `ProjectionsAreHonest`, `RowsAreSound`, `CommandsKeepPromises` (refinement of `KeyedCommands`) |
| `jobs` | An API job, the operator's own runs, submissions, routes: `JobIsSound`, `WinnersStay`, `SubmissionsAreSound`, `SubmissionsKeepPromise` (refinement of `KeyedCommands`), `RoutesTellTheJob` |
| `orders` | A chain of M33 commands, commands under keys, stored rows changed by hand, one replay, two replays: `CommandsConverge`, `AllowedOrdersAreRight`, `RecordsAreSound`, `EventsHandedOutOnce` |
| `workspace` | Demo, upgrade, creating and deciding on reviews: `DemoInstallsWhole`, `UpgradesKeepRows`, `ReviewsReopen` |
| `api` | A request of every operation with every error, two requests under one key, every listing: `LogTellsAnswers`, `RoutesKeepPromise` (refinement of `KeyedCommands`), `ListingsAreWhole` |
| `shared_settle` (violation) | A Stop settled over a completed runtime by a process that shares the claim |
| `account_corrupt` (violation) | A detail read that calls a sound account corrupt |

### Bounds, and why they are enough

Each bound is a guard of the action it bounds.

* Runtime. Two workers are enough for every race the code has to lose: one superseded
  (or sharing) and one current; a third adds only another superseded one. Two attempts
  (`MaxVersion`) give a first, a middle and a terminal state. Three fences let a
  takeover be taken over. `MaxFaults` crashes and lapses; `MaxIdleFence` claims while
  there is nothing to do, so that a liveness run does not use up its fences before
  anything is started. In `liveness` the fences suffice for every claim the one fault
  and the one idle claim allow, so the bound alone keeps nobody from claiming.
* Execution. One order that works, one that ended, one that waits and one that
  disturbs. The replay has each edge: a trade last, an event that is no trade, a
  session that ends before it. Caps leave remainders. `ListLimit = 1` makes the newest
  order hide all others, as 200 orders would in the code. `MaxRepeats` and `MaxMoves`
  bound converged commands and other account events.
* Evidence. Three prices, a scale of four and rates in tenths make every rounding
  direction happen, ties included; the six intents have caps, limits on quantity and
  notional, a session that ends early, a sale of everything and one of dust. At most
  `MaxDecisions` intents are decided on, so that decisions whose account or replay has
  moved on since are among them.
* Control. Three row versions and four events are a creation, a claim and a command,
  and one event more for what repeats or is recorded beside them; a block needs a fourth
  version, for its transition. A lease of one tick lapses, and is taken over, within
  two.
* Account. Five events reach a partial sale after two purchases and a closure after a
  sale. Keys of one account are used one after the other (`InTurn`), and keys of the
  promise question in the order of their numbers (`Renamed`): which key is which makes
  no difference, and the rules look at a key only to find its event. Three rows and
  two harms are the least in which a table of one history meets one of another;
  `FewCommits` allows both histories one event of their own after a shared one.
* Jobs. Three requests are an executor, one that displaces it and one that looks on;
  two attempts let a retry meet a zombie. The operator's runs and submissions are by
  no more than two requests at once.
* Orders. The stream crosses upwards and downwards and holds a quote, another
  instrument and a trade outside the session. `MaxMoney` bounds notionals as the
  code's decimals do. Three receipts (`MaxReceipts`) are a signal, its intent and its
  decision. One row is changed by hand (`MaxHarm`); with two, a receipt and the row it
  names can be made to agree on another answer, which no reader could notice, so
  `AnswersStay` is false of the code then; the other parts of `RecordsAreSound` do not
  need the bound.
* Workspace. Two installers, one failure, stop and intrusion each; a page of two
  records instead of 200, so that after one signal more the seeded one is still found and
  after two it is not. The upgrade starts at each revision that adds something to
  what a stop can leave behind. Two review workers, up to five calls
  and two stops; commands are those of one of two sets, so that creating is looked at
  with every kind of collision and deciding with racing decisions on two reviews.
* API. One crash and one change of the storage per request; pages of one and two rows
  over three, with ties and two changes between them: with one, a runtime that has left
  its state could not have come back to it.

Symmetry is used in safety runs only, over sets whose members no definition names
apart.

### Fairness

A process that runs goes on running (`WF` of its steps): the loop of
`run_claimed_runtime` has no wait in it but the database's. Time passes (`WF` of
`LeaseLapses`). Whoever operates the runtime starts a worker again when there is none
(`WF` of `ClaimRuntime`): the operations guide asks for it, the code does not do it,
and without it nothing is promised after a crash. Nobody is assumed to send control
commands, and crashes and divergence are never fair. Orders are stepped (`WF` of
`StepOrder`): that is what `run_claimed_runtime` does with an order. A request that
executes a job goes on (`WF` of `Execute`); nobody has to send one. The three are
checked side by side in `MCLiveness`, each under the fairness of its own component.

## What the runs showed

Two disagreements are runs of their own:

* `shared_settle`. `paper_runtime_inspection.py` asserts that a runtime has a
  `runtime_completed` event exactly when it is observed completed.
  `_settle_stopped_before_step` does not look at the observed state; two processes with
  the same owner id share a claim; one completes, the other settles a Stop.
* `account_corrupt`. A detail read takes row and events in two statements outside a
  transaction; a command that commits between them makes it report corruption, on
  which the operations guide says the workspace is to be restored or reset.

Others were met while modelling, and are left out of the properties at the place named:

* A Step by hand between R1 and Phase A lets the runner, whose audit is the weaker
  one, complete what the next recovery blocks (`paper_runtime.py:1969`, `:2024`);
  `EndsAreFinal` excepts a runtime that an attempt has `bypassed`, and one whose
  processes share an owner id.
* `docs/sprints/sprint-165` says "Before Run, either existing file or a compact result
  reference blocks claim"; the files are looked at before the claim's transaction, and
  may appear in between. `WinnersStay` asks what holds: success is registered only for
  files of the own attempt.
* `market_time_not_found` and `market_time_invalid` are answered by routes but missing
  from `STABLE_API_ERRORS`, which `api/error_inventory.py:1` calls complete. These
  routes are not among `ApiBoundary`'s families. They are not in `API_OPERATIONS`
  either and so are logged as unmatched.
* A clock set back between a claim and the reconciliation is taken for corruption
  (above, `PaperRuntimeControl`).
* `docs/operations/local-install-upgrade-and-recovery.md:320` says that an explicit
  mutation by the Founder persists across another restart. After some that the API
  accepts the next startup refuses the Demo it served, for good: any event on the seeded
  account (`_validate_*` of `demo_workspace.py` wants it as seeded), an order of the
  manual candidate under another execution policy (`:3527`) or a second one in its market
  (`:3502`), a step of the seeded runtime's order by hand, a movement of the account of a
  working order, and more signals than the page of 200 the seeded one is looked for on.
  `RestartServes` says so of each of them, and that nothing else makes a startup refuse;
  a run of its own for the disagreement would find what this one already says.
* Recovery can block a sound runtime as `operational_authority_corrupt`, for good, when
  an attempt or an account movement commits during its last read (above, `PaperRuntime`).
  `BlockIsJustified` and `RunEnds` say when.
* The branch of `step_paper_execution_order` for a replay that is already at its end
  (`stepping.py:512`) is never taken (theorem `HasEvent`).
* An order whose account or replay was moved by somebody else works for good: no
  command ends it and its market takes no new order. `OrdersAndAttemptsEnd` excepts it.

## Proofs

TLAPS proves these for every value of the constants; TLC checked each formula and each
inductive invariant first. Each `..._proofs` module is about the module it is named
after. The shape is the same throughout: lemmas on the operators, one lemma per action
for each part of the invariant the action can disturb, then the theorem.

`PaperRuntime_proofs.tla`, for any set of workers and owners and any bounds:

* `Typing`: `Spec => []TypeOK`.
* `Fencing`: `Spec => []FenceNamesOwner`. Not inductive alone: a new fence could meet
  a token somebody already believes in. `FenceInv` adds that no token exceeds the
  row's fence and that a worker whose token equals it runs under the row's owner
  (or the row has none).
* `ExecutedOnce`: `Spec => []WorkExecutedOnce`. `WorkInv` adds what a worker about to
  observe knows: its Work has a receipt, and the Work it holds exists.
* `OneLateStep`: `Spec => []StopAdmitsOneStep`. `StopInv` counts the workers that may
  still enter a Step: a late attempt uses up the version every other worker's Work
  expects, so the next Step converges instead of adding one.
* `HolderWrites`: `Spec => OnlyHolderWrites`, action by action.
* `OrderUsed`: `Spec => Authority!Spec`, the order of a runtime stays within
  `OrderAuthority`.
* `Tracks`: `[]WorksTrackAttempts`, by `OrderInv` and `WorksInv` (Works lie in the
  runtime's era or are the next attempt; only the newest lacks its checkpoint).
* `JustEnds`: `[]EndsAreJustified`, `FinalEnds`: `EndsAreFinal`. Neither stands alone:
  what an audit reads is right only if the Works are the attempts, and they are only
  while nobody writes after an end. `EndsInv` says what the holder of the claim knows at
  each step (`HolderKnows`) and that a verdict of corruption has an attempt without a
  Work, a chain that diverged or a torn look; `Exclusive` that, but for `twins`, the holder is one process; `StaleInv` that a
  verdict of staleness has a chain that diverged, for good.

`PaperExecution_proofs.tla`, for any orders, accounts, replays, streams, sessions and
bounds that satisfy `ExecutionAssumption`. Two lemmas carry most of it: `StepMakes`
(the four kinds of attempt share one shape, `Makes`) and `Growing` (nothing stored is
taken back).

* `Typing`: `Spec => []TypeOK`; the quantities need `filled <= Requested`, which comes
  from the guard that the history replays.
* `Histories`: `[]HistoriesReplay`. `HistInv` adds that an account has an event.
* `OneWorking`: `[]OneWorkingOrder`. Not inductive, as a create looks at the newest
  orders only; `QueueInv` says every order of a market but its newest has ended.
* `NothingIsDoneTwice`: `[]NothingTwice`, from `Settlements` (`[]FillsSettledOnce`, by
  `SettledInv`: a settlement's version is an attempt whose link names that very event)
  and `Consumption` (`[]EventsConsumedOnce`, by `ConsumedInv`: no attempt is past the
  cursor).
* `HasEvent`: `[]WorkingHasEvent`, by `ChainInv`: account and replay are never behind
  an order, and a working order has consumed one event per attempt but not the last.
* `Answers`: `AnswersKept`, by `ReceiptsInv`: a receipt for all there is.
* `Contract`: `OrdersKeepContract`, the refinement of `OrderAuthority`, from `ChainInv`:
  it bounds the attempts by the events and keeps a chain once left from being found
  again.

The abstract specification is stated in `OrdersKeepContract` as its initial condition
and its steps, one formula for all orders: that is the form in which TLC evaluates it.

`PaperRuntimeControl_proofs.tla`, for any processes, keys, policies and bounds:

* `Typing`: `[]TypeInv`; beside the types, no fence is ahead of the version it was given
  out with.
* `LastWord`: `[]LastWordHolds`, by `LastInv`: the last event that is a command's wants
  what the row wants. Every process replaces the whole row; the compare-and-swap is what
  keeps it from taking a command back.
* `Agreement`: `[]AnswersAgree`, by `AnswerInv`: a stored command expected a version
  before the row's and its answer is its event.
* `History`: `[]HistoryIsSound`, by `HistoryInv` (events up to the row's version, those
  of its version are the row), `ClaimInv` (claims are counted by the fence) and `CauseInv`
  (a pending or committed block as corrupt has its cause, which stays).

`PaperJob_proofs.tla`, for any workers, whoever serves the job:

* `Typing`, `Sound` (`[]JobIsSound`) and `Winners` (`WinnersStay`), by one invariant:
  `StatusMatchesAttempts` is inductive, a whole result is not. `FileInv` says that the
  files of a running attempt's worker are its own as long as nobody has removed it from
  the job; `SeenInv` that a recovery that saw the row's present timestamp saw the
  present row, and that the files it saw whole still are.
* `Submissions` (`[]SubmissionsAreSound`), for any requests, keys and runs of
  `PaperJobSubmission`: a key is read outside the transaction that stores the job, so the
  invariant says what stays true of what was said (`ToldIsMapped`, `RefusedHasNone`) and
  that who reads a key again does so because of a row that is there (`RereadForCause`).
* `SubmissionPromise`: `SubmissionsKeepPromise`, the refinement of `KeyedCommands` with
  the mapped keys as receipts.
* `RoutesTell`: `[]RoutesTellTheJob`, for any requests and errors of `PaperJobRoutes`. The
  row alone goes on in one direction (`RowGoesOn`), so the invariant (`RoutesInv`) says of
  every request how far it has come and that what it has read of the row is still no
  later than the row; that no two requests carry the same attempt (`ClaimsApart`); and
  that an event is told by the task of the attempt it is about, once (`EventsGood`,
  `EventsOnce`).

`ApiBoundary_proofs.tla`, for any requests, errors and services:

* `Log`: `[]LogTellsAnswers`. `OnItsWay` says at each stage how far the log has got, and
  that it has no completion before the reply.
* `Promise`: `RoutesKeepPromise`, the refinement of `KeyedCommands`.
* `Listings` (`ListingsAreWhole`), for any rows, filters, page sizes and
  writers of `Pagination`. `PageOf` is what one query promises: its rows in order, and of
  those it leaves out none before its last; that a finite set can be sorted at all is
  proved by counting (`SortExists`). The invariant says where the client stands: the
  cursor is of the last row told (`CursorGood`), what was told is in order and still where
  it was (`GotGood`), and a row that every page's filter admitted has been told or is
  behind the cursor (`SteadyGood`); for attempts, that those there were are those before
  the anchor (`AttemptsGood`). It is kept by every page of every query alike (`ToldKeeps`).

`StrategyOrder_proofs.tla`, for any stream, runtimes, policies and account entries:

* `Typing`; `Converge`: `[]CommandsConverge`; `Orders`: `[]AllowedOrdersAreRight`. The
  crossover strategy is defined by recursion over prices and over bars. The library's
  induction rules take an operator and cannot be used; `Least` and `Induction` say the
  same of sets of numbers, from the well-foundedness of finite sets, and `Recursion`
  that the recursive functions of `MovingAverage` exist. With them, what the code
  computes bar by bar (`held`) is what the definition of a crossing says, for windows
  and series of any length.
* `ReplayEvents` (`EventsHandedOutOnce`), for any streams and engines of
  `MarketReplay`: the events of a replay are handed out once and in order, every replay
  reads back, and no checkpoint moves back. The invariant (`EnginesFollow`) says of an
  engine in memory that it holds a cursor that was stored, one it went on to, and exactly
  the events between the two; whether it may still be stored the row decides.
* `StoredRows`: `[]RecordsAreSound`, for any runtimes, accounts, policies and keys of
  `StrategyRecords` and one change by hand (why one: see the bounds). With no harm done,
  every row reads and every answer has its receipt; with one, either the rows or the
  receipts are still what the program stored, and a reading, which asks both, cannot say
  anything else. That what reads hangs together (`ReadsHang`) follows from the reader
  alone, whatever the rows.

`PaperAccount_proofs.tla`, for any accounts, commands, amounts, keys and readers:

* `Sound`: `[]LedgersAreSound`; `Honest`: `[]ProjectionsAreHonest`; `Growth`:
  `GrowsOnSoundProjection`. The writer (`_mutate`) and the replay state the rules
  separately; the lemmas on `PaperLedger` show command by command that what the one
  appends the other accepts (`LedgerRight`), and by how much a partial sale rounds its
  cost. The invariant adds that a row is at the end of its ledger, and that whatever was
  told, stored or read so far is true of the version it names (`SayingsRight`), which
  stays so as ledgers only grow.
* `Promise`, `CreationPromise`: `Commands!Spec` and `Creations!Spec`, the refinements of
  `KeyedCommands` whose receipts are found in the ledger and under the creation keys.
* `EvidenceIsSettled`, `EvidenceAddsUp`, `EvidenceIsJudged`: `[]AllowedIsSettled`,
  `[]TradesAreRight`, `[]RowsAreJudged`, for any intents, policies, rates, prices and
  streams of `ExecutionEvidence`. The risk and the settlement are compared inequality by
  inequality: what is rounded is monotonous (`HalfEvenRises`), so a fill within the
  remainder stays within the notional that was checked for the remainder, and a sale that
  passes costs no more than it brings. In `TradeInv` the load itself is the invariant: that
  every history loads says of each fill from which account state it was settled and of
  each risk what came before it. It is kept because all of that is a beginning of the
  replay and of the ledger, which only grow (`LoadsAgain`), and because a step adds what
  the load asks of the next row (`StepKeepsHistories`). Sums over fills and orders are
  recursive functions; what one more amount, or a change of one, does to them is by
  induction on numbers (`Upto`, `SumMore`, `SumBump`).

`PortfolioReview_proofs.tla`, for any workers, commands, calls and stops:

* `Reopen`: `[]ReviewsReopen`. Rows and files are independent of each other once written,
  so nothing about a file needs to be remembered: the last look before the commit
  (`Reopens`) is kept by files that are written once. What needs an invariant is the
  row: `Fitting` says of the one transaction that holds the write lock (`Exclusive`)
  that its row collides with none, or replaces one that still awaits its decision, and
  `Right` gives for each answer an evidence that no later step can take away.
* `CreationPromise`, `SettlementPromise`: `Creations!Spec` and `Settlements!Spec`, the
  refinements of `KeyedCommands` by `PortfolioReview` itself. The receipts are the
  committed rows, found by either key; `StepTells` says what a step can tell and commit
  (`Outcome`): nothing, a row that is there, or one whose keys nobody has.
* `DemosInstallWhole` (`DemoInstallsWhole`, from its parts `Installations` and
  `RestartsServe`), for any backends, datasets, pages and bounds of `DemoInstall`. What an installer has staged is known stage
  by stage (`Built`, `StagesBuild`), and stays so because who owns the staging directory is
  alone in it (`BackendGood`); who has recognized a dataset, or put it in place, finds its
  marker in the root, which no step but the rename brings there. `RestartsServe` rests on
  `Told`: what the workspace holds tells of every surprise, and nothing hides it again, so
  that the validators (`WholeIsValid`, `SurpriseIsInvalid`) and the history agree.
* `Upgrades`: `[]UpgradesKeepRows`, for databases found at any set of revisions. The chain
  and the verifier's demands are lists of their own; `StatementsOf` and `MadeSoFar` show
  that the revisions make exactly what is asked for, each guard after its table. The
  invariant (`UpgradeInv`) adds that the tables of every stamped revision stand, or, while
  revision 11 is applied, the copy that the rebuild of one has made (`TablesStand`); that
  rows are in their table, or in the copy once the table is dropped (`RowsStand`); and
  how far each of the three rebuilds has come (`RebuildStands`). A process that stops
  anywhere leaves what the next startup either goes on from or meets as an object of a
  revision that is not stamped, which is the cause that a refusal needs (`AheadIsHalf`).

Assumptions: those named `...Assumption` in the modules (finite bounds, distinguished
constants outside the sets they are distinguished from, what commands carry), which TLC
evaluates in every run that extends the module; `PaperJobSubmission`, `PaperJobRoutes`,
`StrategyRecords`, `MarketReplay`, `Pagination`, `SchemaMigration`, `DemoInstall` and
`ExecutionEvidence` are instantiated, so that theirs is a hypothesis of the theorem and an `ASSUME` of the run.

What the proofs changed in the models: the refusal of a listing's cursor was explained
by a change of its runtime only as long as there was no second change that took the
first back, which the bound of the run hid; `MarketReplay` chose streams of which
nothing said that they are finite; and `PaperJobSubmission` assumed its null to be no
number where it has to be no command. Nothing said that the value which stands for no
event, risk, fill or decision is none of those records (`EvidenceAssumption`).

Only model-checked:

* `FollowsExecution`: the mapping finds the owner of an account event and the version of
  the account after an attempt among the fills and links of all orders;
* `RowsAreSound` of `StoredLedger`: that a page's check of its rows (`Page`) and a load
  agree is an induction over folds along the ledger, on rows that need not be a ledger;
* `CommandsKeepPromises` as one formula: the run asks it of instances with fewer accounts
  and keys; `Promise`, `CreationPromise` and `Growth` prove its parts for all of them;
* liveness (`StopSettles`, `RuntimeEnds`, `OrdersAndAttemptsEnd`), which the prover does
  not reach.

## Not modelled

* Encodings: canonical JSON, digests and checksums (a digest is its content), decimal
  and timestamp formats, the mapping of a row to a record field by field.
* Calendars, sessions and holidays, as data: an event is in a session or it is not.
* The analysis of a portfolio, research, backtests, reports, catalogues and lifecycle
  reviews: sequential computations without shared state.
* API schemas and the routes that only read files; malformed requests.
* The contents of the Demo dataset and its reseeding from revision 0004.
* The web client.
* Damage to execution and runtime rows from outside, of the kind `StoredLedger` has for
  accounts and `StrategyRecords` for strategy orders; `ExecutionEvidence` has mismatched
  rows (`RowsAreJudged`), without a copy that went on.

## Plan

Done: the runtime and its control, execution with and without money, accounts with
their stored rows, jobs with submissions and routes, strategy orders with their stored
rows and replays, reviews, migrations, the Demo, the API boundary and its listings.

Proved: everything the runs ask of the runtime and its control, of execution with and
without money, `FollowsExecution` aside, of accounts without their stored rows, of jobs with submissions and routes, of strategy
orders with their stored rows and replays, of reviews, upgrades and the Demo, of the API
boundary and its listings, liveness aside.

Left: `RowsAreSound` of `StoredLedger` and `FollowsExecution` for every value of the
constants; the stored rows of M34 with faults.
