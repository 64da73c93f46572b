---------------------------- MODULE ApiBoundary ----------------------------
(***************************************************************************)
(* One request at the HTTP boundary, from its arrival to the answer: the   *)
(* middleware that logs its completion, the founder's authentication, the  *)
(* dependencies that probe the product database, the route with its        *)
(* command or read, the translation of what the service raises, and what   *)
(* is logged on the way.  A service is what KeyedCommands promises of it:  *)
(* its transaction is one step (the modules of the services show that),    *)
(* and what it refuses for is any of the errors its translator knows.      *)
(***************************************************************************)
EXTENDS ApiErrors, Naturals, Sequences

CONSTANTS
  Requests,   \* requests, each sent once
  Keys,       \* Idempotency-Key headers
  Digests,    \* what a command says, as its digest tells it apart
  Families,   \* the groups of routes a run sends requests to
  Operations, \* the operations of them it asks for
  Faults,     \* the errors a service may raise in a run
  Crashes,    \* bound: how often the process is killed
  Changes,    \* bound: how often somebody moves, damages or restores the database file
  None

\* The codes of the market-time reads are not in the inventory; every other family's are.
ApiAssumption ==
  /\ Families \subseteq {"account", "order", "execution", "runtime", "review"}
  /\ None \notin Digests
  /\ Crashes \in Nat /\ Changes \in Nat
ASSUME ApiAssumption

VARIABLES
  storage,    \* what the probe of the database file finds
  held,       \* the digest stored under each key of each key space
  at,         \* how far a request has come
  call,       \* what it asks for
  reply,      \* the response, once there is one
  log,        \* the product events it has emitted
  crashes, changes

vars == <<storage, held, at, call, reply, log, crashes, changes>>

CommandsOf ==
  [ account   |-> {"create", "cash_movement", "position_adjustment", "evidence_link",
                   "lifecycle", "snapshot", "reconciliation"},
    order     |-> {"signal_evaluate", "intent_create", "decision_create"},
    execution |-> {"order_create", "order_step"},
    runtime   |-> {"create", "start", "stop", "resume", "recover"},
    review    |-> {"create", "decision"},
    market    |-> {} ]

ReadsOf ==
  [ account   |-> {"list", "detail", "ledger"},
    order     |-> {"list", "signal_detail", "intent_detail", "decision_detail"},
    execution |-> {"list", "order_detail", "attempt_detail", "fill_detail", "reconciliation"},
    runtime   |-> {"list", "detail", "health", "reconciliation"},
    review    |-> {"list", "detail"},
    market    |-> {"list", "detail"} ]

\* Key spaces: the events of an account share one, every other command has its own.
Space(c) ==
  <<c.family, IF c.family = "account" /\ c.op \notin {"create", "snapshot", "reconciliation"}
              THEN "event" ELSE c.op, c.key>>

\* What a request may be: from the founder or not, and well formed or not, which only
\* the founder is told.
Commands ==
  UNION {[family : {f}, op : CommandsOf[f] \intersect Operations, key : Keys, digest : Digests,
          founder : BOOLEAN, valid : BOOLEAN] : f \in Families}
Reads ==
  UNION {[family : {f}, op : ReadsOf[f] \intersect Operations, key : {None}, digest : {None},
          founder : BOOLEAN, valid : BOOLEAN] : f \in Families}

IsCommand(c) == c.digest # None
Spaces == {Space(c) : c \in Commands}

Created  == [status |-> 201, code |-> None]
Replayed == [status |-> 200, code |-> None]
Success  == {Created, Replayed}
NoReply  == [status |-> 0, code |-> None]
NoCall   == [family |-> None]

Init ==
  /\ storage = "ready"
  /\ held = [s \in Spaces |-> None]
  /\ at = [r \in Requests |-> "idle"]
  /\ call = [r \in Requests |-> NoCall]
  /\ reply = [r \in Requests |-> NoReply]
  /\ log = [r \in Requests |-> <<>>]
  /\ crashes = 0 /\ changes = 0

-----------------------------------------------------------------------------
(* Product events.                                                          *)

Event(name, status) == [event |-> name, status |-> status]
Completion(answer)  == [event |-> "api_request_completed",
                        status |-> answer.status, code |-> answer.code]

\* What a step that filled, or did not, says of the attempt and then of the order.
StepEvents ==
  {<<"paper_execution_step_no_fill">>, <<"paper_execution_fill_created">>}
    \union {<<first, last>> :
       first \in {"paper_execution_step_no_fill", "paper_execution_fill_created"},
       last \in {"paper_execution_order_filled", "paper_execution_order_rejected",
                 "paper_execution_order_partially_filled_rejected"}}

\* The names of the events of an accepted command, in order, by family: some tell a
\* replay by the name, the others by a field of the event.
AccountNames(c) ==
  CASE c.op = "snapshot"       -> <<"paper_account_snapshot_completed">>
    [] c.op = "reconciliation" -> <<"paper_account_reconciliation_completed">>
    [] OTHER                   -> <<"paper_account_command_completed">>

OrderNames(c) ==
  CASE c.op = "signal_evaluate" -> <<"strategy_signal_evaluation_completed">>
    [] c.op = "intent_create"   -> <<"order_intent_derivation_completed">>
    [] c.op = "decision_create" -> <<"pre_trade_risk_evaluation_completed">>

ReviewNames(c) ==
  CASE c.op = "create"   -> <<"portfolio_review_create_completed">>
    [] c.op = "decision" -> <<"portfolio_review_decision_completed">>

RuntimeNames(c, answer) ==
  IF answer = Replayed THEN <<"paper_runtime_idempotent_replay">>
  ELSE <<[create |-> "paper_runtime_created", start |-> "paper_runtime_start_requested",
          stop |-> "paper_runtime_stop_requested", resume |-> "paper_runtime_resume_requested",
          recover |-> "paper_runtime_recover_requested"][c.op]>>

ExecutionNames(c, answer) ==
  CASE answer = Replayed -> {<<"paper_execution_idempotent_replay">>}
    [] answer = Created /\ c.op = "order_create" -> {<<"paper_execution_order_created">>}
    [] answer = Created /\ c.op = "order_step" -> StepEvents

AcceptedNames(c, answer) ==
  CASE c.family = "account"   -> {AccountNames(c)}
    [] c.family = "order"     -> {OrderNames(c)}
    [] c.family = "review"    -> {ReviewNames(c)}
    [] c.family = "runtime"   -> {RuntimeNames(c, answer)}
    [] c.family = "execution" -> ExecutionNames(c, answer)

Told(names, status) == [i \in DOMAIN names |-> Event(names[i], status)]

\* The reads that log what they found.
ReadNames(c) ==
  CASE c.family = "execution" /\ c.op = "reconciliation" ->
         <<"paper_execution_reconciliation_checked">>
    [] c.family = "runtime" /\ c.op \in {"health", "reconciliation"} ->
         <<IF c.op = "health" THEN "paper_runtime_health_checked"
           ELSE "paper_runtime_reconciliation_checked">>
    [] OTHER -> <<>>

\* What a refusal logs before it is translated.
RefusedNames(c, error) ==
  CASE c.family = "execution" /\ error = "stale" -> <<"paper_execution_stale_authority_refused">>
    [] c.family = "execution" /\ error = "corrupt" -> <<"paper_execution_corruption_refused">>
    [] c.family = "runtime" /\ error = "corrupt" -> <<"paper_runtime_corruption_refused">>
    [] c.family = "runtime" /\ error # "corrupt" /\ IsCommand(c) ->
         <<"paper_runtime_lifecycle_refused">>
    [] OTHER -> <<>>

-----------------------------------------------------------------------------
(* Errors.                                                                  *)

\* What a route finds wrong with the values of a request, before it calls the service.
PayloadErrors == {"decimal", "policy", "runtime", "cursor", "value"}
StorageErrors == {"busy", "failure", "corrupt"}

\* What a family's service, or the route before it, refuses an operation for.
AccountErrorsOf(c) ==
  CASE c.op = "create" -> {"decimal", "value", "concurrency"}
    [] c.op = "cash_movement" ->
         {"not_found", "version", "frozen", "closed", "reconciliation", "decimal", "cash"}
    [] c.op = "position_adjustment" ->
         {"not_found", "version", "frozen", "closed", "reconciliation", "decimal",
          "quantity", "cost", "zero"}
    [] c.op = "evidence_link" -> {"not_found", "version", "closed", "evidence"}
    [] c.op = "lifecycle" -> {"not_found", "version", "closed", "not_empty", "lifecycle"}
    [] c.op = "snapshot" -> {"not_found", "version", "reconciliation", "snapshot", "operation"}
    [] c.op = "reconciliation" -> {"not_found", "version", "operation"}
    [] OTHER -> {"not_found"}

OrderErrorsOf(c) ==
  CASE IsCommand(c) ->
         {"upstream", "not_found", "stale", "reconciliation", "runtime", "policy", "decimal"}
    [] c.op = "signal_detail"   -> {"signal"}
    [] c.op = "intent_detail"   -> {"intent"}
    [] c.op = "decision_detail" -> {"decision"}

ExecutionErrorsOf(c) ==
  CASE c.op = "order_create" ->
         {"upstream", "stale", "operation", "concurrency", "reconciliation", "policy", "decimal"}
    [] c.op = "order_step" ->
         {"not_found", "stale", "operation", "concurrency", "reconciliation"}
    [] c.op = "attempt_detail" -> {"attempt"}
    [] c.op = "fill_detail"    -> {"fill"}
    [] OTHER -> {"not_found"}

RuntimeErrorsOf(c) ==
  CASE c.op = "create" -> {"exists", "binding", "terminal", "stale", "value", "version"}
    [] IsCommand(c) /\ c.op # "create" ->
         {"not_found", "binding", "lifecycle", "terminal", "version", "ownership", "stale"}
    [] OTHER -> {"not_found"}

ReviewErrorsOf(c) ==
  IF IsCommand(c)
  THEN {"not_found", "settled", "file_conflict", "file_invalid", "file_missing", "exists", "value"}
  ELSE {"not_found", "file_invalid", "file_missing"}

OwnErrors(c) ==
  CASE c.op = "list" -> {"cursor", "value"}
    [] c.op # "list" /\ c.family = "account"   -> AccountErrorsOf(c)
    [] c.op # "list" /\ c.family = "order"     -> OrderErrorsOf(c)
    [] c.op # "list" /\ c.family = "execution" -> ExecutionErrorsOf(c)
    [] c.op # "list" /\ c.family = "runtime"   -> RuntimeErrorsOf(c)
    [] c.op # "list" /\ c.family = "review"    -> ReviewErrorsOf(c)
    [] c.op # "list" /\ c.family = "market"    -> {"not_found"}

MayRaise(c, error) == error \in Faults \intersect DOMAIN Errors[c.family]

\* The probe of the database that a family's dependency makes, and what it answers for
\* a file that is not the product's: a file that cannot be looked at is an OSError, which
\* the accounts' dependency alone lets through.
Probe(f) ==
  CASE storage = "ready" -> {NoReply}
    [] storage # "ready" /\ f \in {"review", "market"} -> {DatabaseUnavailable}
    [] f = "account" /\ storage = "missing" -> {DatabaseUnavailable}
    [] f = "account" /\ storage = "incompatible" ->
         {Unavailable("paper_account_schema_incompatible")}
    [] f = "account" /\ storage = "unreadable" -> {Unexpected}
    [] f = "order" /\ storage \in {"missing", "unreadable"} ->
         {Unavailable("strategy_order_authority_unavailable")}
    [] f = "order" /\ storage = "incompatible" ->
         {Unavailable("strategy_order_schema_incompatible")}
    [] f = "execution" /\ storage \in {"missing", "unreadable"} ->
         {Unavailable("paper_execution_authority_unavailable")}
    [] f = "execution" /\ storage = "incompatible" ->
         {Unavailable("paper_execution_schema_incompatible")}
    [] f = "runtime" /\ storage \in {"missing", "unreadable"} ->
         {Unavailable("paper_runtime_authority_unavailable")}
    [] f = "runtime" /\ storage = "incompatible" ->
         {Unavailable("paper_runtime_schema_incompatible")}

\* The portfolio reviews that open artifacts need their directory as well.
RootProbe(c) ==
  IF c.family = "review" /\ c.op # "list" /\ "root" \in Faults
  THEN {NoReply, ReviewErrors["root"]} ELSE {NoReply}

-----------------------------------------------------------------------------
(* Requests.                                                                *)

At(r, phase) == at' = [at EXCEPT ![r] = phase]
Kept == UNCHANGED <<crashes, changes>>

\* A response of a handler inside the middleware, after the events it logged.
Answers(r, answer, events) ==
  /\ reply' = [reply EXCEPT ![r] = answer]
  /\ log' = [log EXCEPT ![r] = @ \o events]
  /\ At(r, IF answer = Unexpected THEN "raised" ELSE "replying")

Refuses(r, error) ==
  LET answer == Errors[call[r].family][error]
  IN Answers(r, answer, Told(RefusedNames(call[r], error), answer.status))

\* A client sends a request.
Arrive(r) ==
  /\ at[r] = "idle"
  /\ \E c \in Commands \union Reads :
       (c.founder \/ c.valid) /\ call' = [call EXCEPT ![r] = c]
  /\ At(r, "arrived")
  /\ UNCHANGED <<storage, held, reply, log>> /\ Kept

\* require_founder_auth
Authenticate(r) ==
  /\ at[r] = "arrived"
  /\ IF call[r].founder
     THEN At(r, "resolving") /\ UNCHANGED <<reply, log>>
     ELSE Answers(r, Unauthenticated, <<>>)
  /\ UNCHANGED <<storage, held, call>> /\ Kept

\* The dependencies of a route are solved before what they and the route take from the
\* request is found wrong.
Resolve(r) ==
  /\ at[r] = "resolving"
  /\ \E refusal \in Probe(call[r].family) : \E rootless \in RootProbe(call[r]) :
       CASE refusal # NoReply -> Answers(r, refusal, <<>>)
         [] refusal = NoReply /\ rootless # NoReply -> Answers(r, rootless, <<>>)
         [] refusal = NoReply /\ rootless = NoReply /\ ~call[r].valid ->
              Answers(r, ValidationError, <<>>)
         [] refusal = NoReply /\ rootless = NoReply /\ call[r].valid ->
              At(r, "serving") /\ UNCHANGED <<reply, log>>
  /\ UNCHANGED <<storage, held, call>> /\ Kept

Stored(r) == held[Space(call[r])]

\* The command is new: its transaction commits, and its answer is logged.
Commit(r) ==
  /\ at[r] = "serving" /\ storage = "ready"
  /\ IsCommand(call[r]) /\ Stored(r) = None
  /\ held' = [held EXCEPT ![Space(call[r])] = call[r].digest]
  /\ \E names \in AcceptedNames(call[r], Created) :
       Answers(r, Created, Told(names, Created.status))
  /\ UNCHANGED <<storage, call>> /\ Kept

\* Mutant: a used key is answered with what is stored, whatever the command.
ReplayAny(r) ==
  /\ at[r] = "serving" /\ storage = "ready"
  /\ IsCommand(call[r]) /\ Stored(r) # None
  /\ \E names \in AcceptedNames(call[r], Replayed) :
       Answers(r, Replayed, Told(names, Replayed.status))
  /\ UNCHANGED <<storage, held, call>> /\ Kept

\* The same command was carried out under this key: its stored answer is given again.
Replay(r) ==
  /\ at[r] = "serving" /\ storage = "ready"
  /\ IsCommand(call[r]) /\ Stored(r) = call[r].digest
  /\ \E names \in AcceptedNames(call[r], Replayed) :
       Answers(r, Replayed, Told(names, Replayed.status))
  /\ UNCHANGED <<storage, held, call>> /\ Kept

\* Another command was carried out under this key.
Conflicts(r) ==
  /\ at[r] = "serving" /\ storage = "ready"
  /\ IsCommand(call[r]) /\ Stored(r) \notin {None, call[r].digest}
  /\ Refuses(r, "key_reused")
  /\ UNCHANGED <<storage, held, call>> /\ Kept

\* The service refuses a new command or a read, or the route a command it cannot parse,
\* which one that was accepted is not.
Refuse(r) ==
  /\ at[r] = "serving" /\ storage = "ready"
  /\ \E error \in OwnErrors(call[r]) :
       /\ MayRaise(call[r], error)
       /\ IsCommand(call[r]) =>
            \/ Stored(r) = None
            \/ error \in PayloadErrors /\ Stored(r) # call[r].digest
       /\ Refuses(r, error)
  /\ UNCHANGED <<storage, held, call>> /\ Kept

\* SQLite is busy, fails, or holds rows that do not read back; so it does when the file
\* has changed since it was probed.
StorageFails(r) ==
  /\ at[r] = "serving"
  /\ \E error \in StorageErrors : MayRaise(call[r], error) /\ Refuses(r, error)
  /\ UNCHANGED <<storage, held, call>> /\ Kept

\* The service raises what no translator knows, and its transaction is rolled back.
Raise(r) ==
  /\ at[r] = "serving" /\ "unexpected" \in Faults
  /\ Answers(r, Unexpected, <<>>)
  /\ UNCHANGED <<storage, held, call>> /\ Kept

\* A read, which may log that somebody looked.
Read(r) ==
  /\ at[r] = "serving" /\ storage = "ready" /\ ~IsCommand(call[r])
  /\ Answers(r, Replayed, Told(ReadNames(call[r]), Replayed.status))
  /\ UNCHANGED <<storage, held, call>> /\ Kept

\* Mutant: only responses are completed, an exception passes through.
CompleteResponse(r) ==
  /\ at[r] \in {"replying", "raised"}
  /\ log' = IF at[r] = "raised" THEN log
            ELSE [log EXCEPT ![r] = Append(@, Completion(reply[r]))]
  /\ At(r, "completed")
  /\ UNCHANGED <<storage, held, call, reply>> /\ Kept

\* RequestIdMiddleware.dispatch: one completion, of a response or of what was raised;
\* then ServerErrorMiddleware answers what was raised, outside of it.
Complete(r) ==
  /\ at[r] \in {"replying", "raised"}
  /\ log' = [log EXCEPT ![r] =
       Append(@, Completion(IF at[r] = "raised" THEN Unexpected ELSE reply[r]))]
  /\ At(r, "completed")
  /\ UNCHANGED <<storage, held, call, reply>> /\ Kept

Send(r) ==
  /\ at[r] = "completed"
  /\ At(r, "answered")
  /\ UNCHANGED <<storage, held, call, reply, log>> /\ Kept

\* The process is killed with whatever it was doing; what it logged is on the console.
Crash ==
  /\ crashes < Crashes
  /\ \E r \in Requests : at[r] \notin {"idle", "answered", "lost"}
  /\ at' = [r \in Requests |->
              IF at[r] \in {"idle", "answered"} THEN at[r] ELSE "lost"]
  /\ crashes' = crashes + 1
  /\ UNCHANGED <<storage, held, call, reply, log, changes>>

\* Somebody moves the database file, changes it, takes the right to it away, or puts
\* it back as it was.
ChangeStorage ==
  /\ changes < Changes
  /\ storage' \in {"ready", "missing", "incompatible", "unreadable"} \ {storage}
  /\ changes' = changes + 1
  /\ UNCHANGED <<held, at, call, reply, log, crashes>>

Next ==
  \/ \E r \in Requests :
       \/ Arrive(r) \/ Authenticate(r) \/ Resolve(r) \/ Commit(r) \/ Replay(r)
       \/ Conflicts(r) \/ Refuse(r) \/ StorageFails(r) \/ Raise(r) \/ Read(r)
       \/ Complete(r) \/ Send(r)
  \/ Crash
  \/ ChangeStorage

Spec == Init /\ [][Next]_vars

-----------------------------------------------------------------------------
(* Properties.                                                              *)

\* Every variable has its type.
TypeOK ==
  /\ storage \in {"ready", "missing", "incompatible", "unreadable"}
  /\ held \in [Spaces -> Digests \union {None}]
  /\ at \in [Requests -> {"idle", "arrived", "resolving", "serving", "replying", "raised",
                          "completed", "answered", "lost"}]
  /\ call \in [Requests -> Commands \union Reads \union {NoCall}]
  /\ \A r \in Requests :
       /\ reply[r].status \in {0, 200, 201, 401, 404, 409, 422, 500, 503}
       /\ \A i \in DOMAIN log[r] : log[r][i].status # 0
  /\ crashes \in 0..Crashes /\ changes \in 0..Changes

Completions(r) == {i \in DOMAIN log[r] : log[r][i].event = "api_request_completed"}

\* docs/sprints/sprint-166: "Every handled API request emits one completion event".  What
\* a client was answered is the last event of its request, with the status and the code
\* of the answer, whether a route answered, a dependency, the authentication or, for an
\* exception nobody knows, the server outside of the middleware.
CompletionTellsAnswer ==
  \A r \in Requests : at[r] = "answered" =>
    /\ Completions(r) = {Len(log[r])}
    /\ log[r][Len(log[r])] = Completion(reply[r])

\* What any command may say once it is accepted, for the first time or again.
AcceptedEvents ==
  LET saying == UNION {AcceptedNames(c, Created) \union AcceptedNames(c, Replayed) : c \in Commands}
  IN  UNION {{names[i] : i \in DOMAIN names} : names \in saying}

\* docs/sprints/sprint-166: "Rejected commands emit no success correlation event".  A
\* command is told in the log as accepted exactly when it is answered so, by events that
\* carry the status of the answer; a refusal that is told carries its own.
AcceptedIsTold ==
  \A r \in Requests : reply[r] # NoReply =>
    /\ \A i \in DOMAIN log[r] : log[r][i].status = reply[r].status
    /\ (IsCommand(call[r]) /\ reply[r] \in Success)
         <=> \E i \in DOMAIN log[r] : log[r][i].event \in AcceptedEvents

\* error_inventory.py: "Static presentation metadata for every stable public API error
\* code."  No request is answered with a code that clients are not told of.
CodesAreInventoried ==
  \A r \in Requests :
    reply[r].code # None => reply[r].code \in UNION {Inventory[k] : k \in DOMAIN Inventory}

\* What the client was answered is the last event in the log, a command is told there as
\* accepted exactly when it is answered so, and no code is answered that clients are not
\* told of.
LogTellsAnswers ==
  TypeOK /\ CompletionTellsAnswer /\ AcceptedIsTold /\ CodesAreInventoried

Accepted == {r \in Requests : reply[r] \in Success /\ IsCommand(call[r])}

Service == INSTANCE KeyedCommands WITH
  Key <- Spaces, Command <- Digests, Answer <- Digests, NoReceipt <- None,
  receipts <- [s \in DOMAIN held |->
                IF held[s] = None THEN None ELSE [command |-> held[s], answer |-> held[s]]],
  told <- {<<Space(call[r]), call[r].digest, call[r].digest>> : r \in Accepted}

\* No receipt is the lack of one.
ReceiptAssumption == \A d \in Digests : None # [command |-> d, answer |-> d]
ASSUME ReceiptAssumption

\* Through authentication, probes, storage that comes and goes, errors and crashes after
\* a commit, the routes keep what idempotent commands promise: a step of a request that
\* changes what they see is a step of theirs.
RoutesKeepPromise ==
  [][UNCHANGED <<held, call, reply>> \/ UNCHANGED Service!vars \/ Service!Next]_vars
=============================================================================
