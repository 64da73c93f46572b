------------------------- MODULE ApiBoundary_proofs -------------------------
(* Proofs about ApiBoundary, for every set of requests, keys, digests and      *)
(* errors, and for every number of crashes and changes of the database file;   *)
(* and about the listings of Pagination.                                       *)
EXTENDS HttpApi, FiniteSetTheorems, SequenceTheorems, TLAPS

-----------------------------------------------------------------------------
(* What may be answered, and what an accepted command says *)

Codes   == UNION {Inventory[k] : k \in DOMAIN Inventory}
Refusal == [status : {401, 404, 409, 422, 500, 503}, code : Codes]
Answer  == Success \union Refusal

LEMMA CodesOfCategories ==
  /\ Inventory.authentication \subseteq Codes /\ Inventory.internal \subseteq Codes
  /\ Inventory.not_found \subseteq Codes      /\ Inventory.invalid \subseteq Codes
  /\ Inventory.conflict \subseteq Codes       /\ Inventory.unavailable \subseteq Codes
<1>1. {"authentication", "internal", "not_found", "invalid", "conflict", "unavailable"}
        \subseteq DOMAIN Inventory
  BY DEF Inventory
<1>2. \A k \in DOMAIN Inventory : Inventory[k] \subseteq Codes
  BY DEF Codes
<1> QED
  BY <1>1, <1>2

LEMMA CommonRefusals ==
  /\ Unexpected \in Refusal /\ Unauthenticated \in Refusal
  /\ ValidationError \in Refusal /\ DatabaseUnavailable \in Refusal
<1>1. /\ "internal_server_error" \in Codes
      /\ "founder_authentication_required" \in Codes
      /\ "request_validation_error" \in Codes
      /\ "product_database_unavailable" \in Codes
  BY CodesOfCategories DEF Inventory
<1> QED
  BY <1>1 DEF Unexpected, Unauthenticated, ValidationError, DatabaseUnavailable, Refusal,
              Invalid, Unavailable

\* A refusal of each kind whose code is in the inventory under that kind.
LEMMA KindsOfRefusals ==
  /\ \A code \in Inventory.conflict : Conflict(code) \in Refusal
  /\ \A code \in Inventory.not_found : NotFound(code) \in Refusal
  /\ \A code \in Inventory.invalid : Invalid(code) \in Refusal
  /\ \A code \in Inventory.unavailable : Unavailable(code) \in Refusal
<1>1. \A code \in Codes : /\ Conflict(code) \in Refusal /\ NotFound(code) \in Refusal
                          /\ Invalid(code) \in Refusal /\ Unavailable(code) \in Refusal
  BY DEF Refusal, Conflict, NotFound, Invalid, Unavailable
<1> QED
  BY <1>1, CodesOfCategories

LEMMA AccountRefusals == \A e \in DOMAIN AccountErrors : AccountErrors[e] \in Refusal
<1>1. /\ NotFound("paper_account_not_found") \in Refusal
      /\ Invalid("paper_account_invalid_m30_reference") \in Refusal
      /\ Invalid("paper_account_invalid_decimal") \in Refusal
      /\ Unavailable("paper_account_storage_busy") \in Refusal
      /\ Unavailable("paper_account_schema_incompatible") \in Refusal
  BY KindsOfRefusals DEF Inventory
<1>2. \A code \in {"paper_account_version_conflict", "paper_account_idempotency_conflict",
                   "paper_account_frozen", "paper_account_closed",
                   "paper_account_close_not_empty", "paper_account_insufficient_available_cash",
                   "paper_account_negative_position", "paper_account_negative_cost_basis",
                   "paper_account_zero_quantity_nonzero_cost_basis",
                   "paper_account_projection_stale", "paper_account_reconciliation_failed",
                   "paper_account_snapshot_conflict"} : Conflict(code) \in Refusal
  BY KindsOfRefusals DEF Inventory
<1> HIDE DEF Refusal
<1> QED
  BY <1>1, <1>2, CommonRefusals DEF AccountErrors


LEMMA OrderRefusals == \A e \in DOMAIN StrategyOrderErrors : StrategyOrderErrors[e] \in Refusal
<1>1. \A code \in {"strategy_signal_not_found", "order_intent_not_found",
                   "pre_trade_risk_decision_not_found"} : NotFound(code) \in Refusal
  BY KindsOfRefusals DEF Inventory
<1>2. \A code \in {"strategy_order_idempotency_conflict", "strategy_order_stale_authority",
                   "strategy_order_reconciliation_required"} : Conflict(code) \in Refusal
  BY KindsOfRefusals DEF Inventory
<1>3. \A code \in {"strategy_order_invalid_runtime_configuration",
                   "strategy_order_invalid_risk_policy", "strategy_order_invalid_decimal",
                   "strategy_order_invalid_cursor"} : Invalid(code) \in Refusal
  BY KindsOfRefusals DEF Inventory
<1>4. \A code \in {"strategy_order_authority_unavailable", "strategy_order_storage_busy",
                   "strategy_order_storage_failure"} : Unavailable(code) \in Refusal
  BY KindsOfRefusals DEF Inventory
<1> HIDE DEF Refusal
<1> QED
  BY <1>1, <1>2, <1>3, <1>4 DEF StrategyOrderErrors

LEMMA ExecutionRefusals == \A e \in DOMAIN ExecutionErrors : ExecutionErrors[e] \in Refusal
<1>1. \A code \in {"paper_execution_upstream_authority_not_found",
                   "paper_execution_order_not_found", "paper_execution_attempt_not_found",
                   "paper_execution_fill_not_found"} : NotFound(code) \in Refusal
  BY KindsOfRefusals DEF Inventory
<1>2. \A code \in {"paper_execution_idempotency_conflict", "paper_execution_stale_authority",
                   "paper_execution_operation_conflict", "paper_execution_concurrency_conflict",
                   "paper_execution_reconciliation_required"} : Conflict(code) \in Refusal
  BY KindsOfRefusals DEF Inventory
<1>3. \A code \in {"paper_execution_invalid_policy", "paper_execution_invalid_decimal",
                   "paper_execution_invalid_cursor"} : Invalid(code) \in Refusal
  BY KindsOfRefusals DEF Inventory
<1>4. \A code \in {"paper_execution_authority_unavailable", "paper_execution_storage_busy",
                   "paper_execution_storage_failure"} : Unavailable(code) \in Refusal
  BY KindsOfRefusals DEF Inventory
<1> HIDE DEF Refusal
<1> QED
  BY <1>1, <1>2, <1>3, <1>4 DEF ExecutionErrors

LEMMA RuntimeRefusals == \A e \in DOMAIN RuntimeErrors : RuntimeErrors[e] \in Refusal
<1>1. \A code \in {"paper_runtime_idempotency_conflict", "paper_runtime_already_exists",
                   "paper_runtime_binding_conflict", "paper_runtime_lifecycle_conflict",
                   "paper_runtime_version_conflict", "paper_runtime_ownership_conflict",
                   "paper_runtime_continuation_stale"} : Conflict(code) \in Refusal
  BY KindsOfRefusals DEF Inventory
<1>2. /\ NotFound("paper_runtime_not_found") \in Refusal
      /\ Invalid("paper_runtime_invalid_cursor") \in Refusal
      /\ Invalid("paper_runtime_invalid_input") \in Refusal
  BY KindsOfRefusals DEF Inventory
<1>3. \A code \in {"paper_runtime_storage_busy", "paper_runtime_storage_failure",
                   "paper_runtime_authority_corrupt"} : Unavailable(code) \in Refusal
  BY KindsOfRefusals DEF Inventory
<1> HIDE DEF Refusal
<1> QED
  BY <1>1, <1>2, <1>3 DEF RuntimeErrors

LEMMA ReviewRefusals == \A e \in DOMAIN ReviewErrors : ReviewErrors[e] \in Refusal
<1>1. \A code \in {"portfolio_review_idempotency_conflict", "portfolio_review_settled_conflict",
                   "portfolio_review_artifact_conflict", "portfolio_review_conflict"} :
        Conflict(code) \in Refusal
  BY KindsOfRefusals DEF Inventory
<1>2. /\ NotFound("portfolio_review_not_found") \in Refusal
      /\ Invalid("portfolio_review_invalid") \in Refusal
      /\ Unavailable("portfolio_review_artifact_root_unavailable") \in Refusal
  BY KindsOfRefusals DEF Inventory
\* The inventory files these two under another category than the status they are sent with.
<1>3. \A code \in {"portfolio_review_artifact_invalid", "portfolio_review_artifact_unavailable"} :
        Conflict(code) \in Refusal
  BY CodesOfCategories DEF Inventory, Conflict, Refusal
<1> HIDE DEF Refusal
<1> QED
  BY <1>1, <1>2, <1>3, CommonRefusals DEF ReviewErrors

\* No service of a family with commands is answered for with a code that clients are not
\* told of.
LEMMA RefusalsAreInventoried ==
  \A f \in Families : \A e \in DOMAIN Errors[f] : Errors[f][e] \in Refusal
<1>1. Families \subseteq {"account", "order", "execution", "runtime", "review"}
  BY ApiAssumption DEF ApiAssumption
<1>2. /\ Errors["account"] = AccountErrors /\ Errors["order"] = StrategyOrderErrors
      /\ Errors["execution"] = ExecutionErrors /\ Errors["runtime"] = RuntimeErrors
      /\ Errors["review"] = ReviewErrors
  BY DEF Errors
<1> QED
  BY <1>1, <1>2, AccountRefusals, OrderRefusals, ExecutionRefusals, RuntimeRefusals,
     ReviewRefusals

LEMMA ProbesAreInventoried ==
  ASSUME storage \in {"ready", "missing", "incompatible", "unreadable"}, NEW f \in Families,
         NEW refusal \in Probe(f)
  PROVE  refusal = NoReply \/ refusal \in Refusal
<1>1. \A code \in {"paper_account_schema_incompatible", "strategy_order_authority_unavailable",
                   "strategy_order_schema_incompatible", "paper_execution_authority_unavailable",
                   "paper_execution_schema_incompatible", "paper_runtime_authority_unavailable",
                   "paper_runtime_schema_incompatible"} : Unavailable(code) \in Refusal
  BY KindsOfRefusals DEF Inventory
<1>2. f \in {"account", "order", "execution", "runtime", "review"}
  BY ApiAssumption DEF ApiAssumption
<1> HIDE DEF Refusal
<1> QED
  BY <1>1, <1>2, CommonRefusals DEF Probe

LEMMA RootProbesAreInventoried ==
  ASSUME NEW c, NEW refusal \in RootProbe(c)
  PROVE  refusal = NoReply \/ refusal \in Refusal
<1>1. "root" \in DOMAIN ReviewErrors
  BY DEF ReviewErrors
<1> QED
  BY <1>1, ReviewRefusals DEF RootProbe

-----------------------------------------------------------------------------
(* Events *)

\* The events by which the log tells an accepted command.
AcceptedName ==
  {"paper_account_snapshot_completed", "paper_account_reconciliation_completed",
   "paper_account_command_completed", "strategy_signal_evaluation_completed",
   "order_intent_derivation_completed", "pre_trade_risk_evaluation_completed",
   "portfolio_review_create_completed", "portfolio_review_decision_completed",
   "paper_runtime_idempotent_replay", "paper_runtime_created", "paper_runtime_start_requested",
   "paper_runtime_stop_requested", "paper_runtime_resume_requested",
   "paper_runtime_recover_requested", "paper_execution_idempotent_replay",
   "paper_execution_order_created", "paper_execution_step_no_fill",
   "paper_execution_fill_created", "paper_execution_order_filled",
   "paper_execution_order_rejected", "paper_execution_order_partially_filled_rejected"}

OtherName ==
  {"paper_execution_reconciliation_checked", "paper_runtime_health_checked",
   "paper_runtime_reconciliation_checked", "paper_execution_stale_authority_refused",
   "paper_execution_corruption_refused", "paper_runtime_corruption_refused",
   "paper_runtime_lifecycle_refused"}

Saying == [event : AcceptedName \union OtherName, status : Nat]
Done  == [event : {"api_request_completed"}, status : Nat, code : Codes \union {None}]
Entry == Saying \union Done

\* Something is said, and only of an accepted command.
Says(names) == names \in Seq(AcceptedName) /\ Len(names) >= 1

LEMMA ListedNames ==
  /\ \A a \in AcceptedName : Says(<<a>>)
  /\ \A a, b \in AcceptedName : Says(<<a, b>>)
<1> HIDE DEF AcceptedName
<1> QED
  BY DEF Says

LEMMA CommandFacts ==
  ASSUME NEW c \in Commands
  PROVE  /\ c.family \in Families
         /\ c.op \in CommandsOf[c.family]
         /\ c.digest \in Digests
         /\ IsCommand(c)
BY ApiAssumption DEF Commands, IsCommand, ApiAssumption

LEMMA AskedFacts ==
  ASSUME NEW c \in Commands \union Reads
  PROVE  /\ c.family \in Families
         /\ IsCommand(c) => c \in Commands
BY CommandFacts DEF Reads, IsCommand

LEMMA AcceptedNamesSay ==
  ASSUME NEW c \in Commands, NEW answer \in Success, NEW names \in AcceptedNames(c, answer)
  PROVE  Says(names)
<1>0. /\ c.family \in {"account", "order", "execution", "runtime", "review"}
      /\ c.op \in CommandsOf[c.family]
  BY CommandFacts, ApiAssumption DEF ApiAssumption
<1>1. CASE c.family = "account"
  <2>1. names = AccountNames(c)
    BY <1>1, Zenon DEF AcceptedNames
  <2>2. /\ Says(<<"paper_account_snapshot_completed">>)
        /\ Says(<<"paper_account_reconciliation_completed">>)
        /\ Says(<<"paper_account_command_completed">>)
    BY ListedNames DEF AcceptedName
  <2> QED
    BY <2>1, <2>2, Zenon DEF AccountNames
<1>2. CASE c.family = "order"
  <2>1. names = OrderNames(c)
    BY <1>2, Zenon DEF AcceptedNames
  <2>2. /\ Says(<<"strategy_signal_evaluation_completed">>)
        /\ Says(<<"order_intent_derivation_completed">>)
        /\ Says(<<"pre_trade_risk_evaluation_completed">>)
    BY ListedNames DEF AcceptedName
  <2>3. c.op = "signal_evaluate" \/ c.op = "intent_create" \/ c.op = "decision_create"
    BY <1>0, <1>2 DEF CommandsOf
  <2> QED
    BY <2>1, <2>2, <2>3 DEF OrderNames
<1>3. CASE c.family = "execution"
  <2>1. names \in ExecutionNames(c, answer)
    BY <1>3, Zenon DEF AcceptedNames
  <2>2. /\ Says(<<"paper_execution_idempotent_replay">>)
        /\ Says(<<"paper_execution_order_created">>)
        /\ Says(<<"paper_execution_step_no_fill">>)
        /\ Says(<<"paper_execution_fill_created">>)
    BY ListedNames DEF AcceptedName
  <2>3. \A first \in {"paper_execution_step_no_fill", "paper_execution_fill_created"} :
        \A last \in {"paper_execution_order_filled", "paper_execution_order_rejected",
                     "paper_execution_order_partially_filled_rejected"} :
          Says(<<first, last>>)
    BY ListedNames DEF AcceptedName
  <2>4. \A steps \in StepEvents : Says(steps)
    BY <2>2, <2>3 DEF StepEvents
  <2>5. c.op = "order_create" \/ c.op = "order_step"
    BY <1>0, <1>3 DEF CommandsOf
  <2>6. answer = Replayed \/ answer = Created
    BY DEF Success
  <2> QED
    BY <2>1, <2>2, <2>4, <2>5, <2>6, Zenon DEF ExecutionNames
<1>4. CASE c.family = "runtime"
  <2>1. names = RuntimeNames(c, answer)
    BY <1>4, Zenon DEF AcceptedNames
  <2> DEFINE name == [create |-> "paper_runtime_created", start |-> "paper_runtime_start_requested",
                      stop |-> "paper_runtime_stop_requested",
                      resume |-> "paper_runtime_resume_requested",
                      recover |-> "paper_runtime_recover_requested"][c.op]
  <2>2. name \in AcceptedName
    BY <1>0, <1>4 DEF CommandsOf, AcceptedName
  <2>3. "paper_runtime_idempotent_replay" \in AcceptedName
    BY DEF AcceptedName
  <2>4. names \in {<<name>>, <<"paper_runtime_idempotent_replay">>}
    BY <2>1, Zenon DEF RuntimeNames
  <2> HIDE DEF name
  <2> QED
    BY <2>2, <2>3, <2>4, ListedNames, Zenon
<1>5. CASE c.family = "review"
  <2>1. names = ReviewNames(c)
    BY <1>5, Zenon DEF AcceptedNames
  <2>2. /\ Says(<<"portfolio_review_create_completed">>)
        /\ Says(<<"portfolio_review_decision_completed">>)
    BY ListedNames DEF AcceptedName
  <2>3. c.op = "create" \/ c.op = "decision"
    BY <1>0, <1>5 DEF CommandsOf
  <2> QED
    BY <2>1, <2>2, <2>3, Zenon DEF ReviewNames
<1> QED
  BY <1>0, <1>1, <1>2, <1>3, <1>4, <1>5

\* An accepted command says at least one thing, and nothing that anything else says.
LEMMA AcceptedNamesFacts ==
  ASSUME NEW c \in Commands, NEW answer \in Success, NEW names \in AcceptedNames(c, answer)
  PROVE  /\ names \in Seq(AcceptedName) /\ Len(names) >= 1
         /\ \A i \in 1..Len(names) : names[i] \in AcceptedEvents
<1>1. names \in Seq(AcceptedName) /\ Len(names) >= 1
  BY AcceptedNamesSay DEF Says
<1>2. \A i \in DOMAIN names : names[i] \in AcceptedEvents
  BY DEF AcceptedEvents, Success
<1>3. DOMAIN names = 1..Len(names)
  BY <1>1
<1> QED
  BY <1>1, <1>2, <1>3

LEMMA AcceptedEventsAreNames == AcceptedEvents \subseteq AcceptedName
<1> SUFFICES ASSUME NEW c \in Commands, NEW answer \in Success,
                    NEW names \in AcceptedNames(c, answer), NEW i \in DOMAIN names
             PROVE  names[i] \in AcceptedName
  BY DEF AcceptedEvents, Success
<1> QED
  BY AcceptedNamesFacts

\* Names that were told become events of the one status.
LEMMA ToldFacts ==
  ASSUME NEW S, S \subseteq AcceptedName \union OtherName, NEW names \in Seq(S),
         NEW code \in Nat
  PROVE  /\ Told(names, code) \in Seq(Entry)
         /\ Len(Told(names, code)) = Len(names)
         /\ \A i \in 1..Len(names) : /\ Told(names, code)[i].event = names[i]
                                     /\ Told(names, code)[i].status = code
                                     /\ Told(names, code)[i].event # "api_request_completed"
<1>1. /\ Len(names) \in Nat /\ DOMAIN names = 1..Len(names)
      /\ \A i \in 1..Len(names) : names[i] \in S
  OBVIOUS
<1>2. Told(names, code) = [i \in 1..Len(names) |-> Event(names[i], code)]
  BY <1>1 DEF Told
<1>3. \A i \in 1..Len(names) : Event(names[i], code) \in Entry
  BY <1>1 DEF Event, Entry, Saying
<1>4. Told(names, code) \in [1..Len(names) -> Entry]
  BY <1>2, <1>3
<1>5. Told(names, code) \in Seq(Entry)
  BY <1>1, <1>4, SeqDef
<1>6. DOMAIN Told(names, code) = 1..Len(names)
  BY <1>4
<1>7. "api_request_completed" \notin AcceptedName \union OtherName
  BY DEF AcceptedName, OtherName
<1> QED
  BY <1>1, <1>2, <1>5, <1>6, <1>7 DEF Event

LEMMA OtherNamesFacts ==
  /\ \A c, error : RefusedNames(c, error) \in Seq(OtherName)
  /\ \A c : ReadNames(c) \in Seq(OtherName)
  /\ \A name \in OtherName : name \notin AcceptedEvents
<1>1. \A name \in OtherName : name \notin AcceptedName
  BY DEF OtherName, AcceptedName
<1>2. /\ "paper_execution_stale_authority_refused" \in OtherName
      /\ "paper_execution_corruption_refused" \in OtherName
      /\ "paper_runtime_corruption_refused" \in OtherName
      /\ "paper_runtime_lifecycle_refused" \in OtherName
      /\ "paper_execution_reconciliation_checked" \in OtherName
      /\ "paper_runtime_health_checked" \in OtherName
      /\ "paper_runtime_reconciliation_checked" \in OtherName
  BY DEF OtherName
<1>3. \A name \in OtherName : <<name>> \in Seq(OtherName)
  <2> HIDE DEF OtherName
  <2> QED
    OBVIOUS
<1>4. <<>> \in Seq(OtherName)
  OBVIOUS
<1>5. \A c, error : RefusedNames(c, error) \in Seq(OtherName)
  BY <1>2, <1>3, <1>4, Zenon DEF RefusedNames
<1>6. \A c : ReadNames(c) \in Seq(OtherName)
  BY <1>2, <1>3, <1>4, Zenon DEF ReadNames
<1> QED
  BY <1>1, <1>5, <1>6, AcceptedEventsAreNames

-----------------------------------------------------------------------------
(* The invariant *)

Place == {"idle", "arrived", "resolving", "serving", "replying", "raised", "completed",
          "answered", "lost"}

Typed ==
  /\ storage \in {"ready", "missing", "incompatible", "unreadable"}
  /\ held \in [Spaces -> Digests \union {None}]
  /\ at \in [Requests -> Place]
  /\ call \in [Requests -> Commands \union Reads \union {NoCall}]
  /\ reply \in [Requests -> Answer \union {NoReply}]
  /\ log \in [Requests -> Seq(Entry)]
  /\ crashes \in 0..Crashes /\ changes \in 0..Changes

\* What is logged of a request that was answered.
Consistent(r) ==
  /\ \A i \in DOMAIN log[r] : log[r][i].status = reply[r].status
  /\ (IsCommand(call[r]) /\ reply[r] \in Success)
       <=> \E i \in DOMAIN log[r] : log[r][i].event \in AcceptedEvents

\* How the answer and the log of a request follow its way: neither is there before a
\* handler is done with it, and the completion comes last.
OnItsWay(r) ==
  /\ at[r] # "idle" => call[r] \in Commands \union Reads
  /\ at[r] \in {"idle", "arrived", "resolving", "serving"} => reply[r] = NoReply
  /\ reply[r] = NoReply => log[r] = <<>>
  /\ at[r] = "raised" => reply[r] = Unexpected
  /\ at[r] \in {"replying", "raised"} => reply[r] # NoReply /\ Completions(r) = {}
  /\ at[r] \in {"completed", "answered"} =>
       /\ reply[r] # NoReply /\ log[r] # <<>>
       /\ Completions(r) = {Len(log[r])}
       /\ log[r][Len(log[r])] = Completion(reply[r])
  /\ reply[r] # NoReply => Consistent(r)

IInv == Typed /\ \A r \in Requests : OnItsWay(r)

LEMMA AnswerFacts ==
  /\ Success \intersect Refusal = {}
  /\ \A answer \in Answer :
       /\ answer # NoReply /\ answer.status # 0 /\ answer.status \in Nat
       /\ answer.code \in Codes \union {None}
       /\ answer.status \in {200, 201, 401, 404, 409, 422, 500, 503}
       /\ answer.code # None => answer.code \in Codes
  /\ Created \in Answer /\ Replayed \in Answer
  /\ Refusal \subseteq Answer
BY DEF Answer, Success, Created, Replayed, Refusal, NoReply

\* The invariant is what is promised of the log.
LEMMA PromisedOfTheLog ==
  ASSUME IInv
  PROVE  LogTellsAnswers
<1>1. \A r \in Requests :
        /\ reply[r] \in Answer \union {NoReply} /\ log[r] \in Seq(Entry) /\ OnItsWay(r)
  BY DEF IInv, Typed
<1>2. ASSUME NEW r \in Requests
      PROVE  \A i \in DOMAIN log[r] : log[r][i].status # 0
  <2>1. CASE reply[r] # NoReply
    BY <1>1, <2>1, AnswerFacts DEF OnItsWay, Consistent
  <2>2. CASE reply[r] = NoReply
    BY <1>1, <2>2 DEF OnItsWay
  <2> QED
    BY <2>1, <2>2
<1>3. \A r \in Requests : reply[r].status \in {0, 200, 201, 401, 404, 409, 422, 500, 503}
  BY <1>1, AnswerFacts DEF NoReply
<1>4. TypeOK
  BY <1>2, <1>3 DEF TypeOK, IInv, Typed, Place
<1>5. CompletionTellsAnswer
  BY <1>1 DEF CompletionTellsAnswer, OnItsWay
<1>6. AcceptedIsTold
  BY <1>1 DEF AcceptedIsTold, OnItsWay, Consistent
<1>7. CodesAreInventoried
  BY <1>1, AnswerFacts DEF CodesAreInventoried, NoReply, Codes
<1> QED
  BY <1>4, <1>5, <1>6, <1>7 DEF LogTellsAnswers

LEMMA Untouched ==
  ASSUME NEW r \in Requests, OnItsWay(r), at'[r] = at[r], call'[r] = call[r],
         reply'[r] = reply[r], log'[r] = log[r]
  PROVE  OnItsWay(r)'
BY DEF OnItsWay, Consistent, Completions

\* A handler is done with a request: it answers, and has said what belongs to the answer.
LEMMA Answering ==
  ASSUME IInv, NEW r \in Requests, at[r] \in {"arrived", "resolving", "serving"},
         NEW answer \in Answer, NEW events \in Seq(Entry), Answers(r, answer, events),
         \A i \in 1..Len(events) : /\ events[i].status = answer.status
                                   /\ events[i].event # "api_request_completed",
         IsCommand(call[r]) /\ answer \in Success
           <=> \E i \in 1..Len(events) : events[i].event \in AcceptedEvents,
         UNCHANGED <<storage, call>>, held' \in [Spaces -> Digests \union {None}], Kept
  PROVE  IInv'
<1>1. /\ Typed /\ OnItsWay(r) /\ reply[r] = NoReply /\ log[r] = <<>>
      /\ call[r] \in Commands \union Reads
  BY DEF IInv, OnItsWay
<1>2. <<>> \o events = events
  OBVIOUS
<1>3. /\ reply'[r] = answer /\ log'[r] = events
      /\ reply' \in [Requests -> Answer \union {NoReply}] /\ log' \in [Requests -> Seq(Entry)]
      /\ \A s \in Requests \ {r} : reply'[s] = reply[s] /\ log'[s] = log[s]
  BY <1>1, <1>2 DEF Answers, Typed
<1>4. /\ at'[r] = IF answer = Unexpected THEN "raised" ELSE "replying"
      /\ at' \in [Requests -> Place]
      /\ \A s \in Requests \ {r} : at'[s] = at[s]
  BY <1>1 DEF Answers, At, Typed, Place
<1>5. Typed'
  BY <1>1, <1>3, <1>4 DEF Typed, Kept
<1>6. DOMAIN log'[r] = 1..Len(events)
  BY <1>3
<1>7. OnItsWay(r)'
  <2>1. Consistent(r)'
    BY <1>3, <1>6 DEF Consistent
  <2>2. Completions(r)' = {}
    BY <1>3, <1>6 DEF Completions
  <2> QED
    BY <1>1, <1>3, <1>4, <2>1, <2>2, AnswerFacts DEF OnItsWay
<1>8. \A s \in Requests \ {r} : OnItsWay(s)'
  BY <1>3, <1>4, Untouched DEF IInv
<1> QED
  BY <1>5, <1>7, <1>8 DEF IInv

\* A refusal is answered: whatever is said of it, it is not told as accepted.
LEMMA Refusing ==
  ASSUME IInv, NEW r \in Requests, at[r] \in {"arrived", "resolving", "serving"},
         NEW answer \in Refusal, NEW names \in Seq(OtherName),
         Answers(r, answer, Told(names, answer.status)),
         UNCHANGED <<storage, held, call>>, Kept
  PROVE  IInv'
<1>1. answer \in Answer /\ answer.status \in Nat /\ answer \notin Success
  BY AnswerFacts
<1>2. /\ Told(names, answer.status) \in Seq(Entry)
      /\ Len(Told(names, answer.status)) = Len(names)
      /\ \A i \in 1..Len(names) :
           /\ Told(names, answer.status)[i].event = names[i]
           /\ Told(names, answer.status)[i].status = answer.status
           /\ Told(names, answer.status)[i].event # "api_request_completed"
  BY <1>1, ToldFacts
<1>3. \A i \in 1..Len(names) : names[i] \notin AcceptedEvents
  BY OtherNamesFacts
<1>4. held' \in [Spaces -> Digests \union {None}]
  BY DEF IInv, Typed
<1> HIDE DEF IInv, Refusal, Answer
<1> QED
  BY <1>1, <1>2, <1>3, <1>4, Answering

LEMMA RefusingSilently ==
  ASSUME IInv, NEW r \in Requests, at[r] \in {"arrived", "resolving", "serving"},
         NEW answer \in Refusal, Answers(r, answer, <<>>),
         UNCHANGED <<storage, held, call>>, Kept
  PROVE  IInv'
<1>1. <<>> \in Seq(OtherName)
  OBVIOUS
<1>2. Told(<<>>, answer.status) = <<>>
  BY DEF Told
<1> QED
  BY <1>1, <1>2, Refusing

LEMMA RefusesFacts ==
  ASSUME IInv, NEW r \in Requests, at[r] = "serving", NEW error,
         error \in DOMAIN Errors[call[r].family], Refuses(r, error),
         UNCHANGED <<storage, held, call>>, Kept
  PROVE  IInv'
<1>1. call[r].family \in Families
  BY AskedFacts DEF IInv, OnItsWay
<1>2. Errors[call[r].family][error] \in Refusal
  BY <1>1, RefusalsAreInventoried
<1>3. RefusedNames(call[r], error) \in Seq(OtherName)
  BY OtherNamesFacts
<1> QED
  BY <1>2, <1>3, Refusing DEF Refuses

\* A command is accepted, now or before, and told so.
LEMMA Accepting ==
  ASSUME IInv, NEW r \in Requests, at[r] = "serving", IsCommand(call[r]),
         NEW answer \in Success, NEW names \in AcceptedNames(call[r], answer),
         Answers(r, answer, Told(names, answer.status)),
         UNCHANGED <<storage, call>>, held' \in [Spaces -> Digests \union {None}], Kept
  PROVE  IInv'
<1>1. call[r] \in Commands
  BY AskedFacts DEF IInv, OnItsWay
<1>2. /\ names \in Seq(AcceptedName) /\ Len(names) \in Nat /\ Len(names) >= 1
      /\ \A i \in 1..Len(names) : names[i] \in AcceptedEvents
  BY <1>1, AcceptedNamesFacts
<1>3. answer \in Answer /\ answer.status \in Nat
  BY AnswerFacts DEF Answer
<1>4. /\ Told(names, answer.status) \in Seq(Entry)
      /\ Len(Told(names, answer.status)) = Len(names)
      /\ \A i \in 1..Len(names) :
           /\ Told(names, answer.status)[i].event = names[i]
           /\ Told(names, answer.status)[i].status = answer.status
           /\ Told(names, answer.status)[i].event # "api_request_completed"
  BY <1>2, <1>3, ToldFacts
<1>5. 1 \in 1..Len(names)
  BY <1>2
<1> HIDE DEF IInv, Answer
<1> QED
  BY <1>2, <1>3, <1>4, <1>5, Answering

LEMMA KeyReusedIsKnown == \A f \in Families : "key_reused" \in DOMAIN Errors[f]
<1>1. Families \subseteq {"account", "order", "execution", "runtime", "review"}
  BY ApiAssumption DEF ApiAssumption
<1>2. /\ "key_reused" \in DOMAIN AccountErrors /\ "key_reused" \in DOMAIN StrategyOrderErrors
      /\ "key_reused" \in DOMAIN ExecutionErrors /\ "key_reused" \in DOMAIN RuntimeErrors
      /\ "key_reused" \in DOMAIN ReviewErrors
  BY DEF AccountErrors, StrategyOrderErrors, ExecutionErrors, RuntimeErrors, ReviewErrors
<1>3. /\ Errors["account"] = AccountErrors /\ Errors["order"] = StrategyOrderErrors
      /\ Errors["execution"] = ExecutionErrors /\ Errors["runtime"] = RuntimeErrors
      /\ Errors["review"] = ReviewErrors
  BY DEF Errors
<1> QED
  BY <1>1, <1>2, <1>3

LEMMA StepInductive ==
  ASSUME IInv, NEW r \in Requests,
         \/ Arrive(r) \/ Authenticate(r) \/ Resolve(r) \/ Commit(r) \/ Replay(r)
         \/ Conflicts(r) \/ Refuse(r) \/ StorageFails(r) \/ Raise(r) \/ Read(r)
         \/ Complete(r) \/ Send(r)
  PROVE  IInv'
<1> USE DEF Kept
<1>0. /\ Typed /\ OnItsWay(r) /\ held \in [Spaces -> Digests \union {None}]
      /\ at \in [Requests -> Place]
      /\ at[r] # "idle" => call[r] \in Commands \union Reads /\ call[r].family \in Families
      /\ \A s \in Requests : OnItsWay(s)
  BY AskedFacts DEF IInv, Typed, OnItsWay
<1>1. CASE Arrive(r)
  <2>1. PICK c \in Commands \union Reads : call' = [call EXCEPT ![r] = c]
    BY <1>1 DEF Arrive
  <2>2. Typed' /\ call'[r] = c /\ at'[r] = "arrived" /\ at[r] = "idle"
        /\ reply' = reply /\ log' = log
        /\ \A s \in Requests \ {r} : at'[s] = at[s] /\ call'[s] = call[s]
    BY <1>0, <1>1, <2>1 DEF Arrive, At, Typed, Place
  <2>3. OnItsWay(r)'
    BY <1>0, <2>2 DEF OnItsWay
  <2>4. \A s \in Requests \ {r} : OnItsWay(s)'
    BY <1>0, <2>2, Untouched
  <2> QED
    BY <2>2, <2>3, <2>4 DEF IInv
<1>2. CASE Authenticate(r)
  <2>1. CASE call[r].founder
    <3>1. Typed' /\ at'[r] = "resolving" /\ at[r] = "arrived"
          /\ call' = call /\ reply' = reply /\ log' = log
          /\ \A s \in Requests \ {r} : at'[s] = at[s]
      BY <1>0, <1>2, <2>1 DEF Authenticate, At, Typed, Place
    <3>2. OnItsWay(r)'
      BY <1>0, <3>1 DEF OnItsWay
    <3>3. \A s \in Requests \ {r} : OnItsWay(s)'
      BY <1>0, <3>1, Untouched
    <3> QED
      BY <3>1, <3>2, <3>3 DEF IInv
  <2>2. CASE ~call[r].founder
    BY <1>2, <2>2, RefusingSilently, CommonRefusals DEF Authenticate
  <2> QED
    BY <2>1, <2>2
<1>3. CASE Resolve(r)
  <2>1. at[r] = "resolving" /\ call[r].family \in Families /\ UNCHANGED <<storage, held, call>>
    BY <1>0, <1>3 DEF Resolve
  <2>2. PICK refusal \in Probe(call[r].family), rootless \in RootProbe(call[r]) :
          CASE refusal # NoReply -> Answers(r, refusal, <<>>)
            [] refusal = NoReply /\ rootless # NoReply -> Answers(r, rootless, <<>>)
            [] refusal = NoReply /\ rootless = NoReply /\ ~call[r].valid ->
                 Answers(r, ValidationError, <<>>)
            [] refusal = NoReply /\ rootless = NoReply /\ call[r].valid ->
                 At(r, "serving") /\ UNCHANGED <<reply, log>>
    BY <1>3 DEF Resolve
  <2>3. /\ refusal = NoReply \/ refusal \in Refusal
        /\ rootless = NoReply \/ rootless \in Refusal
        /\ ValidationError \in Refusal
    BY <1>0, <2>1, ProbesAreInventoried, RootProbesAreInventoried, CommonRefusals DEF Typed
  <2>4. CASE \E answer \in Refusal : Answers(r, answer, <<>>)
    BY <1>3, <2>1, <2>4, RefusingSilently DEF Resolve
  <2>5. CASE At(r, "serving") /\ UNCHANGED <<reply, log>>
    <3>1. Typed' /\ at'[r] = "serving" /\ call' = call /\ reply' = reply /\ log' = log
          /\ \A s \in Requests \ {r} : at'[s] = at[s]
      BY <1>0, <1>3, <2>5 DEF Resolve, At, Typed, Place
    <3>2. OnItsWay(r)'
      BY <1>0, <2>1, <3>1 DEF OnItsWay
    <3>3. \A s \in Requests \ {r} : OnItsWay(s)'
      BY <1>0, <3>1, Untouched
    <3> QED
      BY <3>1, <3>2, <3>3 DEF IInv
  <2>6. \/ \E answer \in Refusal : Answers(r, answer, <<>>)
        \/ At(r, "serving") /\ UNCHANGED <<reply, log>>
    BY <2>2, <2>3, Zenon
  <2> QED
    BY <2>4, <2>5, <2>6
<1>4. CASE Commit(r)
  <2>1. PICK names \in AcceptedNames(call[r], Created) :
          Answers(r, Created, Told(names, Created.status))
    BY <1>4 DEF Commit
  <2>2. call[r] \in Commands /\ call[r].digest \in Digests
    BY <1>0, <1>4, AskedFacts, CommandFacts DEF Commit
  <2>3. held' \in [Spaces -> Digests \union {None}]
    BY <1>0, <1>4, <2>2 DEF Commit
  <2> QED
    BY <1>4, <2>1, <2>3, Accepting DEF Commit, Success
<1>5. CASE Replay(r)
  <2>1. PICK names \in AcceptedNames(call[r], Replayed) :
          Answers(r, Replayed, Told(names, Replayed.status))
    BY <1>5 DEF Replay
  <2> QED
    BY <1>0, <1>5, <2>1, Accepting DEF Replay, Success
<1>6. CASE Conflicts(r)
  BY <1>0, <1>6, KeyReusedIsKnown, RefusesFacts DEF Conflicts
<1>7. CASE Refuse(r)
  BY <1>7, RefusesFacts DEF Refuse, MayRaise
<1>8. CASE StorageFails(r)
  BY <1>8, RefusesFacts DEF StorageFails, MayRaise
<1>9. CASE Raise(r)
  BY <1>9, RefusingSilently, CommonRefusals DEF Raise
<1>10. CASE Read(r)
  <2>1. ReadNames(call[r]) \in Seq(OtherName)
    BY OtherNamesFacts
  <2>2. /\ Told(ReadNames(call[r]), Replayed.status) \in Seq(Entry)
        /\ Len(Told(ReadNames(call[r]), Replayed.status)) = Len(ReadNames(call[r]))
        /\ \A i \in 1..Len(ReadNames(call[r])) :
             /\ Told(ReadNames(call[r]), Replayed.status)[i].event = ReadNames(call[r])[i]
             /\ Told(ReadNames(call[r]), Replayed.status)[i].status = Replayed.status
             /\ Told(ReadNames(call[r]), Replayed.status)[i].event # "api_request_completed"
    BY <2>1, ToldFacts, AnswerFacts
  <2>3. \A i \in 1..Len(ReadNames(call[r])) : ReadNames(call[r])[i] \notin AcceptedEvents
    BY <2>1, OtherNamesFacts
  <2> DEFINE events == Told(ReadNames(call[r]), Replayed.status)
  <2>4. /\ events \in Seq(Entry) /\ Replayed \in Answer
        /\ \A i \in 1..Len(events) : /\ events[i].status = Replayed.status
                                     /\ events[i].event # "api_request_completed"
                                     /\ events[i].event \notin AcceptedEvents
    BY <2>2, <2>3, AnswerFacts
  <2>5. /\ at[r] = "serving" /\ ~IsCommand(call[r]) /\ Answers(r, Replayed, events)
        /\ UNCHANGED <<storage, call, crashes, changes>>
        /\ held' \in [Spaces -> Digests \union {None}]
    BY <1>0, <1>10 DEF Read
  <2> HIDE DEF events
  <2> QED
    BY <2>4, <2>5, Answering
<1>11. CASE Complete(r)
  <2> DEFINE done == Completion(IF at[r] = "raised" THEN Unexpected ELSE reply[r])
  <2>1. /\ at[r] \in {"replying", "raised"} /\ reply[r] \in Answer /\ Completions(r) = {}
        /\ log[r] \in Seq(Entry) /\ Consistent(r) /\ done = Completion(reply[r])
    BY <1>0, <1>11 DEF Complete, OnItsWay, Typed
  <2>2. /\ done \in Entry /\ done.event = "api_request_completed"
        /\ done.status = reply[r].status /\ done.event \notin AcceptedEvents
    <3>1. /\ reply[r].status \in Nat /\ reply[r].code \in Codes \union {None}
      BY <2>1, AnswerFacts
    <3>2. done = [event |-> "api_request_completed", status |-> reply[r].status,
                  code |-> reply[r].code]
      BY <2>1 DEF Completion
    <3>3. "api_request_completed" \notin AcceptedEvents
      BY AcceptedEventsAreNames DEF AcceptedName
    <3> HIDE DEF done
    <3> QED
      BY <3>1, <3>2, <3>3 DEF Entry, Done
  <2> HIDE DEF done
  <2>3. /\ log'[r] = Append(log[r], done) /\ log' \in [Requests -> Seq(Entry)]
        /\ \A s \in Requests \ {r} : log'[s] = log[s]
    BY <1>0, <1>11, <2>1, <2>2 DEF Complete, Typed, done
  <2>4. /\ at'[r] = "completed" /\ at' \in [Requests -> Place]
        /\ \A s \in Requests \ {r} : at'[s] = at[s]
        /\ UNCHANGED <<call, reply>>
    BY <1>0, <1>11 DEF Complete, At, Place
  <2>5. Typed'
    BY <1>0, <1>11, <2>3, <2>4 DEF Complete, Typed
  <2>6. /\ Len(log[r]) \in Nat /\ DOMAIN log[r] = 1..Len(log[r])
        /\ Len(log'[r]) = Len(log[r]) + 1 /\ DOMAIN log'[r] = 1..(Len(log[r]) + 1)
        /\ \A i \in 1..Len(log[r]) : log'[r][i] = log[r][i]
        /\ log'[r][Len(log[r]) + 1] = done
    BY <2>1, <2>2, <2>3
  <2>7. Completions(r)' = {Len(log'[r])}
    BY <2>1, <2>2, <2>6 DEF Completions
  <2>8. Consistent(r)'
    <3>1. \A i \in DOMAIN log'[r] : i \in DOMAIN log[r] \/ i = Len(log[r]) + 1
      BY <2>6
    <3>2. DOMAIN log[r] \subseteq DOMAIN log'[r] /\ Len(log[r]) + 1 \in DOMAIN log'[r]
      BY <2>6
    <3>3. \A i \in DOMAIN log[r] : log'[r][i] = log[r][i]
      BY <2>6
    <3>4. (\E i \in DOMAIN log'[r] : log'[r][i].event \in AcceptedEvents)
            <=> \E i \in DOMAIN log[r] : log[r][i].event \in AcceptedEvents
      BY <2>2, <2>6, <3>1, <3>2, <3>3
    <3>5. \A i \in DOMAIN log'[r] : log'[r][i].status = reply[r].status
      BY <2>1, <2>2, <2>6, <3>1, <3>3 DEF Consistent
    <3> QED
      BY <2>1, <2>4, <3>4, <3>5 DEF Consistent
  <2>9. OnItsWay(r)'
    BY <1>0, <2>1, <2>4, <2>6, <2>7, <2>8, AnswerFacts DEF OnItsWay
  <2>10. \A s \in Requests \ {r} : OnItsWay(s)'
    BY <1>0, <2>3, <2>4, Untouched
  <2> QED
    BY <2>5, <2>9, <2>10 DEF IInv
<1>12. CASE Send(r)
  <2>1. Typed' /\ at[r] = "completed" /\ at'[r] = "answered" /\ UNCHANGED <<call, reply, log>>
        /\ \A s \in Requests \ {r} : at'[s] = at[s]
    BY <1>0, <1>12 DEF Send, At, Typed, Place
  <2>2. Completions(r)' = Completions(r) /\ Consistent(r)' = Consistent(r)
    BY <2>1 DEF Completions, Consistent
  <2>3. OnItsWay(r)'
    BY <1>0, <2>1, <2>2 DEF OnItsWay
  <2>4. \A s \in Requests \ {r} : OnItsWay(s)'
    BY <1>0, <2>1, Untouched
  <2> QED
    BY <2>1, <2>3, <2>4 DEF IInv
<1> QED
  BY <1>1, <1>2, <1>3, <1>4, <1>5, <1>6, <1>7, <1>8, <1>9, <1>10, <1>11, <1>12

LEMMA Inductive ==
  ASSUME IInv, [Next]_vars
  PROVE  IInv'
<1>1. CASE \E r \in Requests :
             \/ Arrive(r) \/ Authenticate(r) \/ Resolve(r) \/ Commit(r) \/ Replay(r)
             \/ Conflicts(r) \/ Refuse(r) \/ StorageFails(r) \/ Raise(r) \/ Read(r)
             \/ Complete(r) \/ Send(r)
  BY <1>1, StepInductive
<1>2. CASE Crash
  <2>1. /\ Typed /\ UNCHANGED <<storage, held, call, reply, log, changes>>
        /\ crashes' \in 0..Crashes
        /\ at' \in [Requests -> Place]
        /\ \A r \in Requests : \/ at'[r] = at[r]
                               \/ at[r] # "idle" /\ at'[r] = "lost"
    BY <1>2, ApiAssumption DEF Crash, IInv, Typed, Place, ApiAssumption
  <2>2. Typed'
    BY <2>1 DEF Typed
  <2>3. \A r \in Requests : OnItsWay(r)'
    BY <2>1 DEF IInv, OnItsWay, Consistent, Completions
  <2> QED
    BY <2>2, <2>3 DEF IInv
<1>3. CASE ChangeStorage
  <2>1. Typed' /\ UNCHANGED <<at, call, reply, log>>
    BY <1>3, ApiAssumption DEF ChangeStorage, IInv, Typed, ApiAssumption
  <2> QED
    BY <2>1, Untouched DEF IInv
<1>4. CASE UNCHANGED vars
  <2>1. Typed' /\ UNCHANGED <<at, call, reply, log>>
    BY <1>4 DEF vars, IInv, Typed
  <2> QED
    BY <2>1, Untouched DEF IInv
<1> QED
  BY <1>1, <1>2, <1>3, <1>4 DEF Next

-----------------------------------------------------------------------------
(* The log *)

LEMMA Initial == Init => IInv
<1> SUFFICES ASSUME Init PROVE IInv
  OBVIOUS
<1>1. Typed
  BY ApiAssumption DEF Init, Typed, Place, ApiAssumption
<1>2. \A r \in Requests : OnItsWay(r)
  BY DEF Init, OnItsWay, Place
<1> QED
  BY <1>1, <1>2 DEF IInv

LEMMA Invariance == Spec => []IInv
BY Initial, Inductive, PTL DEF Spec

\* What a client was answered is the last event of its request in the log, with the status
\* and the code of the answer; a command is told as accepted exactly when it is answered
\* so; and no code is answered that the inventory does not list: for every number of
\* requests, and for whatever services may raise.
THEOREM Log == Spec => []LogTellsAnswers
BY Invariance, PromisedOfTheLog, PTL

-----------------------------------------------------------------------------
(* The promise of idempotent commands *)

Receipts == [s \in DOMAIN held |->
               IF held[s] = None THEN None ELSE [command |-> held[s], answer |-> held[s]]]
Answered == {<<Space(call[r]), call[r].digest, call[r].digest>> : r \in Accepted}

\* An answer that does not accept a command tells nothing of it.
LEMMA TellsNothing ==
  ASSUME IInv, NEW r \in Requests, NEW answer, reply[r] = NoReply,
         \/ reply' = [reply EXCEPT ![r] = answer] /\ call' = call
              /\ (answer \notin Success \/ ~IsCommand(call[r]))
         \/ reply' = reply /\ \E c : call' = [call EXCEPT ![r] = c],
         held' = held
  PROVE  Receipts' = Receipts /\ Answered' = Answered
<1>1. NoReply \notin Success
  BY DEF NoReply, Success, Created, Replayed
<1>2. /\ reply \in [Requests -> Answer \union {NoReply}]
      /\ call \in [Requests -> Commands \union Reads \union {NoCall}]
  BY DEF IInv, Typed
<1>3. \A s \in Requests \ {r} : reply'[s] = reply[s] /\ call'[s] = call[s]
  BY <1>2
<1>4. r \notin Accepted
  BY <1>1 DEF Accepted
<1>5. ~(reply'[r] \in Success /\ IsCommand(call'[r]))
  BY <1>1, <1>2
<1>6. Accepted' = Accepted
  BY <1>3, <1>4, <1>5 DEF Accepted
<1>7. \A s \in Accepted : Space(call'[s]) = Space(call[s]) /\ call'[s].digest = call[s].digest
  BY <1>3, <1>4 DEF Accepted
<1> QED
  BY <1>6, <1>7 DEF Receipts, Answered

\* One that does adds itself to what was told.
LEMMA TellsAccepted ==
  ASSUME IInv, NEW r \in Requests, NEW answer \in Success, reply[r] = NoReply,
         IsCommand(call[r]), reply' = [reply EXCEPT ![r] = answer], call' = call
  PROVE  Answered' = Answered \union {<<Space(call[r]), call[r].digest, call[r].digest>>}
<1>1. reply \in [Requests -> Answer \union {NoReply}]
  BY DEF IInv, Typed
<1>2. \A s \in Requests : reply'[s] = IF s = r THEN answer ELSE reply[s]
  BY <1>1
<1>3. Accepted' = Accepted \union {r}
  BY <1>2 DEF Accepted
<1> QED
  BY <1>3 DEF Answered

\* A step of the services, in what they hold and what is told of it.
Promised ==
  \/ UNCHANGED <<held, call, reply>>
  \/ Receipts' = Receipts /\ Answered' = Answered
  \/ \E k \in Spaces :
       \/ /\ Receipts[k] # None
          /\ Answered' = Answered \union {<<k, Receipts[k].command, Receipts[k].answer>>}
          /\ Receipts' = Receipts
       \/ \E c \in Digests, a \in Digests :
            /\ Receipts[k] = None
            /\ Receipts' = [Receipts EXCEPT ![k] = [command |-> c, answer |-> a]]
            /\ Answered' \in {Answered, Answered \union {<<k, c, a>>}}

LEMMA StepsKeepPromise ==
  ASSUME IInv, [Next]_vars
  PROVE  Promised
<1> USE DEF Promised
<1>0. /\ held \in [Spaces -> Digests \union {None}] /\ DOMAIN held = Spaces
      /\ storage \in {"ready", "missing", "incompatible", "unreadable"}
      /\ \A r \in Requests : OnItsWay(r)
      /\ Refusal \intersect Success = {} /\ Created \in Success /\ Replayed \in Success
  BY AnswerFacts DEF IInv, Typed, Success
<1>1. ASSUME NEW r \in Requests, NEW answer, NEW events, reply[r] = NoReply,
             answer \in Refusal \/ ~IsCommand(call[r]),
             Answers(r, answer, events), UNCHANGED <<held, call>>
      PROVE  Promised
  BY <1>0, <1>1, TellsNothing DEF Answers
<1>2. ASSUME NEW r \in Requests, at[r] \in {"arrived", "resolving", "serving"},
             NEW error, error \in DOMAIN Errors[call[r].family],
             Refuses(r, error), UNCHANGED <<held, call>>
      PROVE  Promised
  <2>1. call[r].family \in Families /\ reply[r] = NoReply
    BY <1>0, <1>2, AskedFacts DEF OnItsWay
  <2>2. Errors[call[r].family][error] \in Refusal
    BY <1>2, <2>1, RefusalsAreInventoried
  <2> QED
    BY <1>1, <1>2, <2>1, <2>2 DEF Refuses
<1>3. ASSUME NEW r \in Requests,
             \/ Arrive(r) \/ Authenticate(r) \/ Resolve(r) \/ Commit(r) \/ Replay(r)
             \/ Conflicts(r) \/ Refuse(r) \/ StorageFails(r) \/ Raise(r) \/ Read(r)
             \/ Complete(r) \/ Send(r)
      PROVE  Promised
  <2>0. at[r] \in {"idle", "arrived", "resolving", "serving"} => reply[r] = NoReply
    BY <1>0 DEF OnItsWay
  <2>1. CASE Arrive(r)
    BY <2>0, <2>1, TellsNothing DEF Arrive
  <2>2. CASE Authenticate(r)
    BY <1>1, <2>0, <2>2, CommonRefusals DEF Authenticate
  <2>3. CASE Resolve(r)
    <3>1. at[r] = "resolving" /\ call[r].family \in Families
      BY <1>0, <2>3, AskedFacts DEF Resolve, OnItsWay
    <3>2. PICK refusal \in Probe(call[r].family), rootless \in RootProbe(call[r]) :
            CASE refusal # NoReply -> Answers(r, refusal, <<>>)
              [] refusal = NoReply /\ rootless # NoReply -> Answers(r, rootless, <<>>)
              [] refusal = NoReply /\ rootless = NoReply /\ ~call[r].valid ->
                   Answers(r, ValidationError, <<>>)
              [] refusal = NoReply /\ rootless = NoReply /\ call[r].valid ->
                   At(r, "serving") /\ UNCHANGED <<reply, log>>
      BY <2>3 DEF Resolve
    <3>3. /\ refusal = NoReply \/ refusal \in Refusal
          /\ rootless = NoReply \/ rootless \in Refusal
          /\ ValidationError \in Refusal
      BY <1>0, <3>1, ProbesAreInventoried, RootProbesAreInventoried, CommonRefusals
    <3>4. \/ \E answer \in Refusal : Answers(r, answer, <<>>)
          \/ At(r, "serving") /\ UNCHANGED <<reply, log>>
      BY <3>2, <3>3, Zenon
    <3>5. UNCHANGED <<held, call>>
      BY <2>3 DEF Resolve
    <3> QED
      BY <1>1, <2>0, <3>1, <3>4, <3>5
  <2>4. CASE Commit(r)
    <3> DEFINE k == Space(call[r])
               d == call[r].digest
    <3>1. call[r] \in Commands /\ d \in Digests /\ k \in Spaces
      BY <1>0, <2>4, AskedFacts, CommandFacts DEF Commit, OnItsWay, Spaces
    <3>2. held[k] = None /\ held' = [held EXCEPT ![k] = d] /\ None \notin Digests
      BY <2>4, ApiAssumption DEF Commit, Stored, ApiAssumption
    <3> HIDE DEF k, d
    <3>3. Receipts[k] = None
      BY <1>0, <3>1, <3>2 DEF Receipts
    <3>4. Receipts' = [Receipts EXCEPT ![k] = [command |-> d, answer |-> d]]
      BY <1>0, <3>1, <3>2 DEF Receipts
    <3>5. reply[r] = NoReply /\ IsCommand(call[r]) /\ call' = call
          /\ reply' = [reply EXCEPT ![r] = Created]
      BY <2>0, <2>4 DEF Commit, Answers
    <3>6. Answered' = Answered \union {<<k, d, d>>}
      BY <1>0, <3>5, TellsAccepted DEF k, d
    <3> QED
      BY <3>1, <3>3, <3>4, <3>6
  <2>5. CASE Replay(r)
    <3> DEFINE k == Space(call[r])
               d == call[r].digest
    <3>1. call[r] \in Commands /\ d \in Digests /\ k \in Spaces
      BY <1>0, <2>5, AskedFacts, CommandFacts DEF Replay, OnItsWay, Spaces
    <3>2. held[k] = d /\ held' = held /\ None \notin Digests
      BY <2>5, ApiAssumption DEF Replay, Stored, ApiAssumption
    <3>3. reply[r] = NoReply /\ IsCommand(call[r]) /\ call' = call
          /\ reply' = [reply EXCEPT ![r] = Replayed]
      BY <2>0, <2>5 DEF Replay, Answers
    <3>4. Answered' = Answered \union {<<k, d, d>>}
      BY <1>0, <3>3, TellsAccepted
    <3> HIDE DEF k, d
    <3>5. Receipts[k] = [command |-> d, answer |-> d]
      BY <1>0, <3>1, <3>2 DEF Receipts
    <3>6. Receipts[k] # None
      BY <1>0, <3>1, <3>2, ReceiptAssumption DEF Receipts, ReceiptAssumption
    <3>7. Receipts' = Receipts
      BY <3>2 DEF Receipts
    <3> QED
      BY <3>1, <3>4, <3>5, <3>6, <3>7
  <2>6. CASE Conflicts(r)
    <3>1. call[r].family \in Families
      BY <1>0, <2>6, AskedFacts DEF Conflicts, OnItsWay
    <3> QED
      BY <1>2, <2>6, <3>1, KeyReusedIsKnown DEF Conflicts
  <2>7. CASE Refuse(r)
    BY <1>2, <2>7 DEF Refuse, MayRaise
  <2>8. CASE StorageFails(r)
    BY <1>2, <2>8 DEF StorageFails, MayRaise
  <2>9. CASE Raise(r)
    BY <1>1, <2>0, <2>9, CommonRefusals DEF Raise
  <2>10. CASE Read(r)
    BY <1>1, <2>0, <2>10 DEF Read
  <2>11. CASE Complete(r) \/ Send(r)
    BY <2>11 DEF Complete, Send
  <2> QED
    BY <1>3, <2>1, <2>2, <2>3, <2>4, <2>5, <2>6, <2>7, <2>8, <2>9, <2>10, <2>11
<1>4. CASE Crash \/ ChangeStorage \/ UNCHANGED vars
  BY <1>4 DEF Crash, ChangeStorage, vars
<1> QED
  BY <1>3, <1>4 DEF Next

\* Every step of the boundary that changes what services see is the first carrying out of
\* a command, an answer given again, or no step of theirs.
THEOREM Promise == Spec => RoutesKeepPromise
<1>1. ASSUME IInv, [Next]_vars
      PROVE  UNCHANGED <<held, call, reply>> \/ UNCHANGED Service!vars \/ Service!Next
  BY <1>1, StepsKeepPromise
  DEF Service!vars, Service!Next, Service!First, Service!Again, Receipts, Answered, Promised
<1> QED
  BY <1>1, Invariance, PTL DEF Spec, RoutesKeepPromise

-----------------------------------------------------------------------------
(* Listings (Pagination), of any number of rows and pages of any size.         *)

LEMMA SameCardinality == \A S : Listing!Cardinality(S) = Cardinality(S)
BY DEF Listing!Cardinality, Cardinality

LineUp(s, R) == \A i, j \in DOMAIN s : i < j => <<s[i], s[j]>> \in R

\* A finite set can be lined up along any strict total order of its elements: an element
\* comes after as many as are before it.
LEMMA SortExists ==
  ASSUME NEW S, IsFiniteSet(S), NEW R,
         \A e, f \in S : e = f \/ <<e, f>> \in R \/ <<f, e>> \in R,
         \A e, f \in S : ~(<<e, f>> \in R /\ <<f, e>> \in R),
         \A e, f, g \in S : <<e, f>> \in R /\ <<f, g>> \in R => <<e, g>> \in R
  PROVE  \E s \in [1..Cardinality(S) -> S] : LineUp(s, R)
<1> DEFINE n == Cardinality(S)
           Lower(e) == {f \in S : <<f, e>> \in R}
           rank == [e \in S |-> Cardinality(Lower(e)) + 1]
<1>1. n \in Nat /\ IsFiniteSet(1..n) /\ Cardinality(1..n) = n
  BY FS_CardinalityType, FS_Interval
<1>2. ASSUME NEW e \in S
      PROVE  IsFiniteSet(Lower(e)) /\ rank[e] \in 1..n /\ rank[e] = Cardinality(Lower(e)) + 1
  <2>1. Lower(e) \in SUBSET (S \ {e})
    OBVIOUS
  <2>2. IsFiniteSet(S \ {e}) /\ Cardinality(S \ {e}) = n - 1
    BY FS_RemoveElement
  <2> HIDE DEF Lower
  <2>3. IsFiniteSet(Lower(e)) /\ Cardinality(Lower(e)) <= n - 1
    BY <2>1, <2>2, FS_Subset
  <2>4. Cardinality(Lower(e)) \in Nat
    BY <2>3, FS_CardinalityType
  <2> QED
    BY <1>1, <2>3, <2>4
<1> HIDE DEF rank
<1>3. ASSUME NEW e \in S, NEW f \in S, <<e, f>> \in R
      PROVE  rank[e] < rank[f]
  <2>1. Lower(e) \union {e} \subseteq Lower(f) /\ e \notin Lower(e)
    BY <1>3
  <2>2. Cardinality(Lower(e) \union {e}) = Cardinality(Lower(e)) + 1
    BY <1>2, <2>1, FS_AddElement
  <2>3. Cardinality(Lower(e) \union {e}) <= Cardinality(Lower(f))
    BY <1>2, <2>1, FS_Subset
  <2>4. Cardinality(Lower(e)) \in Nat /\ Cardinality(Lower(f)) \in Nat
    BY <1>2, FS_CardinalityType
  <2> HIDE DEF Lower
  <2> QED
    BY <1>2, <2>2, <2>3, <2>4
<1> HIDE DEF Lower
<1>4. rank \in Injection(S, 1..n)
  <2>1. rank \in [S -> 1..n]
    BY <1>2 DEF rank
  <2>2. ASSUME NEW e \in S, NEW f \in S, rank[e] = rank[f] PROVE e = f
    <3>1. rank[e] \in Nat /\ rank[f] \in Nat
      BY <1>1, <1>2
    <3>2. ~(rank[e] < rank[f]) /\ ~(rank[f] < rank[e])
      BY <2>2, <3>1
    <3> QED
      BY <1>3, <3>2
  <2> QED
    BY <2>1, <2>2 DEF Injection, IsInjective
<1>5. rank \in Surjection(S, 1..n)
  BY <1>1, <1>4, FS_Injection
<1> DEFINE s == [i \in 1..n |-> CHOOSE e \in S : rank[e] = i]
<1>6. \A i \in 1..n : s[i] \in S /\ rank[s[i]] = i
  BY <1>5 DEF Surjection
<1>7. s \in [1..n -> S] /\ DOMAIN s = 1..n
  BY <1>6
<1> HIDE DEF s
<1>8. LineUp(s, R)
  <2> SUFFICES ASSUME NEW i \in 1..n, NEW j \in 1..n, i < j PROVE <<s[i], s[j]>> \in R
    BY <1>7 DEF LineUp
  <2>1. s[i] # s[j] /\ <<s[j], s[i]>> \notin R
    BY <1>1, <1>3, <1>6
  <2> QED
    BY <1>6, <2>1
<1> QED
  BY <1>7, <1>8

\* It holds every element then.
Unlike(s, n) == \A i, j \in 1..n : i < j => s[i] # s[j]

LEMMA SortedHoldsAll ==
  ASSUME NEW S, IsFiniteSet(S), NEW s \in [1..Cardinality(S) -> S],
         Unlike(s, Cardinality(S))
  PROVE  /\ s \in Seq(S) /\ Len(s) = Cardinality(S) /\ Len(s) \in Nat
         /\ \A e \in S : \E i \in 1..Len(s) : s[i] = e
<1>1. Cardinality(S) \in Nat /\ IsFiniteSet(1..Cardinality(S))
      /\ Cardinality(1..Cardinality(S)) = Cardinality(S)
  BY FS_CardinalityType, FS_Interval
<1>2. s \in Injection(1..Cardinality(S), S)
  BY <1>1 DEF Injection, IsInjective, Unlike
<1>3. s \in Surjection(1..Cardinality(S), S)
  BY <1>1, <1>2, FS_Injection
<1>4. s \in Seq(S) /\ Len(s) = Cardinality(S)
  BY <1>1
<1> QED
  BY <1>1, <1>3, <1>4 DEF Surjection

-----------------------------------------------------------------------------
(* Pages.                                                                      *)

PageRow == [id : 1..MaxRows, at : Listing!Positions, tag : Tags]
InFront(k, r, s) == IF k \in Listing!NewestFirst THEN Listing!Newer(r, s) ELSE Listing!Earlier(r, s)
SortedBy(k, rs)  == IF k \in Listing!NewestFirst THEN Listing!ByNewest(rs) ELSE Listing!ByOldest(rs)

\* Rows are told apart by what they are sorted by.
Apart(k, rs) == \A r, s \in rs : r = s \/ InFront(k, r, s) \/ InFront(k, s, r)

LEMMA PageRowFacts ==
  ASSUME Listing!PaginationAssumption, NEW r \in PageRow
  PROVE  r.id \in Nat /\ r.at \in Nat
BY DEF PageRow, Listing!Positions, Listing!PaginationAssumption

LEMMA FrontFacts ==
  ASSUME Listing!PaginationAssumption, NEW k, NEW r \in PageRow, NEW s \in PageRow, NEW t \in PageRow
  PROVE  /\ ~InFront(k, r, r)
         /\ ~(InFront(k, r, s) /\ InFront(k, s, r))
         /\ InFront(k, r, s) /\ InFront(k, s, t) => InFront(k, r, t)
BY PageRowFacts DEF InFront, Listing!Newer, Listing!Earlier

LEMMA SortedRows ==
  ASSUME Listing!PaginationAssumption, NEW k, NEW rs \in SUBSET PageRow, IsFiniteSet(rs), Apart(k, rs)
  PROVE  /\ SortedBy(k, rs) \in Seq(rs) /\ Len(SortedBy(k, rs)) \in Nat
         /\ \A i, j \in 1..Len(SortedBy(k, rs)) :
              i < j => InFront(k, SortedBy(k, rs)[i], SortedBy(k, rs)[j])
         /\ \A r \in rs : \E i \in 1..Len(SortedBy(k, rs)) : SortedBy(k, rs)[i] = r
<1> DEFINE R == {p \in rs \X rs : InFront(k, p[1], p[2])}
           n == Cardinality(rs)
           Ordered(s) == \A i, j \in DOMAIN s : i < j => InFront(k, s[i], s[j])
<1>1. \A e, f \in rs : <<e, f>> \in R <=> InFront(k, e, f)
  OBVIOUS
<1> HIDE DEF R
<1>2. \E s \in [1..n -> rs] : LineUp(s, R)
  <2>1. \A e, f \in rs : e = f \/ <<e, f>> \in R \/ <<f, e>> \in R
    BY <1>1 DEF Apart
  <2>2. \A e, f \in rs : ~(<<e, f>> \in R /\ <<f, e>> \in R)
    BY <1>1, FrontFacts
  <2>3. \A e, f, g \in rs : <<e, f>> \in R /\ <<f, g>> \in R => <<e, g>> \in R
    BY <1>1, FrontFacts
  <2> QED
    BY <2>1, <2>2, <2>3, SortExists
<1>3. \E s \in [1..n -> rs] : Ordered(s)
  BY <1>1, <1>2 DEF LineUp
<1>4. SortedBy(k, rs) = CHOOSE s \in [1..n -> rs] : Ordered(s)
  BY SameCardinality DEF SortedBy, Listing!ByNewest, Listing!ByOldest, InFront
<1>5. PICK s : s = SortedBy(k, rs)
  OBVIOUS
<1> HIDE DEF Ordered
<1>6. s \in [1..n -> rs] /\ Ordered(s)
  BY <1>3, <1>4, <1>5
<1>7. (\A i, j \in 1..n : i < j => InFront(k, s[i], s[j])) /\ Unlike(s, n)
  BY <1>6, FrontFacts DEF Ordered, Unlike
<1>8. /\ s \in Seq(rs) /\ Len(s) = n /\ Len(s) \in Nat
      /\ \A r \in rs : \E i \in 1..Len(s) : s[i] = r
  BY <1>6, <1>7, SortedHoldsAll
<1> QED
  BY <1>5, <1>7, <1>8

InOrder(k, s) == \A i, j \in 1..Len(s) : i < j => InFront(k, s[i], s[j])
Holds(s, e)   == \E i \in 1..Len(s) : s[i] = e

\* What a page tells of the rows rs that its query selects: rows of them, in order; and
\* when it is the last one all of them, otherwise all but some behind its last row.
PageTells(k, rs, page) ==
  /\ page.items \in Seq(rs) /\ InOrder(k, page.items)
  /\ page.more \in BOOLEAN
  /\ page.more => page.items # <<>>
  /\ \A r \in rs : Holds(page.items, r)
                   \/ (page.more /\ InFront(k, Listing!Last(page.items), r))

LEMMA PageOf ==
  ASSUME Listing!PaginationAssumption, NEW k, NEW rs \in SUBSET PageRow, IsFiniteSet(rs),
         Apart(k, rs), NEW n \in Limits
  PROVE  PageTells(k, rs, Listing!Page(SortedBy(k, rs), n))
<1> DEFINE page == Listing!Page(SortedBy(k, rs), n)
<1>1. PICK s : s = SortedBy(k, rs)
  OBVIOUS
<1>2. /\ s \in Seq(rs) /\ Len(s) \in Nat
      /\ InOrder(k, s)
      /\ \A r \in rs : Holds(s, r)
  BY <1>1, SortedRows DEF InOrder, Holds
<1>3. n \in Nat /\ n >= 1
  BY DEF Listing!PaginationAssumption
<1>4. PICK size : size = IF Len(s) > n THEN n ELSE Len(s)
  OBVIOUS
<1>5. size \in 0..Len(s) /\ (Len(s) > n => size = n) /\ (~(Len(s) > n) => size = Len(s))
  BY <1>2, <1>3, <1>4
<1>6. PICK items : items = SubSeq(s, 1, size)
  OBVIOUS
<1>7. page = [items |-> items, more |-> Len(s) > n]
  BY <1>1, <1>4, <1>6 DEF Listing!Page
<1>8. /\ items \in Seq(rs) /\ Len(items) = size /\ DOMAIN items = 1..size
      /\ \A i \in 1..size : items[i] = s[i]
  BY <1>2, <1>5, <1>6, SubSeqProperties
<1>9. page.items = items /\ page.more = (Len(s) > n) /\ page.more \in BOOLEAN
  BY <1>7
<1>10. InOrder(k, items)
  <2> SUFFICES ASSUME NEW i \in 1..Len(items), NEW j \in 1..Len(items), i < j
               PROVE  InFront(k, items[i], items[j])
    BY DEF InOrder
  <2>1. i \in 1..Len(s) /\ j \in 1..Len(s) /\ items[i] = s[i] /\ items[j] = s[j]
    BY <1>2, <1>5, <1>8
  <2> QED
    BY <1>2, <2>1 DEF InOrder
<1>11. Len(s) > n => items # <<>> /\ items[Len(items)] = s[n] /\ n \in 1..Len(s)
  <2> SUFFICES ASSUME Len(s) > n
               PROVE  items # <<>> /\ items[Len(items)] = s[n] /\ n \in 1..Len(s)
    OBVIOUS
  <2>1. Len(items) = n /\ n \in 1..Len(s) /\ n \in 1..size
    BY <1>2, <1>3, <1>5, <1>8
  <2>2. items # <<>>
    BY <1>3, <2>1
  <2> QED
    BY <1>8, <2>1, <2>2
<1>12. ASSUME NEW r \in rs
       PROVE  Holds(items, r) \/ (Len(s) > n /\ InFront(k, Listing!Last(items), r))
  <2>1. PICK i \in 1..Len(s) : s[i] = r
    BY <1>2 DEF Holds
  <2>2. CASE i <= size
    <3>1. i \in 1..Len(items) /\ items[i] = r
      BY <1>2, <1>5, <1>8, <2>1, <2>2
    <3> QED
      BY <3>1 DEF Holds
  <2>3. CASE ~(i <= size)
    <3>1. Len(s) > n /\ n < i /\ n \in 1..Len(s)
      BY <1>2, <1>3, <1>5, <1>11, <2>1, <2>3
    <3> QED
      BY <1>2, <1>11, <2>1, <3>1 DEF InOrder, Listing!Last
  <2> QED
    BY <2>2, <2>3
<1> HIDE DEF page
<1>13. PageTells(k, rs, page)
  BY <1>8, <1>9, <1>10, <1>11, <1>12 DEF PageTells
<1> QED
  BY <1>13 DEF page

\* A page that is told after others.
LEMMA Appended ==
  ASSUME Listing!PaginationAssumption, NEW k,
         NEW s \in Seq(PageRow), NEW t \in Seq(PageRow), InOrder(k, s), InOrder(k, t),
         s # <<>> => \A e : Holds(t, e) => InFront(k, Listing!Last(s), e)
  PROVE  /\ s \o t \in Seq(PageRow) /\ InOrder(k, s \o t)
         /\ \A e : Holds(s \o t, e) <=> Holds(s, e) \/ Holds(t, e)
         /\ t # <<>> => s \o t # <<>> /\ Listing!Last(s \o t) = Listing!Last(t)
<1> DEFINE u == s \o t
<1>1. /\ u \in Seq(PageRow) /\ Len(u) = Len(s) + Len(t) /\ Len(s) \in Nat /\ Len(t) \in Nat
      /\ \A i \in 1..Len(s) : u[i] = s[i] /\ s[i] \in PageRow
      /\ \A i \in 1..Len(t) : u[Len(s) + i] = t[i] /\ t[i] \in PageRow
  BY ConcatProperties, LenProperties
<1>2. \A i \in Len(s) + 1..Len(u) : i - Len(s) \in 1..Len(t) /\ u[i] = t[i - Len(s)]
  BY <1>1
<1> HIDE DEF u
<1>3. InOrder(k, u)
  <2> SUFFICES ASSUME NEW i \in 1..Len(u), NEW j \in 1..Len(u), i < j
               PROVE  InFront(k, u[i], u[j])
    BY DEF InOrder
  <2>1. CASE j <= Len(s)
    BY <1>1, <2>1 DEF InOrder
  <2>2. CASE i > Len(s)
    <3>1. PICK l \in Nat : l = Len(s)
      BY <1>1
    <3>2. i \in l + 1..Len(u) /\ j \in l + 1..Len(u) /\ i - l < j - l
      BY <1>1, <2>2, <3>1
    <3>3. PICK a \in 1..Len(t) : a = i - l /\ u[i] = t[a]
      BY <1>2, <3>1, <3>2
    <3>4. PICK b \in 1..Len(t) : b = j - l /\ u[j] = t[b]
      BY <1>2, <3>1, <3>2
    <3>5. InFront(k, t[a], t[b])
      BY <3>2, <3>3, <3>4 DEF InOrder
    <3> QED
      BY <3>3, <3>4, <3>5
  <2>3. CASE i <= Len(s) /\ j > Len(s)
    <3>1. i \in 1..Len(s) /\ u[i] = s[i] /\ s[i] \in PageRow /\ s # <<>>
      BY <1>1, <2>3
    <3>2. j - Len(s) \in 1..Len(t) /\ u[j] = t[j - Len(s)] /\ u[j] \in PageRow
      BY <1>1, <1>2, <2>3
    <3>3. InFront(k, Listing!Last(s), u[j])
      BY <3>1, <3>2 DEF Holds
    <3>4. Listing!Last(s) \in PageRow /\ Len(s) \in 1..Len(s)
      BY <1>1, <3>1 DEF Listing!Last
    <3>5. i = Len(s) \/ InFront(k, s[i], Listing!Last(s))
      <4>1. i \in 1..Len(s) /\ (i = Len(s) \/ i < Len(s))
        BY <1>1, <3>1
      <4> QED
        BY <3>4, <4>1 DEF InOrder, Listing!Last
    <3>6. i = Len(s) \/ InFront(k, s[i], u[j])
      BY <3>1, <3>2, <3>3, <3>4, <3>5, FrontFacts
    <3>7. i = Len(s) => s[i] = Listing!Last(s)
      BY DEF Listing!Last
    <3> QED
      BY <3>1, <3>3, <3>6, <3>7
  <2> QED
    BY <1>1, <2>1, <2>2, <2>3
<1>4. ASSUME NEW e PROVE Holds(u, e) <=> Holds(s, e) \/ Holds(t, e)
  <2>1. ASSUME Holds(u, e) PROVE Holds(s, e) \/ Holds(t, e)
    <3>1. PICK i \in 1..Len(u) : u[i] = e
      BY <2>1 DEF Holds
    <3>2. CASE i <= Len(s)
      <4>1. i \in 1..Len(s) /\ s[i] = e
        BY <1>1, <3>1, <3>2
      <4> QED
        BY <4>1 DEF Holds
    <3>3. CASE i > Len(s)
      <4>1. PICK l \in Nat : l = Len(s)
        BY <1>1
      <4>2. i \in l + 1..Len(u)
        BY <1>1, <3>3, <4>1
      <4>3. i - l \in 1..Len(t) /\ t[i - l] = e
        BY <1>2, <3>1, <4>1, <4>2
      <4> QED
        BY <4>3 DEF Holds
    <3>4. i \in Nat /\ Len(s) \in Nat
      BY <1>1
    <3> QED
      BY <3>2, <3>3, <3>4
  <2>2. ASSUME Holds(s, e) PROVE Holds(u, e)
    <3>1. PICK i \in 1..Len(s) : s[i] = e
      BY <2>2 DEF Holds
    <3> QED
      BY <1>1, <3>1 DEF Holds
  <2>3. ASSUME Holds(t, e) PROVE Holds(u, e)
    <3>1. PICK i \in 1..Len(t) : t[i] = e
      BY <2>3 DEF Holds
    <3>2. Len(s) + i \in 1..Len(u) /\ u[Len(s) + i] = e
      BY <1>1, <3>1
    <3> QED
      BY <3>2 DEF Holds
  <2> QED
    BY <2>1, <2>2, <2>3
<1>5. t # <<>> => u # <<>> /\ Listing!Last(u) = Listing!Last(t)
  <2> SUFFICES ASSUME t # <<>> PROVE u # <<>> /\ Listing!Last(u) = Listing!Last(t)
    OBVIOUS
  <2>1. Len(t) \in 1..Len(t)
    BY <1>1
  <2>2. u[Len(s) + Len(t)] = t[Len(t)] /\ Len(u) = Len(s) + Len(t) /\ Len(u) >= 1
    BY <1>1, <2>1
  <2> QED
    BY <1>1, <2>2 DEF Listing!Last
<1> QED
  BY <1>1, <1>3, <1>4, <1>5 DEF u

-----------------------------------------------------------------------------
(* Listings: the invariant.                                                    *)

QueryKinds == {"orders", "fills", "runtimes", "attempts", "work", "checkpoints", "audit"}

SameRow(r, e) == r.id = e.id /\ r.at = e.at

\* A history has every position up to its length, each once.
RowsGood ==
  /\ kind \in Collections /\ rows \in SUBSET PageRow /\ IsFiniteSet(rows)
  /\ \A r, s \in rows : r.id = s.id => r = s
  /\ kind \in Listing!Histories =>
       /\ Cardinality(rows) <= MaxRows
       /\ \A r \in rows : r.at < Cardinality(rows)
       /\ \A r, s \in rows : r.at = s.at => r = s
       /\ \A p \in 0..Cardinality(rows) - 1 : \E r \in rows : r.at = p

\* What was told is in order, and its rows are still where they were.
GotGood ==
  /\ got \in Seq(PageRow) /\ InOrder(kind, got)
  /\ \A e : Holds(got, e) => \E r \in rows : SameRow(r, e)

\* A cursor of the row e, for a query among fs.
CursorOf(k, c, e, fs) ==
  /\ c \in Listing!Cursors /\ c.at = e.at
  /\ k # "ledger" => c.collection = k /\ c.id = e.id
  /\ k \in QueryKinds => c.query \in fs

\* While the client reads, its cursor is of the last row told.
CursorGood ==
  /\ status \in {"reading", "done", "refused"} /\ IsFiniteSet(asked)
  /\ status = "reading" /\ cursor = None => asked = {}
  /\ status = "done" => cursor = None
  /\ asked = {} => cursor = None /\ got = <<>> /\ existed = {} /\ steady = {}
  /\ cursor # None =>
       /\ got # <<>> /\ CursorOf(kind, cursor, Listing!Last(got), asked)
       /\ kind \in QueryKinds =>
            cursor.query = None \/ Listing!Last(got).tag = cursor.query

\* A row that every page's filter admitted has been told, or is behind the cursor.
ToldOrAhead(r) ==
  \/ \E e \in PageRow : Holds(got, e) /\ e.id = r.id
  \/ cursor # None /\ InFront(kind, Listing!Last(got), r)

SteadyGood ==
  /\ existed \subseteq Listing!Ids(rows) /\ steady \subseteq existed
  /\ \A r \in rows : r.id \in steady => ToldOrAhead(r)

\* The attempts there were are those of a version before the anchor.
AttemptsGood ==
  kind = "attempts" =>
    /\ steady = existed
    /\ \A e : Holds(got, e) => e.id \in existed
    /\ cursor # None =>
         /\ cursor.anchor \in 0..Cardinality(rows)
         /\ \A r \in rows : r.id \in existed <=> r.at < cursor.anchor

ListingInv ==
  RowsGood /\ GotGood /\ CursorGood /\ SteadyGood /\ AttemptsGood /\ Listing!RefusedForCause

LEMMA KindFacts ==
  ASSUME Listing!PaginationAssumption, RowsGood
  PROVE  /\ kind \in Listing!NewestFirst \union Listing!Histories
         /\ kind \in Listing!NewestFirst <=> kind \notin Listing!Histories
BY DEF RowsGood, Listing!PaginationAssumption, Listing!Kinds, Listing!NewestFirst, Listing!Histories

LEMMA RowsApart ==
  ASSUME Listing!PaginationAssumption, RowsGood, NEW rs \in SUBSET rows
  PROVE  rs \in SUBSET PageRow /\ IsFiniteSet(rs) /\ Apart(kind, rs)
<1>1. rs \in SUBSET PageRow /\ IsFiniteSet(rs)
  BY FS_Subset DEF RowsGood
<1>2. ASSUME NEW r \in rs, NEW s \in rs
      PROVE  r = s \/ InFront(kind, r, s) \/ InFront(kind, s, r)
  <2>1. r.at \in Nat /\ s.at \in Nat /\ r.id \in Nat /\ s.id \in Nat
    BY <1>1, PageRowFacts
  <2>2. r.id = s.id => r = s
    BY DEF RowsGood
  <2>3. kind \notin Listing!NewestFirst => (r.at = s.at => r = s)
    BY KindFacts DEF RowsGood
  <2> QED
    BY <2>1, <2>2, <2>3 DEF InFront, Listing!Newer, Listing!Earlier
<1> QED
  BY <1>1, <1>2 DEF Apart

LEMMA CursorFront ==
  ASSUME NEW k, NEW c, NEW e, NEW fs, CursorOf(k, c, e, fs), NEW r
  PROVE  InFront(k, c, r) <=> InFront(k, e, r)
BY DEF CursorOf, InFront, Listing!Newer, Listing!Earlier, Listing!NewestFirst

\* What a query selects of rs is ahead of the cursor.
Ahead(k, rs, c) == {r \in rs : c = None \/ InFront(k, c, r)}

\* The rows rs that a filter f admits, which has them all that were steady until now.
Selects(f, rs) ==
  /\ rs \in SUBSET rows /\ \A r \in rs : f = None \/ r.tag = f
  /\ \A r \in rows : (f = None \/ r.tag = f) /\ (asked = {} \/ r.id \in steady) => r \in rs

\* A page of attempts, of those before the anchor a.
AsOf(a, f, rs, next) ==
  /\ a \in 0..Cardinality(rows) /\ f = None
  /\ rs = {r \in rows : r.at < a}
  /\ IF cursor = None THEN a = Cardinality(rows) ELSE a = cursor.anchor
  /\ next # None => next.anchor = a

LEMMA ToldKeeps ==
  ASSUME Listing!PaginationAssumption, ListingInv, status = "reading",
         NEW f, NEW rs, NEW page, NEW next, NEW a, Selects(f, rs),
         PageTells(kind, Ahead(kind, rs, cursor), page),
         (next # None) = page.more,
         next # None => CursorOf(kind, next, Listing!Last(page.items), {f}),
         kind = "attempts" => AsOf(a, f, rs, next),
         Listing!Told(page.items, next, f)
  PROVE  ListingInv'
<1> DEFINE told == page.items
<1>1. /\ got' = got \o told /\ cursor' = next
      /\ status' = (IF next = None THEN "done" ELSE "reading")
      /\ asked' = asked \union {f}
      /\ existed' = (IF asked = {} THEN Listing!Ids(rows) ELSE existed)
      /\ steady' = (IF asked = {} THEN Listing!Ids(rows) ELSE steady)
                   \intersect Listing!Ids(Listing!Admitted(f))
      /\ kind' = kind /\ rows' = rows
  BY DEF Listing!Told
<1>2. RowsGood /\ GotGood /\ CursorGood /\ SteadyGood /\ AttemptsGood
  BY DEF ListingInv
<1>3. RowsGood'
  BY <1>1, <1>2 DEF RowsGood
<1>4. /\ told \in Seq(PageRow) /\ InOrder(kind, told)
      /\ \A e : Holds(told, e) => e \in rs /\ (cursor = None \/ InFront(kind, cursor, e))
      /\ next # None => told # <<>>
      /\ \A r \in rs : cursor = None \/ InFront(kind, cursor, r) =>
           Holds(told, r) \/ (next # None /\ InFront(kind, Listing!Last(told), r))
  <2>1. rs \in SUBSET PageRow
    BY <1>2 DEF RowsGood, Selects
  <2>2. told \in Seq(Ahead(kind, rs, cursor)) /\ InOrder(kind, told)
    BY DEF PageTells
  <2>3. told \in Seq(rs) /\ told \in Seq(PageRow)
    BY <2>1, <2>2 DEF Ahead
  <2>4. \A e : Holds(told, e) => e \in Ahead(kind, rs, cursor)
    BY <2>2 DEF Holds
  <2> QED
    BY <2>2, <2>3, <2>4 DEF PageTells, Ahead
<1>5. asked # {} => cursor # None
  BY <1>2 DEF CursorGood
<1>6. got # <<>> => \A e : Holds(told, e) => InFront(kind, Listing!Last(got), e)
  <2> SUFFICES ASSUME got # <<>>, NEW e, Holds(told, e)
               PROVE  InFront(kind, Listing!Last(got), e)
    OBVIOUS
  <2>1. cursor # None /\ CursorOf(kind, cursor, Listing!Last(got), asked)
    BY <1>2, <1>5 DEF CursorGood
  <2> QED
    BY <1>4, <2>1, CursorFront
<1>7. /\ got' \in Seq(PageRow) /\ InOrder(kind, got')
      /\ \A e : Holds(got', e) <=> Holds(got, e) \/ Holds(told, e)
      /\ told # <<>> => got' # <<>> /\ Listing!Last(got') = Listing!Last(told)
  BY <1>1, <1>2, <1>4, <1>6, Appended DEF GotGood
<1> HIDE DEF told
<1>8. GotGood'
  <2>1. \A e : Holds(told, e) => \E r \in rows : SameRow(r, e)
    BY <1>4 DEF Selects, SameRow
  <2>2. \A e : Holds(got', e) => \E r \in rows : SameRow(r, e)
    BY <1>2, <1>7, <2>1 DEF GotGood
  <2> QED
    BY <1>1, <1>7, <2>2 DEF GotGood
<1>9. next # None =>
        /\ got' # <<>> /\ Listing!Last(got') \in rs
        /\ CursorOf(kind, next, Listing!Last(got'), {f})
  <2> SUFFICES ASSUME next # None
               PROVE  /\ got' # <<>> /\ Listing!Last(got') \in rs
                      /\ CursorOf(kind, next, Listing!Last(got'), {f})
    OBVIOUS
  <2>1. told # <<>> /\ got' # <<>> /\ Listing!Last(got') = Listing!Last(told)
    BY <1>4, <1>7
  <2>2. Len(told) \in 1..Len(told)
    BY <1>4, <2>1
  <2>3. Holds(told, Listing!Last(told))
    BY <2>2 DEF Holds, Listing!Last
  <2> QED
    BY <1>4, <2>1, <2>3 DEF told
<1>10. CursorGood'
  <2>1. status' \in {"reading", "done", "refused"} /\ IsFiniteSet(asked')
    BY <1>1, <1>2, FS_AddElement DEF CursorGood
  <2>2. /\ asked' # {} /\ (status' = "reading" => cursor' # None)
        /\ (status' = "done" => cursor' = None)
    BY <1>1
  <2>3. ASSUME cursor' # None
        PROVE  /\ got' # <<>> /\ CursorOf(kind', cursor', Listing!Last(got'), asked')
               /\ kind' \in QueryKinds =>
                    cursor'.query = None \/ Listing!Last(got').tag = cursor'.query
    <3>1. got' # <<>> /\ Listing!Last(got') \in rs /\ CursorOf(kind, next, Listing!Last(got'), {f})
      BY <1>1, <1>9, <2>3
    <3>2. f = None \/ Listing!Last(got').tag = f
      BY <3>1 DEF Selects
    <3> QED
      BY <1>1, <3>1, <3>2 DEF CursorOf
  <2> QED
    BY <2>1, <2>2, <2>3 DEF CursorGood, Listing!Last
<1>11. SteadyGood'
  <2>1. existed' \subseteq Listing!Ids(rows) /\ steady' \subseteq existed'
    BY <1>1, <1>2 DEF SteadyGood
  <2>2. ASSUME NEW r \in rows, r.id \in steady' PROVE ToldOrAhead(r)'
    <3>1. r.id \in Listing!Ids(Listing!Admitted(f)) /\ (asked = {} \/ r.id \in steady)
      BY <1>1, <2>2
    <3>2. f = None \/ r.tag = f
      BY <1>2, <3>1 DEF Listing!Ids, Listing!Admitted, RowsGood
    <3>3. r \in rs /\ r \in PageRow
      BY <1>2, <3>1, <3>2 DEF Selects, RowsGood
    <3>4. ASSUME cursor = None \/ InFront(kind, cursor, r) PROVE ToldOrAhead(r)'
      <4>1. Holds(got', r) \/ (next # None /\ InFront(kind, Listing!Last(got'), r))
        BY <1>4, <1>7, <3>3, <3>4
      <4> QED
        BY <1>1, <3>3, <4>1 DEF ToldOrAhead, Listing!Last
    <3>5. CASE cursor # None
      <4>1. asked # {} /\ CursorOf(kind, cursor, Listing!Last(got), asked)
        BY <1>2, <3>5 DEF CursorGood
      <4>2. ToldOrAhead(r)
        BY <1>2, <3>1, <4>1 DEF SteadyGood
      <4>3. CASE InFront(kind, Listing!Last(got), r)
        BY <3>4, <4>1, <4>3, CursorFront
      <4>4. CASE \E e \in PageRow : Holds(got, e) /\ e.id = r.id
        <5>1. PICK e \in PageRow : Holds(got', e) /\ e.id = r.id
          BY <1>7, <4>4
        <5> QED
          BY <5>1 DEF ToldOrAhead
      <4> QED
        BY <4>2, <4>3, <4>4 DEF ToldOrAhead
    <3> QED
      BY <3>4, <3>5
  <2>3. (\A r \in rows : r.id \in steady => ToldOrAhead(r))'
    BY <1>1, <2>2
  <2> QED
    BY <1>1, <2>1, <2>3 DEF SteadyGood
<1>12. AttemptsGood'
  <2> SUFFICES ASSUME kind = "attempts"
               PROVE  /\ steady' = existed'
                      /\ \A e : Holds(got', e) => e.id \in existed'
                      /\ next # None =>
                           /\ next.anchor \in 0..Cardinality(rows)
                           /\ \A r \in rows : r.id \in existed' <=> r.at < next.anchor
    BY <1>1 DEF AttemptsGood
  <2>1. AsOf(a, f, rs, next)
    OBVIOUS
  <2>2. Listing!Admitted(f) = rows
    BY <2>1 DEF AsOf, Listing!Admitted
  <2>3. steady' = existed' /\ existed' \subseteq Listing!Ids(rows)
    BY <1>1, <1>2, <2>2 DEF SteadyGood, AttemptsGood
  <2>4. \A r \in rows : r.id \in existed' <=> r.at < a
    <3>1. CASE cursor = None
      <4>1. asked = {} /\ a = Cardinality(rows)
        BY <1>5, <2>1, <3>1 DEF AsOf
      <4>2. \A r \in rows : r.at < Cardinality(rows)
        BY <1>2 DEF RowsGood, Listing!Histories
      <4> QED
        BY <1>1, <4>1, <4>2 DEF Listing!Ids
    <3>2. CASE cursor # None
      <4>1. asked # {} /\ a = cursor.anchor
        BY <1>2, <2>1, <3>2 DEF AsOf, CursorGood
      <4> QED
        BY <1>1, <1>2, <3>2, <4>1 DEF AttemptsGood
    <3> QED
      BY <3>1, <3>2
  <2>5. ASSUME NEW e, Holds(got', e) PROVE e.id \in existed'
    <3>1. CASE Holds(told, e)
      BY <1>4, <2>1, <2>4, <3>1 DEF AsOf
    <3>2. CASE Holds(got, e)
      <4>1. e.id \in existed
        BY <1>2, <3>2 DEF AttemptsGood
      <4>2. asked # {}
        BY <1>2, <4>1 DEF CursorGood
      <4> QED
        BY <1>1, <4>1, <4>2
    <3> QED
      BY <1>7, <2>5, <3>1, <3>2
  <2> QED
    BY <2>1, <2>3, <2>4, <2>5 DEF AsOf
<1>13. Listing!RefusedForCause'
  BY <1>1 DEF Listing!RefusedForCause
<1> QED
  BY <1>3, <1>8, <1>10, <1>11, <1>12, <1>13 DEF ListingInv

\* Rows that others create or change between two pages.
Further(r) ==
  r.id \notin Listing!Ids(rows) /\ (kind = "attempts" => r.at = Cardinality(rows))

LEMMA OthersKeep ==
  ASSUME Listing!PaginationAssumption, ListingInv, RowsGood', status = "reading",
         \A r \in rows : \E q \in rows' : SameRow(q, r),
         \A q \in rows' : Further(q) \/ \E r \in rows : SameRow(r, q),
         kind = "attempts" => Cardinality(rows') >= Cardinality(rows),
         UNCHANGED <<kind, cursor, got, asked, existed, steady, status>>
  PROVE  ListingInv'
<1>1. RowsGood /\ GotGood /\ CursorGood /\ SteadyGood /\ AttemptsGood
  BY DEF ListingInv
<1>2. GotGood'
  <2>1. ASSUME NEW e, Holds(got, e) PROVE \E q \in rows' : SameRow(q, e)
    <3>1. PICK r \in rows : SameRow(r, e)
      BY <1>1, <2>1 DEF GotGood
    <3>2. PICK q \in rows' : SameRow(q, r)
      OBVIOUS
    <3> QED
      BY <3>1, <3>2 DEF SameRow
  <2> QED
    BY <1>1, <2>1 DEF GotGood
<1>3. CursorGood'
  BY <1>1 DEF CursorGood, Listing!Last
<1>4. SteadyGood'
  <2>1. existed' \subseteq Listing!Ids(rows)' /\ steady' \subseteq existed'
    <3>1. ASSUME NEW i \in existed PROVE i \in Listing!Ids(rows)'
      <4>1. PICK r \in rows : r.id = i
        BY <1>1, <3>1 DEF SteadyGood, Listing!Ids
      <4>2. PICK q \in rows' : SameRow(q, r)
        OBVIOUS
      <4> QED
        BY <4>1, <4>2 DEF SameRow, Listing!Ids
    <3> QED
      BY <1>1, <3>1 DEF SteadyGood
  <2>2. ASSUME NEW q \in rows', q.id \in steady' PROVE ToldOrAhead(q)'
    <3>1. q.id \in Listing!Ids(rows)
      BY <1>1, <2>2 DEF SteadyGood
    <3>2. PICK r \in rows : SameRow(r, q)
      BY <2>2, <3>1 DEF Further
    <3>3. ToldOrAhead(r)
      BY <1>1, <2>2, <3>2 DEF SteadyGood, SameRow
    <3> QED
      BY <3>2, <3>3
      DEF ToldOrAhead, SameRow, Listing!Last, InFront, Listing!Newer, Listing!Earlier
  <2> QED
    BY <2>1, <2>2 DEF SteadyGood
<1>5. AttemptsGood'
  <2> SUFFICES ASSUME kind = "attempts"
               PROVE  /\ steady = existed
                      /\ \A e : Holds(got, e) => e.id \in existed
                      /\ cursor # None =>
                           /\ cursor.anchor \in 0..Cardinality(rows')
                           /\ \A q \in rows' : q.id \in existed <=> q.at < cursor.anchor
    BY DEF AttemptsGood
  <2>1. /\ steady = existed
        /\ \A e : Holds(got, e) => e.id \in existed
    BY <1>1 DEF AttemptsGood
  <2>2. ASSUME cursor # None
        PROVE  /\ cursor.anchor \in 0..Cardinality(rows')
               /\ \A q \in rows' : q.id \in existed <=> q.at < cursor.anchor
    <3>1. Cardinality(rows) \in Nat /\ Cardinality(rows') \in Nat
      BY <1>1, FS_CardinalityType DEF RowsGood
    <3>2. /\ cursor.anchor \in 0..Cardinality(rows)
          /\ \A r \in rows : r.id \in existed <=> r.at < cursor.anchor
      BY <1>1, <2>2 DEF AttemptsGood
    <3>3. ASSUME NEW q \in rows' PROVE q.id \in existed <=> q.at < cursor.anchor
      <4>1. CASE \E r \in rows : SameRow(r, q)
        BY <3>2, <4>1 DEF SameRow
      <4>2. CASE Further(q)
        <5>1. q.id \notin existed
          BY <1>1, <4>2 DEF Further, SteadyGood
        <5>2. q.at = Cardinality(rows)
          BY <4>2 DEF Further
        <5> QED
          BY <3>1, <3>2, <5>1, <5>2
      <4> QED
        BY <4>1, <4>2
    <3> QED
      BY <3>1, <3>2, <3>3
  <2> QED
    BY <2>1, <2>2
<1>6. Listing!RefusedForCause'
  BY DEF Listing!RefusedForCause
<1> QED
  BY <1>2, <1>3, <1>4, <1>5, <1>6 DEF ListingInv

LEMMA OneMore ==
  ASSUME NEW S, IsFiniteSet(S), NEW e, e \notin S
  PROVE  /\ IsFiniteSet(S \union {e}) /\ Cardinality(S) \in Nat
         /\ Cardinality(S \union {e}) = Cardinality(S) + 1
BY FS_CardinalityType, FS_AddElement

LEMMA CreateKeeps ==
  ASSUME Listing!PaginationAssumption, ListingInv, Listing!Create
  PROVE  ListingInv'
<1>1. PICK i \in 1..MaxRows \ Listing!Ids(rows), t \in 1..MaxAt, g \in Tags :
        rows' = rows \union {[id |-> i, at |-> t, tag |-> g]}
  BY DEF Listing!Create
<1>2. PICK q : q = [id |-> i, at |-> t, tag |-> g]
  OBVIOUS
<1>3. t \in Listing!Positions
  BY DEF Listing!Positions, Listing!PaginationAssumption
<1>4. q \in PageRow /\ q.id = i /\ q.id \notin Listing!Ids(rows) /\ rows' = rows \union {q}
  BY <1>1, <1>2, <1>3 DEF PageRow
<1>5. RowsGood /\ kind \in Listing!NewestFirst /\ status = "reading"
  BY DEF ListingInv, Listing!Create
<1>6. kind \notin Listing!Histories /\ kind # "attempts"
  BY <1>5 DEF Listing!NewestFirst, Listing!Histories
<1>7. \A r \in rows : r.id # q.id
  BY <1>4 DEF Listing!Ids
<1>8. /\ kind' = kind /\ UNCHANGED <<kind, cursor, got, asked, existed, steady, status>>
  BY DEF Listing!Create
<1>9. RowsGood'
  <2>1. rows' \in SUBSET PageRow /\ IsFiniteSet(rows')
    BY <1>4, <1>5, FS_AddElement DEF RowsGood
  <2>2. \A r, s \in rows' : r.id = s.id => r = s
    BY <1>4, <1>5, <1>7 DEF RowsGood
  <2> QED
    BY <1>5, <1>6, <1>8, <2>1, <2>2 DEF RowsGood
<1>10. \A r \in rows : \E p \in rows' : SameRow(p, r)
  BY <1>4 DEF SameRow
<1>11. \A p \in rows' : Further(p) \/ \E r \in rows : SameRow(r, p)
  BY <1>4, <1>6 DEF SameRow, Further
<1> QED
  BY <1>5, <1>6, <1>8, <1>9, <1>10, <1>11, OthersKeep

LEMMA ExtendKeeps ==
  ASSUME Listing!PaginationAssumption, ListingInv, Listing!Extend
  PROVE  ListingInv'
<1>1. PICK i \in 1..MaxRows \ Listing!Ids(rows), g \in Tags :
        rows' = rows \union {[id |-> i, at |-> Cardinality(rows), tag |-> g]}
  BY SameCardinality DEF Listing!Extend
<1>2. PICK q : q = [id |-> i, at |-> Cardinality(rows), tag |-> g]
  OBVIOUS
<1>3. RowsGood /\ kind \in Listing!Histories /\ status = "reading" /\ Cardinality(rows) < MaxRows
  BY SameCardinality DEF ListingInv, Listing!Extend
<1>4. PICK n \in Nat : n = Cardinality(rows)
  BY <1>3, FS_CardinalityType DEF RowsGood
<1>5. n < MaxRows /\ n \in Listing!Positions
  BY <1>3, <1>4 DEF Listing!Positions, Listing!PaginationAssumption
<1>6. /\ q \in PageRow /\ q.id = i /\ q.at = n /\ q.id \notin Listing!Ids(rows)
      /\ rows' = rows \union {q}
  BY <1>1, <1>2, <1>4, <1>5 DEF PageRow
<1>7. \A r \in rows : r.id # q.id /\ r \in PageRow /\ r.at \in Nat /\ r.at < n
  BY <1>3, <1>4, <1>6, PageRowFacts DEF Listing!Ids, RowsGood
<1>8. kind' = kind /\ UNCHANGED <<kind, cursor, got, asked, existed, steady, status>>
  BY DEF Listing!Extend
<1>9. q \notin rows
  BY <1>7
<1>10. IsFiniteSet(rows') /\ Cardinality(rows') = n + 1
  BY <1>3, <1>4, <1>6, <1>9, OneMore DEF RowsGood
<1>11. RowsGood'
  <2>1. rows' \in SUBSET PageRow
    BY <1>3, <1>6 DEF RowsGood
  <2>2. \A r, s \in rows' : r.id = s.id => r = s
    BY <1>3, <1>6, <1>7 DEF RowsGood
  <2>3. /\ Cardinality(rows') <= MaxRows
        /\ \A r \in rows' : r.at < Cardinality(rows')
    <3>1. MaxRows \in Nat
      BY DEF Listing!PaginationAssumption
    <3>2. \A r \in rows' : r.at \in Nat /\ r.at < n + 1
      BY <1>6, <1>7
    <3> QED
      BY <1>5, <1>10, <3>1, <3>2
  <2>4. \A r, s \in rows' : r.at = s.at => r = s
    BY <1>3, <1>6, <1>7 DEF RowsGood
  <2>5. ASSUME NEW p \in 0..Cardinality(rows') - 1 PROVE \E r \in rows' : r.at = p
    <3>1. CASE p = n
      BY <1>6, <3>1
    <3>2. CASE p # n
      <4>1. p \in 0..n - 1
        BY <1>10, <3>2
      <4>2. \E r \in rows : r.at = p
        BY <1>3, <1>4, <4>1 DEF RowsGood
      <4> QED
        BY <1>6, <4>2
    <3> QED
      BY <3>1, <3>2
  <2> QED
    BY <1>3, <1>8, <1>10, <2>1, <2>2, <2>3, <2>4, <2>5 DEF RowsGood
<1>12. \A r \in rows : \E p \in rows' : SameRow(p, r)
  BY <1>6 DEF SameRow
<1>13. \A p \in rows' : Further(p) \/ \E r \in rows : SameRow(r, p)
  BY <1>4, <1>6 DEF SameRow, Further
<1>14. Cardinality(rows') >= Cardinality(rows)
  BY <1>4, <1>10
<1> QED
  BY <1>3, <1>8, <1>11, <1>12, <1>13, <1>14, OthersKeep

LEMMA ChangeKeeps ==
  ASSUME Listing!PaginationAssumption, ListingInv, Listing!Change
  PROVE  ListingInv'
<1>1. PICK p \in rows : \E g \in Tags \ {p.tag} :
        rows' = (rows \ {p}) \union {[id |-> p.id, at |-> p.at, tag |-> g]}
  BY DEF Listing!Change
<1>2. PICK g \in Tags : rows' = (rows \ {p}) \union {[id |-> p.id, at |-> p.at, tag |-> g]}
  BY <1>1
<1>3. PICK q : q = [id |-> p.id, at |-> p.at, tag |-> g]
  OBVIOUS
<1>4. RowsGood /\ kind \in Listing!Changing /\ status = "reading"
  BY DEF ListingInv, Listing!Change
<1>5. p \in PageRow /\ p.id \in 1..MaxRows /\ p.at \in Listing!Positions
  BY <1>4 DEF RowsGood, PageRow
<1>6. /\ q \in PageRow /\ q.id = p.id /\ q.at = p.at
      /\ rows' = (rows \ {p}) \union {q}
  BY <1>2, <1>3, <1>5 DEF PageRow
<1>7. kind \notin Listing!Histories /\ kind # "attempts"
  BY <1>4 DEF Listing!Changing, Listing!Histories
<1>8. kind' = kind /\ UNCHANGED <<kind, cursor, got, asked, existed, steady, status>>
  BY DEF Listing!Change
<1>9. RowsGood'
  <2>1. rows' \in SUBSET PageRow /\ IsFiniteSet(rows')
    <3>1. IsFiniteSet(rows \ {p})
      BY <1>4, FS_Subset DEF RowsGood
    <3> QED
      BY <1>4, <1>6, <3>1, FS_AddElement DEF RowsGood
  <2>2. \A r, s \in rows' : r.id = s.id => r = s
    BY <1>4, <1>6 DEF RowsGood
  <2> QED
    BY <1>4, <1>7, <1>8, <2>1, <2>2 DEF RowsGood
<1>10. \A r \in rows : \E s \in rows' : SameRow(s, r)
  BY <1>6 DEF SameRow
<1>11. \A s \in rows' : Further(s) \/ \E r \in rows : SameRow(r, s)
  BY <1>6 DEF SameRow
<1> QED
  BY <1>4, <1>7, <1>8, <1>9, <1>10, <1>11, OthersKeep

-----------------------------------------------------------------------------
(* Listings: what is refused, and each of the pages.                           *)

LEMMA OneElement ==
  ASSUME NEW S, IsFiniteSet(S), Listing!Cardinality(S) = 1, NEW x \in S, NEW y \in S
  PROVE  x = y
<1>1. Cardinality(S) = 1
  BY SameCardinality
<1> QED
  BY <1>1, FS_Singleton

\* A cursor is refused with its own query only if its row has changed.
LEMMA RefusedKeeps ==
  ASSUME Listing!PaginationAssumption, ListingInv, status = "reading", cursor # None,
         NEW k \in Listing!Kinds, NEW f \in Listing!Filters, Listing!Refused(k, f),
         k = kind =>
           /\ kind \in QueryKinds
           /\ \/ cursor.query # f
              \/ kind = "runtimes" /\ ~Listing!Anchored(Listing!Admitted(f), cursor)
  PROVE  ListingInv'
<1>1. /\ status' = "refused"
      /\ asked' = asked \union {f} \union (IF k = kind THEN {} ELSE {k})
      /\ UNCHANGED <<kind, rows, cursor, got, existed, steady>>
  BY DEF Listing!Refused
<1>2. RowsGood /\ GotGood /\ CursorGood /\ SteadyGood /\ AttemptsGood
  BY DEF ListingInv
<1>3. RowsGood' /\ GotGood' /\ AttemptsGood'
  BY <1>1, <1>2 DEF RowsGood, GotGood, AttemptsGood
<1>4. SteadyGood'
  BY <1>1, <1>2 DEF SteadyGood, ToldOrAhead, Listing!Last, Listing!Ids
<1>5. asked # {} /\ IsFiniteSet(asked') /\ asked \subseteq asked' /\ f \in asked'
  <2>1. IsFiniteSet(asked \union {f})
    BY <1>2, FS_AddElement DEF CursorGood
  <2> QED
    BY <1>1, <1>2, <2>1, FS_AddElement DEF CursorGood
<1>6. CursorGood'
  BY <1>1, <1>2, <1>5 DEF CursorGood, CursorOf, Listing!Last
<1>7. Listing!RefusedForCause'
  <2> SUFFICES ASSUME Listing!Cardinality(asked') = 1
               PROVE  /\ kind = "runtimes"
                      /\ \E r \in rows : r.id = cursor.id
                           /\ \E i \in DOMAIN got : got[i].id = r.id /\ got[i].tag # r.tag
    <3>1. Listing!Cardinality(asked)' = Listing!Cardinality(asked')
      OBVIOUS
    <3> QED
      BY <1>1, <3>1 DEF Listing!RefusedForCause
  <2>1. \A x, y \in asked' : x = y
    BY <1>5, OneElement
  <2>2. k = kind
    <3> SUFFICES ASSUME k # kind PROVE FALSE
      OBVIOUS
    <3>1. k \in asked'
      BY <1>1
    <3>2. k = f
      BY <1>5, <2>1, <3>1
    <3> QED
      BY <3>2 DEF Listing!PaginationAssumption
  <2>3. /\ got # <<>> /\ CursorOf(kind, cursor, Listing!Last(got), asked)
        /\ cursor.query = None \/ Listing!Last(got).tag = cursor.query
    BY <1>2, <2>2 DEF CursorGood
  <2>4. cursor.query = f
    BY <1>5, <2>1, <2>2, <2>3 DEF CursorOf
  <2>5. kind = "runtimes" /\ ~Listing!Anchored(Listing!Admitted(f), cursor)
    BY <2>2, <2>4
  <2>6. Len(got) \in 1..Len(got) /\ DOMAIN got = 1..Len(got)
    BY <1>2, <2>3 DEF GotGood
  <2>7. PICK r \in rows : SameRow(r, Listing!Last(got))
    BY <1>2, <2>6 DEF GotGood, Holds, Listing!Last
  <2>8. r.id = cursor.id /\ r.at = cursor.at
    BY <2>3, <2>5, <2>7 DEF CursorOf, SameRow
  <2>9. r \notin Listing!Admitted(f)
    BY <2>5, <2>8 DEF Listing!Anchored
  <2>10. f # None /\ r.tag # f
    BY <2>9 DEF Listing!Admitted
  <2>11. got[Len(got)].id = r.id /\ got[Len(got)].tag # r.tag
    BY <2>3, <2>4, <2>7, <2>10 DEF SameRow, Listing!Last
  <2> QED
    BY <2>5, <2>6, <2>8, <2>11
<1> QED
  BY <1>3, <1>4, <1>6, <1>7 DEF ListingInv

\* The pages of the queries.
LEMMA NewestPage ==
  ASSUME Listing!PaginationAssumption, RowsGood, kind \in Listing!NewestFirst,
         NEW rs \in SUBSET rows, NEW n \in Limits
  PROVE  PageTells(kind, Ahead(kind, rs, cursor),
                   Listing!Page(Listing!ByNewest(Listing!Beyond(rs, cursor)), n))
<1>1. Listing!Beyond(rs, cursor) = Ahead(kind, rs, cursor)
  BY DEF Listing!Beyond, Ahead, InFront
<1>2. Ahead(kind, rs, cursor) \in SUBSET rows
  BY DEF Ahead
<1>3. Listing!ByNewest(Ahead(kind, rs, cursor)) = SortedBy(kind, Ahead(kind, rs, cursor))
  BY DEF SortedBy
<1> QED
  BY <1>1, <1>2, <1>3, RowsApart, PageOf

LEMMA OldestPage ==
  ASSUME Listing!PaginationAssumption, RowsGood, kind \in Listing!Histories,
         NEW rs \in SUBSET rows, NEW n \in Limits
  PROVE  PageTells(kind, Ahead(kind, rs, cursor),
                   Listing!Page(Listing!ByOldest(Listing!After(rs, cursor)), n))
<1>1. kind \notin Listing!NewestFirst
  BY KindFacts
<1>2. Listing!After(rs, cursor) = Ahead(kind, rs, cursor)
  BY <1>1 DEF Listing!After, Ahead, InFront
<1>3. Ahead(kind, rs, cursor) \in SUBSET rows
  BY DEF Ahead
<1>4. Listing!ByOldest(Ahead(kind, rs, cursor)) = SortedBy(kind, Ahead(kind, rs, cursor))
  BY <1>1 DEF SortedBy
<1> QED
  BY <1>2, <1>3, <1>4, RowsApart, PageOf

\* The row that a cursor is made of.
LEMMA LastOfPage ==
  ASSUME Listing!PaginationAssumption, RowsGood, NEW rs \in SUBSET rows,
         NEW page, PageTells(kind, Ahead(kind, rs, cursor), page), page.more
  PROVE  /\ Listing!Last(page.items) \in rs /\ Listing!Last(page.items) \in PageRow
         /\ page.items # <<>>
<1>1. page.items \in Seq(rs) /\ page.items # <<>>
  <2>1. page.items \in Seq(Ahead(kind, rs, cursor)) /\ page.items # <<>>
    BY DEF PageTells
  <2> QED
    BY <2>1 DEF Ahead
<1>2. Len(page.items) \in 1..Len(page.items)
  BY <1>1
<1> QED
  BY <1>1, <1>2 DEF Listing!Last, RowsGood

LEMMA AdmittedSelects ==
  ASSUME NEW f PROVE Selects(f, Listing!Admitted(f)) /\ Listing!Admitted(f) \in SUBSET rows
                     /\ Listing!Admitted(None) = rows
BY DEF Selects, Listing!Admitted

LEMMA ExecutionCursorMade ==
  ASSUME Listing!PaginationAssumption, NEW k \in Listing!Kinds, NEW e \in PageRow,
         NEW f \in Listing!Filters, NEW a \in 0..MaxRows \union {None}
  PROVE  /\ Listing!ExecutionCursor(k, e, f, a) # None
         /\ Listing!ExecutionCursor(k, e, f, a).anchor = a
         /\ CursorOf(k, Listing!ExecutionCursor(k, e, f, a), e, {f})
<1>1. e.id \in 1..MaxRows /\ e.at \in Listing!Positions
  BY DEF PageRow
<1>2. None \notin Listing!Cursors
  BY DEF Listing!PaginationAssumption
<1>3. [collection |-> k, id |-> e.id, at |-> e.at, query |-> f, anchor |-> a] \in Listing!Cursors
  BY <1>1 DEF Listing!Cursors
<1> QED
  BY <1>2, <1>3 DEF CursorOf, Listing!ExecutionCursor

LEMMA CursorsMade ==
  ASSUME Listing!PaginationAssumption, NEW e \in PageRow, NEW f \in Listing!Filters
  PROVE  /\ Listing!AccountCursor(e) # None
         /\ CursorOf("accounts", Listing!AccountCursor(e), e, {f})
         /\ \A k \in Listing!Kinds \ QueryKinds :
              Listing!DecisionCursor(k, e) # None /\ CursorOf(k, Listing!DecisionCursor(k, e), e, {f})
         /\ \A k \in Listing!Kinds :
              Listing!RuntimeCursor(k, e, f) # None /\ CursorOf(k, Listing!RuntimeCursor(k, e, f), e, {f})
         /\ [at |-> e.at] # None /\ CursorOf("ledger", [at |-> e.at], e, {f})
<1>1. e.id \in 1..MaxRows /\ e.at \in Listing!Positions
  BY DEF PageRow
<1>2. "accounts" \in Listing!Kinds \ QueryKinds /\ "ledger" \in Listing!Kinds \ QueryKinds
  BY DEF Listing!Kinds, Listing!NewestFirst, Listing!Histories, QueryKinds
<1>3. None \notin Listing!Cursors
  BY DEF Listing!PaginationAssumption
<1>4. ASSUME NEW k \in Listing!Kinds
      PROVE  /\ [collection |-> k, id |-> e.id, at |-> e.at] \in Listing!Cursors
             /\ [collection |-> k, id |-> e.id, at |-> e.at, query |-> f] \in Listing!Cursors
  BY <1>1 DEF Listing!Cursors
<1>5. [at |-> e.at] \in Listing!Cursors
  BY <1>1 DEF Listing!Cursors
<1>6. /\ Listing!AccountCursor(e) # None
      /\ CursorOf("accounts", Listing!AccountCursor(e), e, {f})
  BY <1>2, <1>3, <1>4 DEF CursorOf, Listing!AccountCursor
<1>7. \A k \in Listing!Kinds \ QueryKinds :
        Listing!DecisionCursor(k, e) # None /\ CursorOf(k, Listing!DecisionCursor(k, e), e, {f})
  BY <1>3, <1>4 DEF CursorOf, Listing!DecisionCursor
<1>8. \A k \in Listing!Kinds :
        Listing!RuntimeCursor(k, e, f) # None /\ CursorOf(k, Listing!RuntimeCursor(k, e, f), e, {f})
  BY <1>3, <1>4 DEF CursorOf, Listing!RuntimeCursor
<1>9. [at |-> e.at] # None /\ CursorOf("ledger", [at |-> e.at], e, {f})
  BY <1>2, <1>3, <1>5 DEF CursorOf
<1> QED
  BY <1>6, <1>7, <1>8, <1>9

\* A cursor that is taken comes back to the collection it is of.
LEMMA CursorHome ==
  ASSUME ListingInv, NEW k, Listing!Sent(k)
  PROVE  /\ (cursor # None => cursor.collection = k) => kind = k
         /\ k = kind /\ k # "ledger" /\ cursor # None => cursor.collection = k
BY DEF Listing!Sent, ListingInv, CursorGood, CursorOf

LEMMA StillAnchored ==
  ASSUME ListingInv, cursor # None, kind # "ledger"
  PROVE  Listing!Anchored(rows, cursor)
<1>1. GotGood /\ got # <<>> /\ CursorOf(kind, cursor, Listing!Last(got), asked)
  BY DEF ListingInv, CursorGood
<1>2. Len(got) \in 1..Len(got)
  BY <1>1 DEF GotGood
<1>3. PICK r \in rows : SameRow(r, Listing!Last(got))
  BY <1>1, <1>2 DEF GotGood, Holds, Listing!Last
<1> QED
  BY <1>1, <1>3 DEF CursorOf, SameRow, Listing!Anchored

LEMMA PageKeeps ==
  ASSUME Listing!PaginationAssumption, ListingInv, status = "reading",
         NEW f, NEW rs \in SUBSET rows, NEW page, NEW c, NEW a, Selects(f, rs),
         PageTells(kind, Ahead(kind, rs, cursor), page),
         page.more => c # None /\ CursorOf(kind, c, Listing!Last(page.items), {f}),
         kind = "attempts" => AsOf(a, f, rs, IF page.more THEN c ELSE None),
         Listing!Told(page.items, IF page.more THEN c ELSE None, f)
  PROVE  ListingInv'
<1>1. PICK next : next = IF page.more THEN c ELSE None
  OBVIOUS
<1>2. (next # None) = page.more
  BY <1>1 DEF PageTells
<1>3. next # None => CursorOf(kind, next, Listing!Last(page.items), {f})
  BY <1>1, <1>2
<1>4. kind = "attempts" => AsOf(a, f, rs, next)
  BY <1>1
<1>5. Listing!Told(page.items, next, f)
  BY <1>1
<1> QED
  BY <1>2, <1>3, <1>4, <1>5, ToldKeeps

LEMMA AccountsKeep ==
  ASSUME Listing!PaginationAssumption, ListingInv,
         NEW f \in Listing!Filters, NEW n \in Limits, Listing!ListAccounts(f, n)
  PROVE  ListingInv'
<1> DEFINE page == Listing!AccountsPage(f, cursor, n)
<1>1. Listing!Sent("accounts") /\ status = "reading" /\ RowsGood
  BY DEF Listing!ListAccounts, Listing!Sent, ListingInv
<1>2. CASE ~Listing!AccountDecodes(cursor)
  <2>1. Listing!Refused("accounts", f)
    BY <1>2 DEF Listing!ListAccounts
  <2>2. cursor # None /\ "accounts" # kind
    BY <1>1, <1>2, CursorHome DEF Listing!AccountDecodes
  <2>3. "accounts" \in Listing!Kinds
    BY DEF Listing!Kinds, Listing!NewestFirst
  <2> QED
    BY <1>1, <2>1, <2>2, <2>3, RefusedKeeps
<1>3. CASE Listing!AccountDecodes(cursor)
  <2>1. kind = "accounts" /\ kind \in Listing!NewestFirst
    BY <1>1, <1>3, CursorHome DEF Listing!AccountDecodes, Listing!NewestFirst
  <2>2. PageTells(kind, Ahead(kind, Listing!Admitted(f), cursor), page)
    BY <1>1, <2>1, AdmittedSelects, NewestPage DEF Listing!AccountsPage
  <2>3. Listing!Told(page.items,
          IF page.more THEN Listing!AccountCursor(Listing!Last(page.items)) ELSE None, f)
    BY <1>3 DEF Listing!ListAccounts
  <2> HIDE DEF page
  <2>4. page.more =>
          /\ Listing!AccountCursor(Listing!Last(page.items)) # None
          /\ CursorOf(kind, Listing!AccountCursor(Listing!Last(page.items)),
                      Listing!Last(page.items), {f})
    BY <1>1, <2>1, <2>2, AdmittedSelects, LastOfPage, CursorsMade
  <2> QED
    BY <1>1, <2>1, <2>2, <2>3, <2>4, AdmittedSelects, PageKeeps
<1> QED
  BY <1>2, <1>3

LEMMA DecisionsKeep ==
  ASSUME Listing!PaginationAssumption, ListingInv,
         NEW k \in {"signals", "intents", "decisions"},
         NEW f \in Listing!Filters, NEW n \in Limits, NEW page,
         page = Listing!Page(Listing!ByNewest(Listing!Beyond(Listing!Admitted(f), cursor)), n),
         Listing!ListDecisions(k, f, n, page)
  PROVE  ListingInv'
<1>1. Listing!Sent(k) /\ status = "reading" /\ RowsGood
  BY DEF Listing!ListDecisions, Listing!Sent, ListingInv
<1>2. k \in Listing!Kinds \ QueryKinds /\ k \in Listing!NewestFirst /\ k # "ledger"
  BY DEF Listing!Kinds, Listing!NewestFirst, QueryKinds
<1>3. CASE ~Listing!DecisionDecodes(cursor, k)
  <2>1. Listing!Refused(k, f)
    BY <1>3 DEF Listing!ListDecisions
  <2>2. cursor # None /\ k # kind
    BY <1>1, <1>2, <1>3, CursorHome DEF Listing!DecisionDecodes
  <2> QED
    BY <1>1, <1>2, <2>1, <2>2, RefusedKeeps
<1>4. CASE Listing!DecisionDecodes(cursor, k)
  <2>1. kind = k
    BY <1>1, <1>4, CursorHome DEF Listing!DecisionDecodes
  <2>2. PageTells(kind, Ahead(kind, Listing!Admitted(f), cursor), page)
    BY <1>1, <1>2, <2>1, AdmittedSelects, NewestPage
  <2>3. Listing!Told(page.items,
          IF page.more THEN Listing!DecisionCursor(k, Listing!Last(page.items)) ELSE None, f)
    BY <1>4 DEF Listing!ListDecisions
  <2>4. page.more =>
          /\ Listing!DecisionCursor(k, Listing!Last(page.items)) # None
          /\ CursorOf(kind, Listing!DecisionCursor(k, Listing!Last(page.items)),
                      Listing!Last(page.items), {f})
    BY <1>1, <1>2, <2>1, <2>2, AdmittedSelects, LastOfPage, CursorsMade
  <2>5. kind # "attempts"
    BY <1>2, <2>1 DEF QueryKinds
  <2> QED
    BY <1>1, <2>2, <2>3, <2>4, <2>5, AdmittedSelects, PageKeeps
<1> QED
  BY <1>3, <1>4

LEMMA ExecutionKeeps ==
  ASSUME Listing!PaginationAssumption, ListingInv,
         NEW k \in {"orders", "fills", "attempts"}, NEW f \in Listing!Filters,
         NEW rs \in SUBSET rows, NEW page, NEW a,
         k = kind /\ Listing!ExecutionDecodes(cursor, k, f) =>
           /\ a \in 0..MaxRows \union {None}
           /\ Selects(f, rs) /\ PageTells(kind, Ahead(kind, rs, cursor), page)
           /\ kind = "attempts" =>
                /\ a \in 0..Cardinality(rows) /\ f = None /\ rs = {r \in rows : r.at < a}
                /\ a = IF cursor = None THEN Cardinality(rows) ELSE cursor.anchor,
         Listing!ListExecution(k, f, a, page)
  PROVE  ListingInv'
<1>1. Listing!Sent(k) /\ status = "reading" /\ RowsGood
  BY DEF Listing!ListExecution, Listing!Sent, ListingInv
<1>2. k \in Listing!Kinds /\ k \in QueryKinds /\ k # "ledger"
  BY DEF Listing!Kinds, Listing!NewestFirst, Listing!Histories, QueryKinds
<1>3. CASE ~Listing!ExecutionDecodes(cursor, k, f)
  <2>1. Listing!Refused(k, f) /\ cursor # None
    BY <1>3 DEF Listing!ListExecution, Listing!ExecutionDecodes
  <2>2. k = kind => kind \in QueryKinds /\ cursor.query # f
    BY <1>1, <1>2, <1>3, CursorHome DEF Listing!ExecutionDecodes
  <2> QED
    BY <1>1, <1>2, <2>1, <2>2, RefusedKeeps
<1>4. CASE Listing!ExecutionDecodes(cursor, k, f)
  <2> DEFINE c == Listing!ExecutionCursor(k, Listing!Last(page.items), f, a)
  <2>1. kind = k
    BY <1>1, <1>4, CursorHome DEF Listing!ExecutionDecodes
  <2>2. /\ a \in 0..MaxRows \union {None}
        /\ Selects(f, rs) /\ PageTells(kind, Ahead(kind, rs, cursor), page)
    BY <1>4, <2>1
  <2>3. Listing!Told(page.items, IF page.more THEN c ELSE None, f)
    BY <1>4 DEF Listing!ListExecution
  <2>4. page.more => /\ c # None /\ c.anchor = a
                     /\ CursorOf(kind, c, Listing!Last(page.items), {f})
    <3> SUFFICES ASSUME page.more
                 PROVE  /\ c # None /\ c.anchor = a
                        /\ CursorOf(kind, c, Listing!Last(page.items), {f})
      OBVIOUS
    <3>1. PICK e \in PageRow : e = Listing!Last(page.items)
      BY <1>1, <2>2, LastOfPage
    <3>2. f \in Listing!Filters /\ a \in 0..MaxRows \union {None}
      BY <2>2
    <3>3. /\ Listing!ExecutionCursor(k, e, f, a) # None
          /\ Listing!ExecutionCursor(k, e, f, a).anchor = a
          /\ CursorOf(k, Listing!ExecutionCursor(k, e, f, a), e, {f})
      BY ONLY Listing!PaginationAssumption, <1>2, <3>1, <3>2, ExecutionCursorMade
    <3> QED
      BY <2>1, <3>1, <3>3
  <2> HIDE DEF c
  <2>5. kind = "attempts" => AsOf(a, f, rs, IF page.more THEN c ELSE None)
    BY <1>4, <2>1, <2>4 DEF AsOf
  <2> QED
    BY <1>1, <2>2, <2>3, <2>4, <2>5, PageKeeps
<1> QED
  BY <1>3, <1>4

LEMMA AttemptsKeep ==
  ASSUME Listing!PaginationAssumption, ListingInv, NEW n \in Limits, Listing!ListAttempts(n)
  PROVE  ListingInv'
<1> DEFINE a == Listing!Anchor
           rs == {r \in rows : r.at < a}
           page == Listing!AttemptsPage(a, cursor, n)
<1>1. None \in Listing!Filters /\ rs \in SUBSET rows
  BY DEF Listing!Filters
<1>2. Listing!ListExecution("attempts", None, a, page)
  BY DEF Listing!ListAttempts
<1>3. page = Listing!Page(Listing!ByOldest(Listing!After(rs, cursor)), n)
  <2>1. {r \in Listing!After(rows, cursor) : r.at < a} = Listing!After(rs, cursor)
    BY DEF Listing!After
  <2> HIDE DEF a, rs
  <2> QED
    BY <2>1 DEF Listing!AttemptsPage
<1>4. RowsGood /\ CursorGood /\ AttemptsGood /\ SteadyGood /\ status = "reading"
  BY <1>2 DEF ListingInv, Listing!ListExecution, Listing!Sent
<1>5. kind = "attempts" /\ Listing!ExecutionDecodes(cursor, "attempts", None) =>
        a = IF cursor = None THEN Cardinality(rows) ELSE cursor.anchor
  BY SameCardinality DEF Listing!Anchor, Listing!Version, Listing!ExecutionDecodes
<1> HIDE DEF a, page
<1>6. ASSUME kind = "attempts" /\ Listing!ExecutionDecodes(cursor, "attempts", None)
      PROVE  /\ a \in 0..Cardinality(rows) /\ a \in 0..MaxRows \union {None}
             /\ Selects(None, rs) /\ PageTells(kind, Ahead(kind, rs, cursor), page)
  <2>1. kind \in Listing!Histories
    BY <1>6 DEF Listing!Histories
  <2>2. PICK m \in Nat : m = Cardinality(rows)
    BY <1>4, FS_CardinalityType DEF RowsGood
  <2>3. m <= MaxRows /\ MaxRows \in Nat /\ \A r \in rows : r.at < m
    BY <1>4, <2>1, <2>2 DEF RowsGood, Listing!PaginationAssumption
  <2>4. a \in 0..m
    BY <1>4, <1>5, <1>6, <2>2 DEF AttemptsGood
  <2>5. ASSUME NEW r \in rows, asked = {} \/ r.id \in steady PROVE r.at < a
    <3>1. CASE cursor = None
      BY <1>5, <1>6, <2>2, <2>3, <3>1
    <3>2. CASE cursor # None
      <4>1. r.id \in existed
        BY <1>4, <2>5, <3>2 DEF CursorGood, SteadyGood
      <4> QED
        BY <1>4, <1>5, <1>6, <3>2, <4>1 DEF AttemptsGood
    <3> QED
      BY <3>1, <3>2
  <2>6. Selects(None, rs)
    BY <2>5 DEF Selects
  <2>7. PageTells(kind, Ahead(kind, rs, cursor), page)
    BY <1>1, <1>3, <1>4, <2>1, OldestPage
  <2> QED
    BY <2>2, <2>3, <2>4, <2>6, <2>7
<1> QED
  BY <1>1, <1>2, <1>5, <1>6, ExecutionKeeps

\* The pages of a runtime's evidence, and of the runtimes themselves.
LEMMA EvidenceKeeps ==
  ASSUME Listing!PaginationAssumption, ListingInv,
         NEW k \in {"runtimes", "work", "checkpoints", "audit"}, NEW f \in Listing!Filters,
         k # "runtimes" => f = None,
         NEW page, NEW intact,
         k = kind => /\ PageTells(kind, Ahead(kind, Listing!Admitted(f), cursor), page)
                     /\ intact,
         Listing!ListEvidence(k, f, Listing!Admitted(f), intact, page)
  PROVE  ListingInv'
<1>1. Listing!Sent(k) /\ status = "reading" /\ RowsGood
  BY DEF Listing!ListEvidence, Listing!Sent, ListingInv
<1>2. k \in Listing!Kinds /\ k \in QueryKinds /\ k # "ledger" /\ k # "attempts"
  BY DEF Listing!Kinds, Listing!NewestFirst, Listing!Histories, QueryKinds
<1> DEFINE taken == Listing!RuntimeDecodes(cursor, k, f)
                    /\ Listing!Anchored(Listing!Admitted(f), cursor)
<1>3. CASE ~taken
  <2>1. Listing!Refused(k, f) /\ cursor # None
    BY <1>3 DEF Listing!ListEvidence, Listing!RuntimeDecodes, Listing!Anchored
  <2>2. ASSUME k = kind
        PROVE  \/ cursor.query # f
               \/ kind = "runtimes" /\ ~Listing!Anchored(Listing!Admitted(f), cursor)
    <3>1. cursor.collection = k
      BY <1>1, <1>2, <2>1, <2>2, CursorHome
    <3>2. CASE k = "runtimes"
      BY <1>3, <2>2, <3>1, <3>2 DEF Listing!RuntimeDecodes
    <3>3. CASE k # "runtimes"
      <4>1. Listing!Anchored(Listing!Admitted(f), cursor)
        BY <1>2, <2>1, <2>2, <3>3, AdmittedSelects, StillAnchored
      <4> QED
        BY <1>3, <3>1, <4>1 DEF Listing!RuntimeDecodes
    <3> QED
      BY <3>2, <3>3
  <2> QED
    BY <1>1, <1>2, <2>1, <2>2, RefusedKeeps
<1>4. CASE taken
  <2> DEFINE c == Listing!RuntimeCursor(k, Listing!Last(page.items), f)
  <2>1. kind = k
    BY <1>1, <1>4, CursorHome DEF Listing!RuntimeDecodes
  <2>2. PageTells(kind, Ahead(kind, Listing!Admitted(f), cursor), page) /\ intact
    BY <2>1
  <2>3. Listing!Told(page.items, IF page.more THEN c ELSE None, f)
    BY <1>4, <2>2 DEF Listing!ListEvidence
  <2>4. page.more => c # None /\ CursorOf(kind, c, Listing!Last(page.items), {f})
    <3>1. page.more => Listing!Last(page.items) \in PageRow
      BY <1>1, <2>2, AdmittedSelects, LastOfPage
    <3> QED
      BY <1>2, <2>1, <3>1, CursorsMade
  <2> HIDE DEF c
  <2> QED
    BY <1>1, <1>2, <2>1, <2>2, <2>3, <2>4, AdmittedSelects, PageKeeps
<1> QED
  BY <1>3, <1>4

LEMMA CursorAt ==
  ASSUME Listing!PaginationAssumption, ListingInv, cursor # None
  PROVE  cursor.at \in Nat
<1>1. cursor \in Listing!Cursors
  BY DEF ListingInv, CursorGood, CursorOf
<1> QED
  BY <1>1 DEF Listing!Cursors, Listing!Positions, Listing!PaginationAssumption

\* A page of the audit is never taken for a damaged one.
LEMMA AuditIntact ==
  ASSUME Listing!PaginationAssumption, ListingInv, kind = "audit",
         NEW page, PageTells(kind, Ahead(kind, rows, cursor), page)
  PROVE  Listing!Contiguous(page.items, cursor)
<1> DEFINE s == page.items
<1>1. RowsGood /\ kind \in Listing!Histories /\ kind \notin Listing!NewestFirst
  BY DEF ListingInv, Listing!Histories, Listing!NewestFirst
<1>2. PICK n \in Nat : n = Cardinality(rows)
  BY <1>1, FS_CardinalityType DEF RowsGood
<1>3. /\ \A r \in rows : r.at \in Nat /\ r.at < n
      /\ \A p \in 0..n - 1 : \E r \in rows : r.at = p
  BY <1>1, <1>2, PageRowFacts DEF RowsGood
<1>4. /\ s \in Seq(Ahead(kind, rows, cursor)) /\ InOrder(kind, s)
      /\ \A r \in Ahead(kind, rows, cursor) :
           Holds(s, r) \/ (page.more /\ InFront(kind, Listing!Last(s), r))
  BY DEF PageTells
<1> HIDE DEF s
<1>5. Len(s) \in Nat
  BY <1>4
<1>6. \A i \in 1..Len(s) : s[i] \in rows /\ (cursor = None \/ cursor.at < s[i].at)
  BY <1>1, <1>4 DEF Ahead, InFront, Listing!Earlier
<1>7. \A i, j \in 1..Len(s) : i < j => s[i].at < s[j].at
  BY <1>1, <1>4 DEF InOrder, InFront, Listing!Earlier
<1>8. \A i, j \in 1..Len(s) : s[i].at \in Nat /\ (i <= j => s[i].at <= s[j].at)
  BY <1>3, <1>5, <1>6, <1>7
\* No position between two rows of a page, or before its first one, is left out.
<1>9. ASSUME NEW i \in 1..Len(s), NEW p \in Nat, p < s[i].at,
             cursor = None \/ cursor.at < p
      PROVE  \E j \in 1..Len(s) : s[j].at = p
  <2>1. PICK r \in rows : r.at = p
    BY <1>3, <1>6, <1>9
  <2>2. r \in Ahead(kind, rows, cursor)
    BY <1>1, <1>9, <2>1 DEF Ahead, InFront, Listing!Earlier
  <2>3. CASE Holds(s, r)
    BY <2>1, <2>3 DEF Holds
  <2>4. CASE InFront(kind, Listing!Last(s), r)
    <3>1. Len(s) \in 1..Len(s) /\ s[Len(s)].at < p
      BY <1>1, <1>5, <2>1, <2>4 DEF InFront, Listing!Earlier, Listing!Last
    <3>2. s[i].at <= s[Len(s)].at /\ s[i].at \in Nat /\ s[Len(s)].at \in Nat
      BY <1>5, <1>8, <3>1
    <3> QED
      BY <1>9, <3>1, <3>2
  <2> QED
    BY <1>4, <2>2, <2>3, <2>4
<1>10. s # <<>> /\ cursor = None => s[1].at = 0
  <2> SUFFICES ASSUME s # <<>>, cursor = None, s[1].at # 0 PROVE FALSE
    OBVIOUS
  <2>1. 1 \in 1..Len(s)
    BY <1>4, <1>5
  <2>2. s[1].at \in Nat /\ 0 < s[1].at
    BY <1>8, <2>1
  <2>3. PICK j \in 1..Len(s) : s[j].at = 0
    BY <1>9, <2>1, <2>2
  <2> QED
    BY <1>5, <1>8, <2>1, <2>2, <2>3
<1>11. ASSUME NEW i \in 2..Len(s), s[i].at # s[i - 1].at + 1
       PROVE  FALSE
  <2>1. i \in 1..Len(s) /\ i - 1 \in 1..Len(s) /\ i - 1 < i
    BY <1>5
  <2>2. PICK x \in Nat : x = s[i - 1].at
    BY <1>8, <2>1
  <2>3. PICK y \in Nat : y = s[i].at
    BY <1>8, <2>1
  <2>4. x < y
    BY <1>7, <2>1, <2>2, <2>3
  <2>5. x + 1 < y
    BY <1>11, <2>2, <2>3, <2>4
  <2>6. cursor = None \/ cursor.at < x + 1
    <3>1. cursor = None \/ (cursor.at < x /\ cursor.at \in Nat)
      BY <1>6, <2>1, <2>2, CursorAt
    <3> QED
      BY <3>1
  <2>7. PICK j \in 1..Len(s) : s[j].at = x + 1
    BY <1>9, <2>1, <2>3, <2>5, <2>6
  <2>8. j <= i - 1 \/ i <= j
    BY <1>5, <2>1
  <2>9. CASE j <= i - 1
    BY <1>8, <2>1, <2>2, <2>7, <2>9
  <2>10. CASE i <= j
    BY <1>8, <2>1, <2>3, <2>5, <2>7, <2>10
  <2> QED
    BY <2>8, <2>9, <2>10
<1> QED
  BY <1>10, <1>11 DEF Listing!Contiguous, s

LEMMA LedgerKeeps ==
  ASSUME Listing!PaginationAssumption, ListingInv, NEW n \in Limits, Listing!ListLedger(n)
  PROVE  ListingInv'
<1> DEFINE page == Listing!LedgerPage(cursor, n)
           c == [at |-> Listing!Last(page.items).at]
<1>1. kind = "ledger" /\ status = "reading" /\ RowsGood /\ kind \in Listing!Histories
      /\ kind # "attempts" /\ None \in Listing!Filters
  BY DEF Listing!ListLedger, ListingInv, Listing!Histories, Listing!Filters
<1>2. Listing!Told(page.items, IF page.more THEN c ELSE None, None)
  BY DEF Listing!ListLedger
<1>3. PageTells(kind, Ahead(kind, Listing!Admitted(None), cursor), page)
  <2>1. CASE cursor # None /\ cursor.at + 1 >= Cardinality(rows)
    <3>1. page = [items |-> <<>>, more |-> FALSE]
      BY <2>1, SameCardinality DEF Listing!LedgerPage
    <3>2. PICK m \in Nat : m = Cardinality(rows)
      BY <1>1, FS_CardinalityType DEF RowsGood
    <3>3. cursor.at \in Nat
      BY <2>1, CursorAt
    <3>4. \A r \in rows : r.at \in Nat /\ r.at < m
      BY <1>1, <3>2, PageRowFacts DEF RowsGood
    <3>5. kind \notin Listing!NewestFirst
      BY <1>1 DEF Listing!NewestFirst
    <3>6. Ahead(kind, Listing!Admitted(None), cursor) = {}
      BY <2>1, <3>2, <3>3, <3>4, <3>5, AdmittedSelects DEF Ahead, InFront, Listing!Earlier
    <3>7. page.items = <<>> /\ page.more = FALSE
      BY <3>1
    <3> HIDE DEF page
    <3> QED
      <4>1. page.items \in Seq({}) /\ Len(page.items) = 0
        BY <3>7
      <4>2. InOrder(kind, page.items)
        BY <4>1 DEF InOrder
      <4> QED
        BY <3>6, <3>7, <4>1, <4>2 DEF PageTells
  <2>2. CASE ~(cursor # None /\ cursor.at + 1 >= Cardinality(rows))
    <3>1. page = Listing!Page(Listing!ByOldest(Listing!After(rows, cursor)), n)
      BY <2>2, SameCardinality DEF Listing!LedgerPage
    <3> HIDE DEF page
    <3> QED
      BY <1>1, <3>1, AdmittedSelects, OldestPage
  <2> QED
    BY <2>1, <2>2
<1> HIDE DEF page
<1>4. page.more => c # None /\ CursorOf(kind, c, Listing!Last(page.items), {None})
  <2> SUFFICES ASSUME page.more
               PROVE  c # None /\ CursorOf(kind, c, Listing!Last(page.items), {None})
    OBVIOUS
  <2>1. Listing!Last(page.items) \in PageRow
    BY <1>1, <1>3, AdmittedSelects, LastOfPage
  <2> QED
    BY <1>1, <2>1, CursorsMade
<1> QED
  BY <1>1, <1>2, <1>3, <1>4, AdmittedSelects, PageKeeps

-----------------------------------------------------------------------------
LEMMA ListingBegins ==
  ASSUME Listing!PaginationAssumption, Listing!Init
  PROVE  ListingInv
<1>1. /\ kind \in Collections /\ rows = {} /\ cursor = None /\ got = <<>> /\ asked = {}
      /\ existed = {} /\ steady = {} /\ status = "reading"
  BY DEF Listing!Init
<1>2. IsFiniteSet({}) /\ Cardinality({}) = 0
  BY FS_EmptySet
<1>3. RowsGood
  BY <1>1, <1>2 DEF RowsGood, Listing!PaginationAssumption
<1>4. GotGood
  BY <1>1 DEF GotGood, InOrder, Holds
<1>5. CursorGood /\ SteadyGood
  BY <1>1, <1>2 DEF CursorGood, SteadyGood
<1>6. AttemptsGood
  BY <1>1 DEF AttemptsGood, Holds
<1>7. Listing!RefusedForCause
  BY <1>1 DEF Listing!RefusedForCause
<1> QED
  BY <1>3, <1>4, <1>5, <1>6, <1>7 DEF ListingInv

LEMMA ListKeeps ==
  ASSUME Listing!PaginationAssumption, ListingInv, Listing!List
  PROVE  ListingInv'
<1>1. PICK n \in Limits :
        \/ \E f \in Listing!Filters :
             \/ Listing!ListAccounts(f, n) \/ Listing!ListSignals(f, n)
             \/ Listing!ListIntents(f, n) \/ Listing!ListRiskDecisions(f, n)
             \/ Listing!ListOrders(f, n) \/ Listing!ListFills(f, n)
             \/ Listing!ListRuntimes(f, n)
        \/ Listing!ListAttempts(n) \/ Listing!ListWork(n) \/ Listing!ListCheckpoints(n)
        \/ Listing!ListAudit(n) \/ Listing!ListLedger(n)
  BY DEF Listing!List
<1>2. RowsGood /\ None \in Listing!Filters /\ Listing!Admitted(None) = rows
  BY AdmittedSelects DEF ListingInv, Listing!Filters
<1>3. ASSUME NEW f \in Listing!Filters, Listing!ListAccounts(f, n) PROVE ListingInv'
  BY <1>3, AccountsKeep
<1>4. ASSUME NEW f \in Listing!Filters, Listing!ListSignals(f, n) PROVE ListingInv'
  BY <1>4, DecisionsKeep DEF Listing!ListSignals, Listing!SignalsPage
<1>5. ASSUME NEW f \in Listing!Filters, Listing!ListIntents(f, n) PROVE ListingInv'
  BY <1>5, DecisionsKeep DEF Listing!ListIntents, Listing!IntentsPage
<1>6. ASSUME NEW f \in Listing!Filters, Listing!ListRiskDecisions(f, n) PROVE ListingInv'
  BY <1>6, DecisionsKeep DEF Listing!ListRiskDecisions, Listing!DecisionsPage
<1>7. ASSUME NEW f \in Listing!Filters, Listing!ListOrders(f, n) PROVE ListingInv'
  <2>1. kind = "orders" =>
          PageTells(kind, Ahead(kind, Listing!Admitted(f), cursor), Listing!OrdersPage(f, cursor, n))
    BY <1>2, AdmittedSelects, NewestPage DEF Listing!OrdersPage, Listing!NewestFirst
  <2>2. Listing!ListExecution("orders", f, None, Listing!OrdersPage(f, cursor, n))
    BY <1>7 DEF Listing!ListOrders
  <2> QED
    BY <2>1, <2>2, AdmittedSelects, ExecutionKeeps
<1>8. ASSUME NEW f \in Listing!Filters, Listing!ListFills(f, n) PROVE ListingInv'
  <2>1. kind = "fills" =>
          PageTells(kind, Ahead(kind, Listing!Admitted(f), cursor), Listing!FillsPage(f, cursor, n))
    BY <1>2, AdmittedSelects, NewestPage DEF Listing!FillsPage, Listing!NewestFirst
  <2>2. Listing!ListExecution("fills", f, None, Listing!FillsPage(f, cursor, n))
    BY <1>8 DEF Listing!ListFills
  <2> QED
    BY <2>1, <2>2, AdmittedSelects, ExecutionKeeps
<1>9. ASSUME NEW f \in Listing!Filters, Listing!ListRuntimes(f, n) PROVE ListingInv'
  <2>1. kind = "runtimes" =>
          PageTells(kind, Ahead(kind, Listing!Admitted(f), cursor), Listing!RuntimesPage(f, cursor, n))
    BY <1>2, AdmittedSelects, NewestPage DEF Listing!RuntimesPage, Listing!NewestFirst
  <2>2. Listing!ListEvidence("runtimes", f, Listing!Admitted(f), TRUE,
                             Listing!RuntimesPage(f, cursor, n))
    BY <1>9 DEF Listing!ListRuntimes
  <2> QED
    BY <2>1, <2>2, EvidenceKeeps
<1>10. CASE Listing!ListAttempts(n)
  BY <1>10, AttemptsKeep
<1>11. CASE Listing!ListWork(n)
  <2>1. kind = "work" =>
          PageTells(kind, Ahead(kind, rows, cursor), Listing!WorkPage(cursor, n))
    BY <1>2, OldestPage DEF Listing!WorkPage, Listing!Histories
  <2>2. Listing!ListEvidence("work", None, Listing!Admitted(None), TRUE,
                             Listing!WorkPage(cursor, n))
    BY <1>2, <1>11 DEF Listing!ListWork
  <2> QED
    BY <1>2, <2>1, <2>2, EvidenceKeeps
<1>12. CASE Listing!ListCheckpoints(n)
  <2>1. kind = "checkpoints" =>
          PageTells(kind, Ahead(kind, rows, cursor), Listing!CheckpointsPage(cursor, n))
    BY <1>2, OldestPage DEF Listing!CheckpointsPage, Listing!Histories
  <2>2. Listing!ListEvidence("checkpoints", None, Listing!Admitted(None), TRUE,
                             Listing!CheckpointsPage(cursor, n))
    BY <1>2, <1>12 DEF Listing!ListCheckpoints
  <2> QED
    BY <1>2, <2>1, <2>2, EvidenceKeeps
<1>13. CASE Listing!ListAudit(n)
  <2> DEFINE page == Listing!EventsPage(cursor, n)
             intact == Listing!Contiguous(page.items, cursor)
  <2>1. kind = "audit" => PageTells(kind, Ahead(kind, rows, cursor), page)
    BY <1>2, OldestPage DEF Listing!EventsPage, Listing!Histories
  <2>2. Listing!ListEvidence("audit", None, Listing!Admitted(None), intact, page)
    BY <1>2, <1>13 DEF Listing!ListAudit
  <2> HIDE DEF page
  <2>3. kind = "audit" => intact
    BY <2>1, AuditIntact
  <2> HIDE DEF intact
  <2> QED
    BY <1>2, <2>1, <2>2, <2>3, EvidenceKeeps
<1>14. CASE Listing!ListLedger(n)
  BY <1>14, LedgerKeeps
<1> QED
  BY <1>1, <1>3, <1>4, <1>5, <1>6, <1>7, <1>8, <1>9, <1>10, <1>11, <1>12, <1>13, <1>14

LEMMA ListingStays ==
  ASSUME Listing!PaginationAssumption, ListingInv, [Listing!Next]_(Listing!vars)
  PROVE  ListingInv'
<1>1. CASE Listing!Next
  BY <1>1, ListKeeps, CreateKeeps, ExtendKeeps, ChangeKeeps DEF Listing!Next
<1>2. CASE UNCHANGED Listing!vars
  <2>1. UNCHANGED <<kind, rows, cursor, got, asked, existed, steady, status>>
    BY <1>2 DEF Listing!vars
  <2>2. RowsGood' /\ GotGood' /\ CursorGood' /\ SteadyGood' /\ AttemptsGood'
    BY <2>1 DEF ListingInv, RowsGood, GotGood, CursorGood, SteadyGood, AttemptsGood,
                ToldOrAhead, Listing!Last, Listing!Ids
  <2>3. Listing!RefusedForCause'
    BY <2>1 DEF ListingInv, Listing!RefusedForCause
  <2> QED
    BY <2>2, <2>3 DEF ListingInv
<1> QED
  BY <1>1, <1>2

LEMMA ListingSays ==
  ASSUME Listing!PaginationAssumption, ListingInv
  PROVE  /\ Listing!TypeOK /\ Listing!NothingSkipped /\ Listing!InOrderOnce
         /\ Listing!AttemptsAreAsOf /\ Listing!RefusedForCause
<1>1. RowsGood /\ GotGood /\ CursorGood /\ SteadyGood /\ AttemptsGood
  BY DEF ListingInv
<1>2. got \in Seq(PageRow) /\ DOMAIN got = 1..Len(got) /\ Len(got) \in Nat
  BY <1>1 DEF GotGood
<1>3. \A i \in DOMAIN got : Holds(got, got[i])
  BY <1>2 DEF Holds
<1>4. Listing!TypeOK
  <2>1. \A i \in DOMAIN got : got[i].id \in Listing!Ids(rows)
    BY <1>1, <1>3 DEF GotGood, SameRow, Listing!Ids
  <2>2. cursor \in Listing!Cursors \union {None}
    BY <1>1 DEF CursorGood, CursorOf
  <2>3. rows \subseteq [id : 1..MaxRows, at : Listing!Positions, tag : Tags]
    BY <1>1 DEF RowsGood, PageRow
  <2> QED
    BY <1>1, <2>1, <2>2, <2>3 DEF Listing!TypeOK, RowsGood, CursorGood, SteadyGood
<1>5. ASSUME status = "done", NEW i \in steady
      PROVE  \E j \in DOMAIN got : got[j].id = i
  <2>1. PICK r \in rows : r.id = i
    BY <1>1, <1>5 DEF SteadyGood, Listing!Ids
  <2>2. ToldOrAhead(r) /\ cursor = None
    BY <1>1, <1>5, <2>1 DEF SteadyGood, CursorGood
  <2> QED
    BY <1>2, <2>1, <2>2 DEF ToldOrAhead, Holds
<1>6. Listing!NothingSkipped
  BY <1>5 DEF Listing!NothingSkipped
<1>7. Listing!InOrderOnce
  BY <1>1, <1>2 DEF GotGood, InOrder, InFront, Listing!InOrderOnce
<1>8. Listing!AttemptsAreAsOf
  <2> SUFFICES ASSUME kind = "attempts", status = "done"
               PROVE  {got[i].id : i \in DOMAIN got} = existed
    BY DEF Listing!AttemptsAreAsOf
  <2>1. steady = existed /\ \A i \in DOMAIN got : got[i].id \in existed
    BY <1>1, <1>3 DEF AttemptsGood
  <2> QED
    BY <1>5, <2>1
<1> QED
  BY <1>4, <1>6, <1>7, <1>8 DEF ListingInv

\* Whatever is created, changed and appended between its pages, and whichever filters and
\* cursors the client sends, a listing of any length tells the rows that were there all the
\* time, each once and in order; an order's attempts as of one version; and takes its own
\* cursor back unless a runtime's change of state stands against it.
THEOREM Listings ==
  ASSUME Listing!PaginationAssumption
  PROVE  Listing!Spec => []ListingsAreWhole
<1>1. Listing!Init => ListingInv
  BY ListingBegins
<1>2. ListingInv /\ [Listing!Next]_(Listing!vars) => ListingInv'
  BY ListingStays
<1>3. ListingInv => ListingsAreWhole
  BY ListingSays DEF ListingsAreWhole, Listing!ListingsAreWhole
<1> QED
  BY <1>1, <1>2, <1>3, PTL DEF Listing!Spec
=============================================================================
