----------------------------- MODULE ApiErrors -----------------------------
(***************************************************************************)
(* What the HTTP API answers for each error an application service raises. *)
(* A translator of the source is a chain of isinstance tests; the errors   *)
(* of a family are unrelated classes, so it is a function of the error.    *)
(* Messages, which are fixed per code, are left out.                       *)
(***************************************************************************)
Conflict(code)    == [status |-> 409, code |-> code]
NotFound(code)    == [status |-> 404, code |-> code]
Invalid(code)     == [status |-> 422, code |-> code]
Unavailable(code) == [status |-> 503, code |-> code]

\* An exception no handler knows, and the framework's own refusals.
Unexpected          == [status |-> 500, code |-> "internal_server_error"]
Unauthenticated     == [status |-> 401, code |-> "founder_authentication_required"]
ValidationError     == Invalid("request_validation_error")
DatabaseUnavailable == Unavailable("product_database_unavailable")

\* raise_paper_account_api_error and _value_error: the ValueErrors of the domain are
\* told apart by their text, and what is left of them by the operation.
AccountErrors ==
  [ not_found      |-> NotFound("paper_account_not_found"),
    version        |-> Conflict("paper_account_version_conflict"),
    concurrency    |-> Conflict("paper_account_version_conflict"),
    key_reused     |-> Conflict("paper_account_idempotency_conflict"),
    frozen         |-> Conflict("paper_account_frozen"),
    closed         |-> Conflict("paper_account_closed"),
    evidence       |-> Invalid("paper_account_invalid_m30_reference"),
    reconciliation |-> Conflict("paper_account_projection_stale"),
    snapshot       |-> Conflict("paper_account_snapshot_conflict"),
    operation      |-> Conflict("paper_account_reconciliation_failed"),
    busy           |-> Unavailable("paper_account_storage_busy"),
    failure        |-> Unavailable("paper_account_schema_incompatible"),
    corrupt        |-> Unavailable("paper_account_schema_incompatible"),
    decimal        |-> Invalid("paper_account_invalid_decimal"),
    cash           |-> Conflict("paper_account_insufficient_available_cash"),
    quantity       |-> Conflict("paper_account_negative_position"),
    cost           |-> Conflict("paper_account_negative_cost_basis"),
    zero           |-> Conflict("paper_account_zero_quantity_nonzero_cost_basis"),
    not_empty      |-> Conflict("paper_account_close_not_empty"),
    lifecycle      |-> Conflict("paper_account_version_conflict"),
    value          |-> ValidationError ]

\* raise_strategy_order_api_error: what the read of one row does not find is answered
\* by the operation, and for a command it is authority that is unavailable.
StrategyOrderErrors ==
  [ signal         |-> NotFound("strategy_signal_not_found"),
    intent         |-> NotFound("order_intent_not_found"),
    decision       |-> NotFound("pre_trade_risk_decision_not_found"),
    upstream       |-> Unavailable("strategy_order_authority_unavailable"),
    not_found      |-> Unavailable("strategy_order_authority_unavailable"),
    key_reused     |-> Conflict("strategy_order_idempotency_conflict"),
    stale          |-> Conflict("strategy_order_stale_authority"),
    reconciliation |-> Conflict("strategy_order_reconciliation_required"),
    runtime        |-> Invalid("strategy_order_invalid_runtime_configuration"),
    policy         |-> Invalid("strategy_order_invalid_risk_policy"),
    decimal        |-> Invalid("strategy_order_invalid_decimal"),
    cursor         |-> Invalid("strategy_order_invalid_cursor"),
    corrupt        |-> Unavailable("strategy_order_authority_unavailable"),
    busy           |-> Unavailable("strategy_order_storage_busy"),
    failure        |-> Unavailable("strategy_order_storage_failure") ]

\* raise_paper_execution_api_error
ExecutionErrors ==
  [ upstream       |-> NotFound("paper_execution_upstream_authority_not_found"),
    not_found      |-> NotFound("paper_execution_order_not_found"),
    attempt        |-> NotFound("paper_execution_attempt_not_found"),
    fill           |-> NotFound("paper_execution_fill_not_found"),
    key_reused     |-> Conflict("paper_execution_idempotency_conflict"),
    stale          |-> Conflict("paper_execution_stale_authority"),
    operation      |-> Conflict("paper_execution_operation_conflict"),
    concurrency    |-> Conflict("paper_execution_concurrency_conflict"),
    reconciliation |-> Conflict("paper_execution_reconciliation_required"),
    policy         |-> Invalid("paper_execution_invalid_policy"),
    decimal        |-> Invalid("paper_execution_invalid_decimal"),
    cursor         |-> Invalid("paper_execution_invalid_cursor"),
    corrupt        |-> Unavailable("paper_execution_authority_unavailable"),
    busy           |-> Unavailable("paper_execution_storage_busy"),
    failure        |-> Unavailable("paper_execution_storage_failure") ]

\* raise_paper_runtime_api_error: an execution order that is not there is corrupt
\* authority, because the repository that reads it says so.
RuntimeErrors ==
  [ not_found  |-> NotFound("paper_runtime_not_found"),
    key_reused |-> Conflict("paper_runtime_idempotency_conflict"),
    exists     |-> Conflict("paper_runtime_already_exists"),
    binding    |-> Conflict("paper_runtime_binding_conflict"),
    lifecycle  |-> Conflict("paper_runtime_lifecycle_conflict"),
    terminal   |-> Conflict("paper_runtime_lifecycle_conflict"),
    version    |-> Conflict("paper_runtime_version_conflict"),
    ownership  |-> Conflict("paper_runtime_ownership_conflict"),
    stale      |-> Conflict("paper_runtime_continuation_stale"),
    cursor     |-> Invalid("paper_runtime_invalid_cursor"),
    value      |-> Invalid("paper_runtime_invalid_input"),
    busy       |-> Unavailable("paper_runtime_storage_busy"),
    failure    |-> Unavailable("paper_runtime_storage_failure"),
    corrupt    |-> Unavailable("paper_runtime_authority_corrupt") ]

\* _raise_application_error of the portfolio reviews, after which a SQLAlchemyError,
\* busy or not, is an unavailable database.
ReviewErrors ==
  [ not_found     |-> NotFound("portfolio_review_not_found"),
    key_reused    |-> Conflict("portfolio_review_idempotency_conflict"),
    settled       |-> Conflict("portfolio_review_settled_conflict"),
    file_conflict |-> Conflict("portfolio_review_artifact_conflict"),
    file_invalid  |-> Conflict("portfolio_review_artifact_invalid"),
    file_missing  |-> Conflict("portfolio_review_artifact_unavailable"),
    exists        |-> Conflict("portfolio_review_conflict"),
    value         |-> Invalid("portfolio_review_invalid"),
    root          |-> Unavailable("portfolio_review_artifact_root_unavailable"),
    busy          |-> DatabaseUnavailable,
    failure       |-> DatabaseUnavailable ]

\* _raise_application_error of the market-time reads.
MarketTimeErrors ==
  [ not_found |-> NotFound("market_time_not_found"),
    value     |-> Invalid("market_time_invalid"),
    busy      |-> DatabaseUnavailable,
    failure   |-> DatabaseUnavailable ]

\* Errors[f][e]: what family f answers for error e.
Errors ==
  [ account |-> AccountErrors, order |-> StrategyOrderErrors, execution |-> ExecutionErrors,
    runtime |-> RuntimeErrors, review |-> ReviewErrors, market |-> MarketTimeErrors ]

\* STABLE_API_ERRORS: the category of every code the API may answer, of the families here.
Inventory ==
  [ authentication |-> {"founder_authentication_required"},
    internal       |-> {"internal_server_error"},
    not_found |->
      {"paper_account_not_found", "strategy_signal_not_found", "order_intent_not_found",
       "pre_trade_risk_decision_not_found", "paper_execution_upstream_authority_not_found",
       "paper_execution_order_not_found", "paper_execution_attempt_not_found",
       "paper_execution_fill_not_found", "paper_runtime_not_found",
       "portfolio_review_not_found"},
    invalid |->
      {"request_validation_error", "paper_account_invalid_decimal",
       "paper_account_invalid_m30_reference", "strategy_order_invalid_runtime_configuration",
       "strategy_order_invalid_risk_policy", "strategy_order_invalid_decimal",
       "strategy_order_invalid_cursor", "paper_execution_invalid_policy",
       "paper_execution_invalid_decimal", "paper_execution_invalid_cursor",
       "paper_runtime_invalid_cursor", "paper_runtime_invalid_input",
       "portfolio_review_invalid", "portfolio_review_artifact_invalid"},
    conflict |->
      {"paper_account_version_conflict", "paper_account_idempotency_conflict",
       "paper_account_frozen", "paper_account_closed", "paper_account_close_not_empty",
       "paper_account_insufficient_available_cash", "paper_account_negative_position",
       "paper_account_negative_cost_basis", "paper_account_zero_quantity_nonzero_cost_basis",
       "paper_account_projection_stale", "paper_account_reconciliation_failed",
       "paper_account_snapshot_conflict", "strategy_order_idempotency_conflict",
       "strategy_order_stale_authority", "strategy_order_reconciliation_required",
       "paper_execution_idempotency_conflict", "paper_execution_stale_authority",
       "paper_execution_operation_conflict", "paper_execution_concurrency_conflict",
       "paper_execution_reconciliation_required", "paper_runtime_idempotency_conflict",
       "paper_runtime_already_exists", "paper_runtime_binding_conflict",
       "paper_runtime_lifecycle_conflict", "paper_runtime_version_conflict",
       "paper_runtime_ownership_conflict", "paper_runtime_continuation_stale",
       "portfolio_review_conflict", "portfolio_review_idempotency_conflict",
       "portfolio_review_settled_conflict", "portfolio_review_artifact_conflict"},
    unavailable |->
      {"product_database_unavailable", "paper_account_storage_busy",
       "paper_account_schema_incompatible", "strategy_order_schema_incompatible",
       "strategy_order_authority_unavailable", "strategy_order_storage_busy",
       "strategy_order_storage_failure", "paper_execution_authority_unavailable",
       "paper_execution_schema_incompatible", "paper_execution_storage_busy",
       "paper_execution_storage_failure", "paper_runtime_authority_unavailable",
       "paper_runtime_schema_incompatible", "paper_runtime_storage_busy",
       "paper_runtime_storage_failure", "paper_runtime_authority_corrupt",
       "portfolio_review_artifact_unavailable",
       "portfolio_review_artifact_root_unavailable"} ]
=============================================================================
