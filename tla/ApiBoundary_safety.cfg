CONSTANTS
  r1 = r1
  r2 = r2
  k = k
  d1 = d1
  d2 = d2
  Requests = {r1, r2}
  Keys = {k}
  Digests = {d1, d2}
  Families = {"account", "order", "execution", "runtime", "review"}
  Operations = {"create", "cash_movement", "position_adjustment", "evidence_link", "lifecycle", "snapshot",
                "reconciliation", "signal_evaluate", "intent_create", "decision_create",
                "order_create", "order_step", "start", "stop", "resume", "recover", "decision",
                "list", "detail", "ledger", "signal_detail", "intent_detail", "decision_detail",
                "order_detail", "attempt_detail", "fill_detail", "health"}
  Faults = {"not_found", "version", "concurrency", "frozen", "closed", "evidence", "reconciliation",
            "snapshot", "operation", "busy", "failure", "corrupt", "decimal", "cash", "quantity",
            "cost", "zero", "not_empty", "lifecycle", "value", "signal", "intent", "decision",
            "upstream", "stale", "runtime", "policy", "cursor", "attempt", "fill", "exists",
            "binding", "terminal", "ownership", "settled", "file_conflict", "file_invalid",
            "file_missing", "root", "unexpected"}
  Crashes = 1
  Changes = 1
  None = None
  Collections = {"accounts", "orders", "fills", "signals", "intents", "decisions", "runtimes",
                 "attempts", "audit", "work", "checkpoints", "ledger"}
  MaxRows = 3
  MaxAt = 2
  MaxChanges = 2
  Tags = {"t1", "t2"}
  Limits = {1, 2}
SPECIFICATION MCSpec
CHECK_DEADLOCK FALSE
INVARIANTS
  LogTellsAnswers
  ListingsAreWhole
PROPERTIES
  RoutesKeepPromise
