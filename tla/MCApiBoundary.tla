--------------------------- MODULE MCApiBoundary ---------------------------
(* The HTTP API for TLC.  A behaviour is one of three: a request of every      *)
(* kind with every error, two requests under one key (ApiBoundary), or a      *)
(* listing that is read page by page (Pagination).  The variables of the       *)
(* other module keep their first state.                                      *)
EXTENDS HttpApi

CONSTANTS r1, r2, k, d1, d2

VARIABLE question
allVars == <<question, vars, pageVars>>

Single == INSTANCE ApiBoundary WITH Digests <- {d1}
Keyed  == INSTANCE ApiBoundary WITH
  Families <- {"execution"}, Operations <- {"order_step"},
  Faults <- {"stale", "busy", "unexpected"}

ASSUME Listing!PaginationAssumption /\ Service!NoReceiptAssumption

MCInit ==
  /\ question \in {"single", "keyed", "listing"}
  /\ Init /\ Listing!Init
  /\ question # "listing" => kind = "orders"

\* The requests differ in nothing but their names: r1 is the first.
InTurn == at'[r2] # "idle" => at'[r1] # "idle"

MCNext ==
  \/ question = "single" /\ Single!Next /\ at'[r2] = "idle" /\ UNCHANGED <<question, pageVars>>
  \/ question = "keyed" /\ Keyed!Next /\ InTurn /\ UNCHANGED <<question, pageVars>>
  \/ question = "listing" /\ Listing!Next /\ UNCHANGED <<question, vars>>

MCSpec == MCInit /\ [][MCNext]_allVars
=============================================================================
