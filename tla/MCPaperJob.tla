----------------------------- MODULE MCPaperJob -----------------------------
(* Paper jobs for TLC: three requests on one job (PaperJob), by the API or by *)
(* the operator, whose runs look at nothing between claim and execution and   *)
(* whose timestamps may tie, and requests that submit jobs                    *)
(* (PaperJobSubmission), or are answered and logged by the routes             *)
(* (PaperJobRoutes).  A behaviour is of one kind; what the others use keeps   *)
(* its first state.  Operator's runs and submissions are by no more than two  *)
(* requests at once.                                                          *)
EXTENDS PaperJobs, TLC

CONSTANTS a, b, c, r1, r2

VARIABLE kind
allVars == <<kind, vars, submitVars, routeVars>>

MCService == {[product |-> TRUE, ties |-> FALSE], [product |-> FALSE, ties |-> TRUE]}

\* a and b are different requests for one run.
MCRunOf == a :> r1 @@ b :> r1 @@ c :> r2

ASSUME Routes!RoutesAssumption
ASSUME Submission!SubmissionAssumption /\ Submission!Commands!NoReceiptAssumption

MCInit ==
  /\ kind \in {"job", "submission", "routes"}
  /\ Init /\ Submission!Init /\ Routes!Init
  /\ kind # "job" => job.status = "queued" /\ service.product

MCNext ==
  \/ /\ kind = "job" /\ Next /\ UNCHANGED <<kind, submitVars, routeVars>>
     /\ service.product \/ \E w \in Worker : pc'[w] = "idle"
  \/ kind = "submission" /\ Submission!Next /\ (\E w \in Worker : carrying'[w] = "idle") /\ UNCHANGED <<kind, vars, routeVars>>
  \/ kind = "routes" /\ Routes!Next /\ UNCHANGED <<kind, vars, submitVars>>

MCSpec == MCInit /\ [][MCNext]_allVars

MCSymmetry == Permutations(Worker)
=============================================================================
