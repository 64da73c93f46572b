----------------------------- MODULE MCLiveness -----------------------------
(* The components whose scheduling promises that something happens, side by *)
(* side: the worker processes of a runtime (PaperRuntime), the orders that   *)
(* runtimes step (PaperExecution) and the attempts of a paper job            *)
(* (PaperJob).  A behaviour is one of a single component; the others keep     *)
(* their first state.                                                        *)
EXTENDS PaperRuntime, Sequences

CONSTANTS w1, w2, o1, o2, o3, x, y

VARIABLES
  component,
  orders, handoff, attempts, ledger, cursor, createReceipts, stepReceipts, repeats,
  service, job, jobAttempts, reference, file, jobPc, mine, seen, verdict, jobFaults, cleans

ordersVars == <<orders, handoff, attempts, ledger, cursor, createReceipts, stepReceipts, repeats>>
jobVars    == <<service, job, jobAttempts, reference, file, jobPc, mine, seen, verdict, jobFaults, cleans>>
allVars    == <<component, vars, ordersVars, jobVars>>

MCOwnOwner == [w \in {w1, w2} |-> IF w = w1 THEN "alpha" ELSE "beta"]

Event(time, instrument, kind) == [time |-> time, instrument |-> instrument, kind |-> kind]

\* o2 shares the account of o1 but not its replay, o3 the replay but not the account.
Orders == INSTANCE PaperExecution WITH
  Order <- {o1, o2, o3}, Account <- {1, 2}, Replay <- {1, 2}, Instrument <- {x, y},
  NoOrder <- NoOwner, ListLimit <- 200, MaxRepeats <- 0, MaxMoves <- 1,
  AccountOf    <- [o \in {o1, o2, o3} |-> IF o = o3 THEN 2 ELSE 1],
  ReplayOf     <- [o \in {o1, o2, o3} |-> IF o = o2 THEN 2 ELSE 1],
  SessionOf    <- [o \in {o1, o2, o3} |-> [open |-> 1, close |-> IF o = o3 THEN 3 ELSE 9]],
  InstrumentOf <- [o \in {o1, o2, o3} |-> x],
  Requested    <- [o \in {o1, o2, o3} |-> IF o = o1 THEN 3 ELSE IF o = o2 THEN 2 ELSE 1],
  Cap          <- [o \in {o1, o2, o3} |-> IF o = o2 THEN 1 ELSE 2],
  Seeded       <- [r \in {1, 2} |-> 1],
  Stream       <- [r \in {1, 2} |->
    IF r = 1
      THEN <<Event(1, x, "trade"), Event(2, x, "trade"), Event(3, x, "other"), Event(4, x, "trade")>>
      ELSE <<Event(1, x, "trade"), Event(2, x, "trade"), Event(3, y, "trade")>>]

Jobs == INSTANCE PaperJob WITH
  Service <- {[product |-> TRUE, ties |-> FALSE]}, MaxAttempts <- 2, MaxFaults <- 1, MaxCleans <- 0,
  attempts <- jobAttempts, pc <- jobPc, faults <- jobFaults

MCInit ==
  /\ component \in {"runtime", "orders", "job"}
  /\ Init /\ Orders!Init /\ Jobs!Init
  /\ component # "job" => job.status = "queued"

MCNext ==
  \/ component = "runtime" /\ Next /\ UNCHANGED <<component, ordersVars, jobVars>>
  \/ component = "orders" /\ Orders!Next /\ UNCHANGED <<component, vars, jobVars>>
  \/ component = "job" /\ Jobs!Next /\ UNCHANGED <<component, vars, ordersVars>>

\* The fairness of each component's FairSpec.
FairSpecs ==
  /\ MCInit /\ [][MCNext]_allVars
  /\ WF_vars(component = "runtime" /\ LeaseLapses)
  /\ \A w \in Worker :
       /\ WF_vars(component = "runtime" /\ WorkerStep(w))
       /\ WF_vars(component = "runtime" /\ ClaimRuntime(w))
       /\ WF_jobVars(component = "job" /\ Jobs!Execute(w))
  /\ \A o \in {o1, o2, o3} : WF_ordersVars(component = "orders" /\ Orders!StepOrder(o))

\* A runtime that is left running ends, and completes if nothing diverged and no attempt
\* came during a recovery's look.
RuntimeEnds == component = "runtime" => RunEnds

\* An order that is stepped again and again ends, unless another order or the owner
\* of its account takes the account head or the replay cursor it was created at; the
\* attempt of a worker that lives ends, also when another one's file is in its way.
OrdersAndAttemptsEnd ==
  /\ component = "orders" => Orders!OrdersEnd
  /\ component = "job" => Jobs!AttemptsEnd
=============================================================================
