---------------------------- MODULE PaperRuntime ----------------------------
(***************************************************************************)
(* One durable paper runtime (M35): the runtime row with its desired and   *)
(* observed states and its fenced lease, the Works and checkpoints it      *)
(* leaves behind, the M34 execution order it steps, and the worker         *)
(* processes (cli.run_paper_runtime_process) that claim it, reconcile what *)
(* a predecessor left and then run Phase A / M34 Step / Phase C.           *)
(*                                                                         *)
(* A transaction (BEGIN IMMEDIATE .. COMMIT) is one action.  Between two   *)
(* transactions a worker only keeps its program counter, its claim and its *)
(* Work, so anything may happen there: a crash, an expired lease, a        *)
(* takeover, a control command, a Step made by hand through the API.       *)
(* Recovery's look before it repeats a Step is no transaction: its reads   *)
(* are statements that other commits may come between, so it is two        *)
(* actions, and what the first one saw is kept in `view'.                  *)
(*                                                                         *)
(* A Work is known by the execution version it expects, which is what its  *)
(* deterministic identity and its M34 idempotency key are derived from.    *)
(* row_version, events other than completion and block, and command        *)
(* receipts belong to PaperRuntimeControl.                                 *)
(***************************************************************************)
EXTENDS Naturals

CONSTANTS
  Worker,        \* worker processes
  OwnerOf,       \* the --owner-id each worker is started with
  NoOwner,       \* owner_id is None
  MaxVersion,    \* bound: an order is terminal after this many attempts
  MaxFence,      \* bound: claims of the runtime
  MaxIdleFence,  \* bound: claims with nothing to run or stop, and claims before a Stop
  MaxFaults,     \* bound: crashes, and leases that lapse under a live worker
  ManualSteps,   \* whether somebody steps the order by hand in the runtime's era
  ClockTies      \* whether an attempt and the runtime can share a timestamp

ASSUME ConstantsAssumption ==
  /\ MaxVersion \in Nat \ {0}
  /\ MaxFence \in Nat /\ MaxIdleFence \in Nat /\ MaxFaults \in Nat
  /\ ManualSteps \in BOOLEAN /\ ClockTies \in BOOLEAN
  /\ \A w \in Worker : OwnerOf[w] # NoOwner

VARIABLES
  runtime,      \* the row: desired, observed, owner, fence, lease, reason
  start,        \* attempts whose created_at precedes the runtime's
  order,        \* the M34 order: version, status, chain
  receipts,     \* M34 Step receipts stored under Work keys
  works,        \* expected versions of the runtime's Works
  checkpoints,  \* the Works that have been observed
  completions,  \* runtime_completed events
  blocks,       \* runtime_blocked events
  pc,           \* what each worker does next
  token,        \* the fencing token each worker believes in
  item,         \* the Work each worker holds
  role,         \* reconciling (recovery) or iterating (runner)
  view,         \* what a recovering worker saw when it began its last look
  late,         \* history: attempts workers made on a stopped or blocked runtime
  bypassed,     \* history: whether an attempt of the runtime's era was made by hand
  twins,        \* history: whether two processes of one owner id were ever at work at once
  overtaken,    \* history: whether an attempt was ever made during a recovery's last look
  faults        \* bound: faults so far

rows   == <<start, works, checkpoints, completions, blocks>>
locals == <<token, item, role, view>>
past   == <<bypassed, twins, overtaken>>
vars   == <<runtime, rows, order, receipts, pc, locals, late, past, faults>>

Owner    == {OwnerOf[w] : w \in Worker}
Desired  == {"running", "stopped"}
Observed == {"absent", "ready", "running", "stopped", "completed", "blocked"}
Lease    == {"unowned", "active", "expired"}
Reason   == {"none", "stale", "corrupt"}
Version  == 0..MaxVersion
Label    == {"idle", "reconcile", "block_stale", "block_corrupt", "release", "confirm",
             "look", "settle", "step", "observe", "prepare", "assert", "renew"}

Row == [desired : Desired, observed : Observed, owner : Owner \union {NoOwner},
        fence : Nat, lease : Lease, reason : Reason]
Order   == [version : Version, status : {"working", "terminal"}, chain : {"current", "stale"}]
Receipt == [work : Version, attempt : Version]
View    == [desired : Desired, order : Order]
Unread  == [desired |-> "stopped",
            order |-> [version |-> 0, status |-> "working", chain |-> "current"]]

TypeOK ==
  /\ runtime \in Row
  /\ start \in Version
  /\ order \in Order
  /\ receipts \subseteq Receipt
  /\ works \subseteq Version
  /\ checkpoints \subseteq Version
  /\ completions \in 0..1
  /\ blocks \in 0..1
  /\ pc \in [Worker -> Label]
  /\ token \in [Worker -> Nat]
  /\ item \in [Worker -> Version]
  /\ role \in [Worker -> {"recovery", "runner"}]
  /\ late \in Nat
  /\ view \in [Worker -> View]
  /\ bypassed \in BOOLEAN /\ twins \in BOOLEAN /\ overtaken \in BOOLEAN
  /\ faults \in 0..MaxFaults

Init ==
  /\ runtime = [desired |-> "stopped", observed |-> "absent", owner |-> NoOwner,
                fence |-> 0, lease |-> "unowned", reason |-> "none"]
  /\ start = 0
  /\ order = [version |-> 0, status |-> "working", chain |-> "current"]
  /\ receipts = {} /\ works = {} /\ checkpoints = {}
  /\ completions = 0 /\ blocks = 0
  /\ pc = [w \in Worker |-> "idle"]
  /\ token = [w \in Worker |-> 0]
  /\ item = [w \in Worker |-> 0]
  /\ role = [w \in Worker |-> "recovery"]
  /\ view = [w \in Worker |-> Unread]
  /\ late = 0 /\ bypassed = FALSE /\ twins = FALSE /\ overtaken = FALSE
  /\ faults = 0

-----------------------------------------------------------------------------
(* The M34 order *)

Exists   == runtime.observed # "absent"
Terminal == order.status = "terminal"
Fresh    == order.chain = "current"

\* Attempt number order.version is committed; the order may become terminal.
NewAttempt ==
  /\ \E status \in {"working", "terminal"} :
       /\ order.version + 1 = MaxVersion => status = "terminal"
       /\ order' = [version |-> order.version + 1, status |-> status, chain |-> order.chain]
  /\ overtaken' = (overtaken \/ \E x \in Worker : pc[x] = "look")

Steppable == ~Terminal /\ Fresh /\ order.version < MaxVersion

\* A Step through the execution API, which knows nothing of runtimes.
ManualStep ==
  /\ ManualSteps \/ ~Exists
  /\ Steppable
  /\ NewAttempt
  /\ bypassed' = (bypassed \/ Exists)
  /\ UNCHANGED <<runtime, rows, receipts, pc, locals, late, twins, faults>>

\* The account head or the replay cursor leaves the order's chain for good.
AuthorityDiverges ==
  /\ Fresh
  /\ order' = [order EXCEPT !.chain = "stale"]
  /\ UNCHANGED <<runtime, rows, receipts, pc, locals, late, past, faults>>

-----------------------------------------------------------------------------
(* Control commands *)

\* _transition_observed
Observe(state) == runtime' = [runtime EXCEPT !.observed = state]

Final == runtime.observed \in {"completed", "blocked"}
LiveNonterminal == Fresh /\ ~Terminal

CreateRuntime ==
  /\ ~Exists
  /\ LiveNonterminal
  /\ Observe("ready")
  /\ start' \in {order.version} \union
       (IF ClockTies /\ order.version > 0 THEN {order.version - 1} ELSE {})
  /\ bypassed' = (start' # order.version)
  /\ UNCHANGED <<works, checkpoints, completions, blocks, order, receipts, pc, locals,
                 late, twins, overtaken, faults>>

Desire(state) ==
  /\ runtime' = [runtime EXCEPT !.desired = state]
  /\ late' = IF state = "running" THEN 0 ELSE late
  /\ UNCHANGED <<rows, order, receipts, pc, locals, past, faults>>

StartRuntime ==
  /\ runtime.desired = "stopped" /\ runtime.observed = "ready"
  /\ LiveNonterminal
  /\ Desire("running")

StopRuntime ==
  /\ Exists /\ ~Final
  /\ runtime.desired = "running"
  /\ runtime.fence <= MaxIdleFence
  /\ Desire("stopped")

ResumeRuntime ==
  /\ runtime.desired = "stopped" /\ runtime.observed = "stopped"
  /\ LiveNonterminal
  /\ Desire("running")

Control == CreateRuntime \/ StartRuntime \/ StopRuntime \/ ResumeRuntime

-----------------------------------------------------------------------------
(* Ownership *)

Claimed(w) == runtime.owner = OwnerOf[w] /\ runtime.fence = token[w]

\* Mutant: the write transaction does not look at lease_expires_at.
ClaimUnexpired(w) == Claimed(w)

\* _assert_exact_claim inside a write transaction.
ClaimCurrent(w) == Claimed(w) /\ runtime.lease = "active"

\* The same test made by a read: the clock may have been read just before the
\* lease expired, so an expired lease passes or fails.
ClaimReadAsCurrent(w) == Claimed(w)
ClaimReadAsLost(w) == ~ClaimCurrent(w)

Goto(w, label) == pc' = [pc EXCEPT ![w] = label]
Hold(w, t, v, r) ==
  /\ token' = [token EXCEPT ![w] = t]
  /\ item' = [item EXCEPT ![w] = v]
  /\ role' = [role EXCEPT ![w] = r]
  /\ view' = [view EXCEPT ![w] = Unread]

\* The worker's process ends, normally or by an exception nobody catches.
Exit(w) == Goto(w, "idle") /\ Hold(w, 0, 0, "recovery")

\* Recovery turns corrupt or stale authority into a block; the runner just fails.
Raise(w, block) ==
  IF role[w] = "recovery" THEN Goto(w, block) /\ UNCHANGED locals ELSE Exit(w)

Fail(w) == Exit(w) /\ UNCHANGED <<runtime, rows, order, receipts, late, past, faults>>

\* Mutant: a takeover keeps the fence of the owner it supersedes.
FenceKept == runtime.fence

\* A takeover by another owner, or by the same one, gets a fence of its own.
NextFence == runtime.fence + 1

FenceBound ==
  IF runtime.desired = "stopped" /\ runtime.observed # "running" THEN MaxIdleFence ELSE MaxFence

\* recover_runtime begins with claim_runtime.  An active lease of the same owner
\* converges to the claim it already is; an active lease of another one is Busy.
ClaimRuntime(w) ==
  /\ pc[w] = "idle" /\ Exists
  /\ \/ /\ runtime.lease = "active" /\ runtime.owner = OwnerOf[w]
        /\ Hold(w, runtime.fence, 0, "recovery")
        /\ UNCHANGED runtime
     \/ /\ runtime.lease # "active"
        /\ runtime.fence < FenceBound
        /\ runtime' = [runtime EXCEPT !.owner = OwnerOf[w], !.fence = NextFence,
                                      !.lease = "active"]
        /\ Hold(w, NextFence, 0, "recovery")
  /\ Goto(w, "reconcile")
  /\ twins' = (twins \/ \E x \in Worker \ {w} : pc[x] # "idle" /\ OwnerOf[x] = OwnerOf[w])
  /\ UNCHANGED <<rows, order, receipts, late, bypassed, overtaken, faults>>

ReleaseClaim(w) ==
  /\ pc[w] = "release"
  /\ IF ClaimCurrent(w)
       THEN runtime' = [runtime EXCEPT !.owner = NoOwner, !.lease = "unowned"]
       ELSE UNCHANGED runtime
  /\ Exit(w)
  /\ UNCHANGED <<rows, order, receipts, late, past, faults>>

\* Between two iterations the heartbeat extends the lease; then the loop goes on,
\* or the iteration budget is spent and the process releases its claim.
RenewClaim(w) ==
  /\ pc[w] = "renew"
  /\ \/ /\ ClaimCurrent(w)
        /\ \E label \in {"prepare", "release"} : Goto(w, label)
        /\ UNCHANGED <<runtime, rows, order, receipts, locals, late, past, faults>>
     \/ ~ClaimCurrent(w) /\ Fail(w)

HasLiveHolder == \E w \in Worker : pc[w] # "idle" /\ ClaimCurrent(w)

\* The clock passes lease_expires_at: always in the end when nobody renews it, at
\* most MaxFaults times while its holder is still at work.
LeaseLapses ==
  /\ runtime.lease = "active"
  /\ runtime' = [runtime EXCEPT !.lease = "expired"]
  /\ HasLiveHolder => faults < MaxFaults
  /\ faults' = IF HasLiveHolder THEN faults + 1 ELSE faults
  /\ UNCHANGED <<rows, order, receipts, pc, locals, late, past>>

\* The process dies, SQLite stays busy and it gives up, or a read of the runner is torn
\* by a commit and raises what nobody catches.
Crash(w) ==
  /\ pc[w] # "idle"
  /\ faults < MaxFaults
  /\ faults' = faults + 1
  /\ Exit(w)
  /\ UNCHANGED <<runtime, rows, order, receipts, late, past>>

-----------------------------------------------------------------------------
(* Audit of Works against the order's attempts *)

Unobserved == works \ checkpoints
Era == {v \in Version : start <= v /\ v < order.version}

\* What corrupts the authority whoever looks.
AuditSound ==
  /\ \A v \in works : start <= v /\ v <= order.version
  /\ \A v \in checkpoints : v < order.version

RunnerAudit == AuditSound /\ \A v \in Unobserved : v = order.version

\* Mutant: recovery audits like the runner and admits no attempt without a checkpoint.
RecoveryAuditStrict == RunnerAudit /\ Era \subseteq works

\* Recovery admits one attempt without its checkpoint, and wants a Work for every
\* attempt of the runtime's era.
RecoveryAudit ==
  /\ AuditSound
  /\ Era \subseteq works
  /\ \A v \in Unobserved : order.version \in {v, v + 1}
  /\ \A u, v \in Unobserved : u = v

\* runtime_completed and runtime_blocked events agree with the observed state.
EventsAgree ==
  /\ blocks = 0
  /\ IF runtime.observed = "completed" THEN Terminal /\ completions = 1
                                       ELSE completions = 0

\* _transition_completed: idempotent, refuses an event without the state.
CanComplete == completions = IF runtime.observed = "completed" THEN 1 ELSE 0

Complete == Observe("completed") /\ completions' = 1

-----------------------------------------------------------------------------
(* Recovery: R1 reconciles, R2 repeats the Step, R3 is Phase C *)

ReconcileSound ==
  /\ EventsAgree /\ RecoveryAudit
  /\ runtime.observed = "completed" => Unobserved = {}

\* Mutant: a terminal order is checked like one that goes on.
DivergedWhenTerminal == Unobserved = {} /\ runtime.desired = "running" /\ ~Fresh

\* The next iteration would start from a chain that is no longer the order's.
Diverged == Unobserved = {} /\ ~Terminal /\ runtime.desired = "running" /\ ~Fresh

\* A reason in the R1 transaction to block: none, stale or corrupt.
ReconcileVerdict ==
  IF runtime.observed = "blocked" THEN (IF blocks = 1 THEN "none" ELSE "corrupt")
  ELSE IF ~ReconcileSound THEN "corrupt"
  ELSE IF Diverged THEN "stale"
  ELSE "none"

\* Work v is still to be stepped or to be observed: go on with it.
ResumeWork(w) ==
  \E v \in Unobserved :
    /\ ~(runtime.desired = "stopped" /\ order.version = v)
    /\ item' = [item EXCEPT ![w] = v]
    /\ Goto(w, "confirm")
    /\ UNCHANGED <<runtime, completions, token, role, view>>

\* Mutant: a Stop found by recovery is obeyed and not recorded as observed.
SettleUnrecorded(w) ==
  /\ \A v \in Unobserved : runtime.desired = "stopped" /\ order.version = v
  /\ IF Unobserved = {} /\ Terminal
       THEN Complete /\ Goto(w, "release") /\ UNCHANGED role
       ELSE /\ UNCHANGED completions
            /\ IF runtime.desired = "stopped"
                 THEN Goto(w, "release") /\ UNCHANGED <<runtime, role>>
                 ELSE Observe("running") /\ Goto(w, "prepare")
                      /\ role' = [role EXCEPT ![w] = "runner"]
  /\ UNCHANGED <<token, item, view>>

\* Nothing is left to repeat, or a Stop came before the Step: settle the state.
SettleReconciled(w) ==
  /\ \A v \in Unobserved : runtime.desired = "stopped" /\ order.version = v
  /\ IF Unobserved = {} /\ Terminal
       THEN Complete /\ Goto(w, "release") /\ UNCHANGED role
       ELSE /\ UNCHANGED completions
            /\ Observe(runtime.desired)
            /\ IF runtime.desired = "stopped"
                 THEN Goto(w, "release") /\ UNCHANGED role
                 ELSE Goto(w, "prepare") /\ role' = [role EXCEPT ![w] = "runner"]
  /\ UNCHANGED <<token, item, view>>

Reconcile(w) ==
  /\ pc[w] = "reconcile"
  /\ \/ ~ClaimCurrent(w) /\ Exit(w) /\ UNCHANGED <<runtime, completions>>
     \/ /\ ClaimCurrent(w)
        /\ ReconcileVerdict # "none"
        /\ Goto(w, IF ReconcileVerdict = "stale" THEN "block_stale" ELSE "block_corrupt")
        /\ UNCHANGED <<runtime, completions, locals>>
     \/ /\ ClaimCurrent(w)
        /\ ReconcileVerdict = "none"
        /\ IF runtime.observed = "blocked"
             THEN Goto(w, "release") /\ UNCHANGED <<runtime, completions, locals>>
             ELSE ResumeWork(w) \/ SettleReconciled(w)
  /\ UNCHANGED <<start, works, checkpoints, blocks, order, receipts, late, past, faults>>

BlockReason(w) == IF pc[w] = "block_stale" THEN "stale" ELSE "corrupt"

\* Whatever the observed state is by then, completed included.
BlockRuntime(w) ==
  /\ pc[w] \in {"block_stale", "block_corrupt"}
  /\ IF ClaimCurrent(w) /\ blocks = 0
       THEN /\ runtime' = [runtime EXCEPT !.observed = "blocked", !.reason = BlockReason(w)]
            /\ blocks' = 1
            /\ Goto(w, "release")
            /\ UNCHANGED locals
       ELSE /\ UNCHANGED <<runtime, blocks>>
            /\ IF ClaimCurrent(w) /\ runtime.reason = BlockReason(w)
                 THEN Goto(w, "release") /\ UNCHANGED locals
                 ELSE Exit(w)
  /\ UNCHANGED <<start, works, checkpoints, completions, order, receipts, late, past, faults>>

-----------------------------------------------------------------------------
(* The runner's phases, which recovery shares from the Step on *)

\* Phase A: a durable Work exists before the order is touched.
PrepareWork(w) ==
  /\ runtime.desired = "running" /\ LiveNonterminal
  /\ works' = works \union {order.version}
  /\ Observe("running")
  /\ item' = [item EXCEPT ![w] = order.version]
  /\ Goto(w, "confirm")
  /\ UNCHANGED <<completions, token, role, view>>

PrepareEnd(w) ==
  /\ \/ runtime.desired = "stopped" /\ Observe("stopped") /\ UNCHANGED completions
     \/ /\ runtime.desired = "running"
        /\ Terminal /\ Unobserved = {} /\ CanComplete
        /\ Complete
  /\ Goto(w, "release")
  /\ UNCHANGED <<works, locals>>

PrepareRefused ==
  \/ runtime.desired = "running" /\ ~Terminal /\ ~Fresh
  \/ runtime.desired = "running" /\ Terminal /\ ~(Unobserved = {} /\ CanComplete)

PhaseA(w) ==
  /\ pc[w] = "prepare"
  /\ \/ /\ ClaimCurrent(w) /\ ~Final /\ RunnerAudit
        /\ PrepareWork(w) \/ PrepareEnd(w)
     \/ /\ ~(ClaimCurrent(w) /\ ~Final /\ RunnerAudit) \/ PrepareRefused
        /\ Exit(w)
        /\ UNCHANGED <<runtime, works, completions>>
  /\ UNCHANGED <<start, checkpoints, blocks, order, receipts, late, past, faults>>

\* The last look before the Step.  The runner takes one at its claim and at what is
\* desired; recovery goes on to compare its Work with the order.
Confirm(w) ==
  /\ pc[w] = "confirm"
  /\ \/ /\ ClaimReadAsCurrent(w) /\ ~Final /\ role[w] = "runner"
        /\ Goto(w, IF runtime.desired = "stopped" THEN "settle" ELSE "step")
        /\ UNCHANGED locals
     \/ /\ ClaimReadAsCurrent(w) /\ ~Final /\ role[w] = "recovery"
        /\ Goto(w, "look")
        /\ view' = [view EXCEPT ![w] = [desired |-> runtime.desired, order |-> order]]
        /\ UNCHANGED <<token, item, role>>
     \/ (ClaimReadAsLost(w) \/ Final) /\ Exit(w)
  /\ UNCHANGED <<runtime, rows, order, receipts, late, past, faults>>

\* Attempts, fills, account and receipt are read one after the other, so a Step
\* or an account movement that commits meanwhile may show in some and not in others.
Torn(w) == order # view[w].order

\* A version the order had during the look is compared with the Work, and a Step that is
\* already committed is repeated whatever is desired.
LookAt(w, v) ==
  IF v \notin {item[w], item[w] + 1} THEN "block_corrupt"
  ELSE IF view[w].desired = "stopped" /\ v = item[w] THEN "settle"
  ELSE "step"

\* The rest of recovery's look; what it finds torn it takes for corruption.
Look(w) ==
  /\ pc[w] = "look"
  /\ \/ \E v \in view[w].order.version..order.version : Goto(w, LookAt(w, v))
     \/ Torn(w) /\ Goto(w, "block_corrupt")
  /\ view' = [view EXCEPT ![w] = Unread]
  /\ UNCHANGED <<runtime, rows, order, receipts, token, item, role, late, past, faults>>

\* _settle_stopped_before_step does not look at the observed state; a blocked row
\* is saved only by the contract that ties a block reason to it.
SettleStopped(w) ==
  /\ pc[w] = "settle"
  /\ \/ /\ ClaimCurrent(w) /\ runtime.desired = "stopped" /\ runtime.observed # "blocked"
        /\ Observe("stopped")
        /\ Goto(w, "release")
        /\ UNCHANGED locals
     \/ /\ ClaimCurrent(w) /\ runtime.desired = "stopped" /\ runtime.observed = "blocked"
        /\ Raise(w, "block_corrupt")
        /\ UNCHANGED runtime
     \/ /\ ~ClaimCurrent(w) \/ runtime.desired = "running"
        /\ Exit(w)
        /\ UNCHANGED runtime
  /\ UNCHANGED <<rows, order, receipts, late, past, faults>>

Known(v) == \E r \in receipts : r.work = v

\* A Work whose Step has an attempt already converges to it, whoever made it.
Converges(v) == v < order.version

Late == runtime.desired = "stopped" \/ runtime.observed = "blocked"

\* Mutant: a Step with neither key nor expected version, each call a new attempt.
StepUnkeyed(w) ==
  /\ pc[w] = "step" /\ Steppable
  /\ NewAttempt
  /\ receipts' = receipts \union {[work |-> item[w], attempt |-> order.version]}
  /\ late' = IF Late THEN late + 1 ELSE late
  /\ Goto(w, "observe")
  /\ UNCHANGED <<runtime, rows, locals, bypassed, twins, faults>>

\* step_order under the Work's deterministic key, in a transaction of its own that
\* looks at no claim: key replay, convergence, or the one new attempt.
StepOrder(w) ==
  /\ pc[w] = "step"
  /\ LET v == item[w] IN
     \/ /\ Known(v)
        /\ Goto(w, "observe")
        /\ UNCHANGED <<order, receipts, locals, late, overtaken>>
     \/ /\ ~Known(v) /\ Converges(v)
        /\ receipts' = receipts \union {[work |-> v, attempt |-> v]}
        /\ Goto(w, "observe")
        /\ UNCHANGED <<order, locals, late, overtaken>>
     \/ /\ ~Known(v) /\ ~Converges(v) /\ order.version = v /\ Steppable
        /\ NewAttempt
        /\ receipts' = receipts \union {[work |-> v, attempt |-> order.version]}
        /\ late' = IF Late THEN late + 1 ELSE late
        /\ Goto(w, "observe")
        /\ UNCHANGED locals
     \/ /\ ~Known(v) /\ ~Converges(v) /\ ~(order.version = v /\ Steppable)
        /\ Raise(w, "block_stale")
        /\ UNCHANGED <<order, receipts, late, overtaken>>
  /\ UNCHANGED <<runtime, rows, bypassed, twins, faults>>

\* Phase C refuses a blocked runtime, and a completed one whose order can go on.
ObserveRefused == runtime.observed = "blocked"
ObserveCorrupt(v) ==
  \/ runtime.observed = "completed" /\ ~Terminal
  \/ order.version < v + 1
  \/ Terminal /\ ~CanComplete

\* The outcome of an observed Step.
SettleObserved(w) ==
  IF Terminal THEN Complete /\ Goto(w, "release") /\ UNCHANGED locals
  ELSE /\ UNCHANGED completions
       /\ Observe(runtime.desired)
       /\ Goto(w, IF runtime.desired = "stopped" THEN "release"
                  ELSE IF role[w] = "recovery" THEN "reconcile" ELSE "assert")
       /\ UNCHANGED locals

\* Phase C, for the runner and as R3: the checkpoint, its event and the outcome.
PhaseC(w) ==
  /\ pc[w] = "observe"
  /\ \/ /\ ClaimCurrent(w) /\ ~ObserveRefused /\ ~ObserveCorrupt(item[w])
        /\ checkpoints' = checkpoints \union {item[w]}
        /\ SettleObserved(w)
     \/ /\ ClaimCurrent(w) /\ ~ObserveRefused /\ ObserveCorrupt(item[w])
        /\ Raise(w, "block_corrupt")
        /\ UNCHANGED <<runtime, checkpoints, completions>>
     \/ /\ ~ClaimCurrent(w) \/ ObserveRefused
        /\ Exit(w)
        /\ UNCHANGED <<runtime, checkpoints, completions>>
  /\ UNCHANGED <<start, works, blocks, order, receipts, late, past, faults>>

\* Between Phase C and the heartbeat the runner looks once more for a Stop.
AssertClaim(w) ==
  /\ pc[w] = "assert"
  /\ \/ /\ ClaimReadAsCurrent(w)
        /\ Goto(w, IF runtime.desired = "stopped" THEN "settle" ELSE "renew")
        /\ UNCHANGED locals
     \/ ClaimReadAsLost(w) /\ Exit(w)
  /\ UNCHANGED <<runtime, rows, order, receipts, late, past, faults>>

-----------------------------------------------------------------------------
(* The system *)

WorkerStep(w) ==
  \/ Reconcile(w) \/ BlockRuntime(w) \/ Confirm(w) \/ Look(w) \/ SettleStopped(w)
  \/ StepOrder(w) \/ PhaseA(w) \/ PhaseC(w) \/ AssertClaim(w) \/ RenewClaim(w)
  \/ ReleaseClaim(w)

Next ==
  \/ ManualStep \/ AuthorityDiverges \/ LeaseLapses \/ Control
  \/ \E w \in Worker : ClaimRuntime(w) \/ WorkerStep(w) \/ Crash(w)

Spec == Init /\ [][Next]_vars

\* A process that runs goes on running; time passes; and whoever operates the
\* runtime starts a worker again when there is none.
Fairness ==
  /\ WF_vars(LeaseLapses)
  /\ \A w \in Worker : WF_vars(WorkerStep(w)) /\ WF_vars(ClaimRuntime(w))

FairSpec == Spec /\ Fairness

-----------------------------------------------------------------------------
(* Properties *)

\* A fencing token names one owner id: no two processes that run under different
\* owner ids ever believe in the same token (claim_runtime, _assert_exact_claim).
FenceNamesOwner ==
  \A w, x \in Worker :
    pc[w] # "idle" /\ pc[x] # "idle" /\ token[w] = token[x] => OwnerOf[w] = OwnerOf[x]

\* Superseded or not, however often its Step is repeated, a Work is carried out by
\* the one attempt at the version it expects, and never by a second one.
WorkExecutedOnce ==
  /\ \A r \in receipts : r.attempt = r.work /\ r.attempt < order.version
  /\ \A v \in checkpoints : v \in works /\ Known(v)

\* After a Stop, or a block, was committed the workers add at most one attempt: the
\* Step one of them had already entered.
StopAdmitsOneStep == late <= 1

\* As long as no attempt was made by hand, the Works are exactly the attempts of the
\* runtime's era, with at most the next one prepared, and only the last may lack its
\* checkpoint.
WorksTrackAttempts ==
  Exists /\ ~bypassed =>
    /\ Era \subseteq works
    /\ works \subseteq Era \union {order.version}
    /\ \A v \in Unobserved : order.version \in {v, v + 1}
    /\ \A u, v \in Unobserved : u = v

\* A completed runtime has a terminal order and has observed each of its Works.
CompletedIsJustified ==
  runtime.observed = "completed" =>
    Terminal /\ Unobserved = {} /\ completions = 1 /\ order.version > 0

\* Recovery blocks as stale only what diverged; and as corrupt only an order some attempt
\* of which bypassed the runtime, or that was moved: by an attempt while recovery looked
\* at it statement by statement, or away from its chain.
BlockIsJustified ==
  /\ runtime.observed = "blocked" <=> runtime.reason # "none"
  /\ runtime.reason = "stale" => ~Fresh
  /\ runtime.reason = "corrupt" => ~(Era \subseteq works) \/ ~Fresh \/ overtaken

\* A runtime that is completed has an order that ended and nothing left to observe; one
\* that is blocked has lost its order's account, replay or Works, or had an attempt made
\* under the eyes of its recovery.  Two processes of one owner id at work at once can
\* settle a Stop over a completion.
EndsAreJustified == ~twins => CompletedIsJustified /\ BlockIsJustified

\* What the audit demands of every runtime it reads: a runtime_completed event is
\* there exactly when the runtime is observed completed.
CompletionEventsAgree == (completions = 1) <=> (runtime.observed = "completed")

\* Nobody but the holder of the unexpired claim changes what is observed of a
\* runtime or adds to its Works, checkpoints and lifecycle events.
OnlyHolderWrites ==
  [][ <<runtime.observed, rows>>' # <<runtime.observed, rows>> /\ Exists
        => \E w \in Worker :
             /\ pc[w] # "idle" /\ pc'[w] # pc[w]
             /\ OwnerOf[w] = runtime.owner /\ token[w] = runtime.fence
             /\ runtime.lease = "active" ]_vars

\* Completed and blocked runtimes stay as they are with their Works and lifecycle events,
\* unless an attempt was made by hand or two processes of one owner id were at work.
EndsAreFinal ==
  [][ Final /\ ~twins' /\ ~bypassed' =>
        /\ runtime'.observed = runtime.observed
        /\ works' = works /\ completions' = completions /\ blocks' = blocks ]_vars

\* A Stop is settled: a running runtime that is no longer desired to run does not
\* stay observed running.
StopSettles ==
  runtime.desired = "stopped" /\ runtime.observed = "running"
    ~> runtime.observed # "running" \/ runtime.desired = "running"

\* A runtime that stays desired running ends, whatever crashes and takeovers it has been
\* through; and it completes if nothing diverged and no attempt came during a recovery's
\* look, which would block a sound runtime for good.
RunEnds ==
  /\ <>[](runtime.desired = "running") => <>Final
  /\ <>[](runtime.desired = "running" /\ Fresh /\ ~overtaken)
       => <>(runtime.observed = "completed")
=============================================================================
