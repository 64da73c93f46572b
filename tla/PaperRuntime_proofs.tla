------------------------ MODULE PaperRuntime_proofs ------------------------
(* Proofs about PaperRuntime, for every set of workers and every bound. *)
EXTENDS PaperRuntime, TLAPS

-----------------------------------------------------------------------------
(* Type correctness *)

\* Versions are natural numbers and start with 0.
LEMMA VersionFacts ==
  /\ Version \subseteq Nat
  /\ 0 \in Version
BY ConstantsAssumption DEF Version

\* A new attempt is the successor version of an order that was not at its bound.
LEMMA NewAttemptFacts ==
  ASSUME order \in Order, Steppable, NewAttempt
  PROVE  /\ order' \in Order
         /\ order'.version = order.version + 1
         /\ order'.chain = order.chain
<1>1. order.version + 1 \in Version
  BY ConstantsAssumption DEF Order, Version, Steppable
<1> QED
  BY <1>1 DEF Order, NewAttempt

\* What an idle worker remembers of its last look is a look.
LEMMA UnreadFacts == Unread \in View
BY VersionFacts DEF Unread, View, Desired, Order

\* Every variable of the runtime, its order and its workers keeps its type.
THEOREM Typing == Spec => []TypeOK
<1>1. Init => TypeOK
  <2> SUFFICES ASSUME Init PROVE TypeOK
    OBVIOUS
  <2>1. bypassed \in BOOLEAN /\ twins \in BOOLEAN /\ overtaken \in BOOLEAN
    BY Zenon DEF Init
  <2>2. MaxFaults \in Nat
    BY ConstantsAssumption
  <2> HIDE DEF Init
  <2> QED
    BY <2>1, <2>2, VersionFacts, UnreadFacts
       DEF Init, TypeOK, Row, Order, Receipt, Desired, Observed, Lease, Reason, Label
<1>2. TypeOK /\ [Next]_vars => TypeOK'
  <2> SUFFICES ASSUME TypeOK, [Next]_vars PROVE TypeOK'
    OBVIOUS
  <2> MaxFaults \in Nat
    BY ConstantsAssumption
  <2> USE VersionFacts, UnreadFacts
      DEF TypeOK, Row, Receipt, Desired, Observed, Lease, Reason, Label, rows, locals, past
  <2>1. CASE ManualStep
    <3>1. bypassed' \in BOOLEAN /\ overtaken' \in BOOLEAN
      BY <2>1, Zenon DEF ManualStep, NewAttempt
    <3>2. order' \in Order
      BY <2>1, NewAttemptFacts DEF ManualStep
    <3> QED
      BY <2>1, <3>1, <3>2 DEF ManualStep
  <2>2. CASE AuthorityDiverges
    BY <2>2 DEF AuthorityDiverges, Order
  <2>3. CASE LeaseLapses
    BY <2>3 DEF LeaseLapses
  <2>4. CASE Control
    <3>1. CASE CreateRuntime
      <4>1. start' \in Version
        <5>1. start' = order.version \/ (order.version > 0 /\ start' = order.version - 1)
          BY <3>1 DEF CreateRuntime
        <5> QED
          BY <5>1, ConstantsAssumption DEF Order, Version
      <4> QED
        BY <3>1, <4>1 DEF CreateRuntime, Observe
    <3>2. CASE StartRuntime
      BY <3>2 DEF StartRuntime, Desire
    <3>3. CASE StopRuntime
      BY <3>3 DEF StopRuntime, Desire
    <3>4. CASE ResumeRuntime
      BY <3>4 DEF ResumeRuntime, Desire
    <3> QED
      BY <2>4, <3>1, <3>2, <3>3, <3>4 DEF Control
  <2>5. ASSUME NEW w \in Worker, ClaimRuntime(w) PROVE TypeOK'
    <3>1. OwnerOf[w] \in Owner
      BY DEF Owner
    <3>2. runtime' \in Row
      <4>1. NextFence \in Nat
        BY DEF NextFence
      <4>2. \/ runtime' = runtime
            \/ runtime' = [runtime EXCEPT !.owner = OwnerOf[w], !.fence = NextFence,
                                          !.lease = "active"]
        BY <2>5 DEF ClaimRuntime
      <4>3. ASSUME NEW f \in Nat, NEW x \in Owner
            PROVE  [runtime EXCEPT !.owner = x, !.fence = f, !.lease = "active"] \in Row
        <5>1. PICK r \in Row : r = [runtime EXCEPT !.owner = x]
          OBVIOUS
        <5>2. PICK q \in Row : q = [r EXCEPT !.fence = f]
          OBVIOUS
        <5>3. [q EXCEPT !.lease = "active"] \in Row
          OBVIOUS
        <5> QED
          BY <5>1, <5>2, <5>3
      <4>4. [runtime EXCEPT !.owner = OwnerOf[w], !.fence = NextFence, !.lease = "active"] \in Row
        BY ONLY <3>1, <4>1, <4>3
      <4>5. runtime \in Row
        OBVIOUS
      <4> QED
        BY ONLY <4>2, <4>4, <4>5
    <3>3. token' \in [Worker -> Nat] /\ item' \in [Worker -> Version]
      BY <2>5 DEF ClaimRuntime, NextFence, Hold
    <3>4. /\ pc' \in [Worker -> Label] /\ role' \in [Worker -> {"recovery", "runner"}]
          /\ view' \in [Worker -> View]
      BY <2>5 DEF ClaimRuntime, Goto, Hold
    <3>5. twins' \in BOOLEAN
      BY <2>5, Zenon DEF ClaimRuntime
    <3> QED
      BY <2>5, <3>2, <3>3, <3>4, <3>5 DEF ClaimRuntime
  <2>6. ASSUME NEW w \in Worker, Crash(w) PROVE TypeOK'
    BY <2>6 DEF Crash, Exit, Goto, Hold
  <2>7. ASSUME NEW w \in Worker, WorkerStep(w) PROVE TypeOK'
    <3> USE DEF Exit, Goto, Hold
    <3>1. CASE Reconcile(w)
      BY <3>1 DEF Reconcile, ResumeWork, SettleReconciled, Complete, Observe, Unobserved
    <3>2. CASE BlockRuntime(w)
      <4>1. BlockReason(w) \in Reason
        BY DEF BlockReason
      <4>2. \/ runtime' = runtime /\ blocks' = blocks
            \/ /\ runtime' = [runtime EXCEPT !.observed = "blocked",
                                             !.reason = BlockReason(w)]
               /\ blocks' = 1
        BY <3>2 DEF BlockRuntime
      <4>8. PICK r \in Row : r = [runtime EXCEPT !.observed = "blocked"]
        OBVIOUS
      <4>9. [r EXCEPT !.reason = BlockReason(w)] \in Row
        BY <4>1
      <4>5. runtime' \in Row
        BY <4>2, <4>8, <4>9
      <4>7. blocks' \in 0..1
        BY <4>2
      <4>3. /\ pc' \in [Worker -> Label] /\ role' \in [Worker -> {"recovery", "runner"}]
            /\ view' \in [Worker -> View]
        BY <3>2 DEF BlockRuntime
      <4>4. token' \in [Worker -> Nat] /\ item' \in [Worker -> Version]
        BY <3>2 DEF BlockRuntime
      <4>6. UNCHANGED <<start, works, checkpoints, completions, order, receipts, late, past, faults>>
        BY <3>2 DEF BlockRuntime
      <4> QED
        BY <4>3, <4>4, <4>5, <4>6, <4>7
    <3>3. CASE Confirm(w)
      <4>1. [desired |-> runtime.desired, order |-> order] \in View
        BY DEF View
      <4> QED
        BY <3>3, <4>1 DEF Confirm
    <3>11. CASE Look(w)
      BY <3>11 DEF Look, LookAt
    <3>4. CASE SettleStopped(w)
      BY <3>4 DEF SettleStopped, Observe, Raise
    <3>5. CASE StepOrder(w)
      <4>1. order' \in Order
        BY <3>5, NewAttemptFacts DEF StepOrder
      <4>2. receipts' \subseteq Receipt
        BY <3>5 DEF StepOrder, Order
      <4>3. late' \in Nat
        BY <3>5 DEF StepOrder
      <4>4. overtaken' \in BOOLEAN
        BY <3>5, Zenon DEF StepOrder, NewAttempt
      <4> QED
        BY <3>5, <4>1, <4>2, <4>3, <4>4 DEF StepOrder, Raise
    <3>6. CASE PhaseA(w)
      <4> order.version \in Version
        BY DEF Order
      <4>1. runtime' \in Row /\ completions' \in 0..1
        BY <3>6 DEF PhaseA, PrepareWork, PrepareEnd, Complete, Observe
      <4>2. works' \subseteq Version /\ checkpoints' \subseteq Version
        BY <3>6 DEF PhaseA, PrepareWork, PrepareEnd
      <4>3. /\ pc' \in [Worker -> Label] /\ role' \in [Worker -> {"recovery", "runner"}]
            /\ view' \in [Worker -> View]
        BY <3>6 DEF PhaseA, PrepareWork, PrepareEnd
      <4>4. token' \in [Worker -> Nat] /\ item' \in [Worker -> Version]
        BY <3>6 DEF PhaseA, PrepareWork, PrepareEnd
      <4> QED
        BY <3>6, <4>1, <4>2, <4>3, <4>4 DEF PhaseA
    <3>7. CASE PhaseC(w)
      <4>1. runtime' \in Row /\ completions' \in 0..1
        <5>1. \/ UNCHANGED <<runtime, completions>>
              \/ Complete
              \/ Observe(runtime.desired) /\ UNCHANGED completions
          BY <3>7 DEF PhaseC, SettleObserved
        <5> QED
          BY <5>1 DEF Complete, Observe
      <4>2. checkpoints' \subseteq Version
        <5>1. checkpoints' = checkpoints \/ checkpoints' = checkpoints \union {item[w]}
          BY <3>7 DEF PhaseC
        <5>2. item[w] \in Version
          OBVIOUS
        <5>3. checkpoints \subseteq Version
          OBVIOUS
        <5> QED
          BY ONLY <5>1, <5>2, <5>3
      <4>3. /\ pc' \in [Worker -> Label] /\ role' \in [Worker -> {"recovery", "runner"}]
            /\ view' \in [Worker -> View]
        BY <3>7 DEF PhaseC, SettleObserved, Raise
      <4>4. token' \in [Worker -> Nat] /\ item' \in [Worker -> Version]
        BY <3>7 DEF PhaseC, SettleObserved, Raise
      <4>5. UNCHANGED <<start, works, blocks, order, receipts, late, past, faults>>
        BY <3>7 DEF PhaseC
      <4> QED
        BY <4>1, <4>2, <4>3, <4>4, <4>5
    <3>8. CASE AssertClaim(w)
      BY <3>8 DEF AssertClaim
    <3>9. CASE RenewClaim(w)
      <4>1. pc' \in [Worker -> Label]
        BY <3>9 DEF RenewClaim, Fail
      <4>2. /\ token' \in [Worker -> Nat] /\ item' \in [Worker -> Version]
            /\ role' \in [Worker -> {"recovery", "runner"}] /\ view' \in [Worker -> View]
        BY <3>9 DEF RenewClaim, Fail
      <4>3. UNCHANGED <<runtime, start, works, checkpoints, completions, blocks, order, receipts,
                        late, past, faults>>
        BY <3>9 DEF RenewClaim, Fail
      <4> QED
        BY <4>1, <4>2, <4>3
    <3>10. CASE ReleaseClaim(w)
      <4>1. /\ pc' \in [Worker -> Label] /\ role' \in [Worker -> {"recovery", "runner"}]
            /\ view' \in [Worker -> View]
        BY <3>10 DEF ReleaseClaim
      <4>2. token' \in [Worker -> Nat] /\ item' \in [Worker -> Version]
        BY <3>10 DEF ReleaseClaim
      <4>3. PICK r \in Row : r = [runtime EXCEPT !.owner = NoOwner]
        OBVIOUS
      <4>6. runtime' = runtime \/ runtime' = [r EXCEPT !.lease = "unowned"]
        BY <3>10, <4>3 DEF ReleaseClaim
      <4>4. runtime' \in Row
        BY <4>6
      <4>5. UNCHANGED <<start, works, checkpoints, completions, blocks, order, receipts, late, past,
                        faults>>
        BY <3>10 DEF ReleaseClaim
      <4> QED
        BY <4>1, <4>2, <4>4, <4>5
    <3> QED
      BY <2>7, <3>1, <3>2, <3>3, <3>4, <3>5, <3>6, <3>7, <3>8, <3>9, <3>10, <3>11
         DEF WorkerStep
  <2>8. CASE UNCHANGED vars
    BY <2>8 DEF vars
  <2> QED
    BY <2>1, <2>2, <2>3, <2>4, <2>5, <2>6, <2>7, <2>8 DEF Next
<1> QED
  BY <1>1, <1>2, PTL DEF Spec

-----------------------------------------------------------------------------
(* Fencing *)

\* What a claim relies on: no worker is ahead of the row's fence, whoever holds the
\* current fence is the owner in the row unless it was released, and a lease is
\* active only under an owner.
FenceInv ==
  /\ \A w \in Worker : pc[w] # "idle" =>
       /\ token[w] <= runtime.fence
       /\ token[w] = runtime.fence /\ runtime.owner # NoOwner => runtime.owner = OwnerOf[w]
  /\ runtime.lease = "active" => runtime.owner # NoOwner
  /\ FenceNamesOwner

\* A step that leaves the claim alone, but that a lease may lapse and a process end.
Quiet ==
  /\ runtime'.fence = runtime.fence
  /\ runtime'.owner = runtime.owner
  /\ runtime'.lease = "active" => runtime.lease = "active"
  /\ \A x \in Worker : pc'[x] # "idle" => pc[x] # "idle" /\ token'[x] = token[x]

\* Only a claim and its release are not quiet.
LEMMA QuietSteps ==
  ASSUME TypeOK, [Next]_vars
  PROVE  Quiet \/ \E w \in Worker : ClaimRuntime(w) \/ ReleaseClaim(w)
<1> USE DEF TypeOK, Row, Quiet, rows, locals
<1>1. CASE ManualStep \/ AuthorityDiverges \/ LeaseLapses
  BY <1>1 DEF ManualStep, AuthorityDiverges, LeaseLapses
<1>2. CASE Control
  BY <1>2 DEF Control, CreateRuntime, StartRuntime, StopRuntime, ResumeRuntime, Desire, Observe
<1>3. ASSUME NEW w \in Worker, Crash(w) PROVE Quiet
  BY <1>3 DEF Crash, Exit, Goto, Hold
<1>4. ASSUME NEW w \in Worker, WorkerStep(w), ~ReleaseClaim(w) PROVE Quiet
  <2> USE DEF Exit, Goto, Hold
  <2>1. CASE Reconcile(w)
    BY <2>1 DEF Reconcile, ResumeWork, SettleReconciled, Complete, Observe
  <2>2. CASE BlockRuntime(w)
    BY <2>2 DEF BlockRuntime
  <2>3. CASE Confirm(w) \/ Look(w)
    BY <2>3 DEF Confirm, Look
  <2>4. CASE SettleStopped(w)
    BY <2>4 DEF SettleStopped, Observe, Raise
  <2>5. CASE StepOrder(w)
    BY <2>5 DEF StepOrder, Raise
  <2>6. CASE PhaseA(w)
    BY <2>6 DEF PhaseA, PrepareWork, PrepareEnd, Complete, Observe
  <2>7. CASE PhaseC(w)
    BY <2>7 DEF PhaseC, SettleObserved, Complete, Observe, Raise
  <2>8. CASE AssertClaim(w)
    BY <2>8 DEF AssertClaim
  <2>9. CASE RenewClaim(w)
    BY <2>9 DEF RenewClaim, Fail
  <2> QED
    BY <1>4, <2>1, <2>2, <2>3, <2>4, <2>5, <2>6, <2>7, <2>8, <2>9 DEF WorkerStep
<1>5. CASE UNCHANGED vars
  BY <1>5 DEF vars
<1> QED
  BY <1>1, <1>2, <1>3, <1>4, <1>5 DEF Next

\* The fence invariant is inductive.
LEMMA FenceInvInductive ==
  ASSUME TypeOK, FenceInv, [Next]_vars
  PROVE  FenceInv'
<1> USE DEF TypeOK, Row, FenceInv, FenceNamesOwner
<1>1. CASE Quiet
  BY <1>1 DEF Quiet
<1>2. ASSUME NEW w \in Worker, ClaimRuntime(w) PROVE FenceInv'
  <2>1. OwnerOf[w] # NoOwner
    BY ConstantsAssumption
  <2>2. /\ pc' = [pc EXCEPT ![w] = "reconcile"]
        /\ \A x \in Worker : x # w => token'[x] = token[x]
    BY <1>2 DEF ClaimRuntime, Goto, Hold
  <2>3. CASE /\ runtime.lease = "active" /\ runtime.owner = OwnerOf[w]
             /\ token'[w] = runtime.fence
             /\ runtime' = runtime
    BY <2>2, <2>3
  <2>4. CASE /\ runtime' = [runtime EXCEPT !.owner = OwnerOf[w], !.fence = NextFence,
                                           !.lease = "active"]
             /\ token'[w] = NextFence
    <3>1. /\ runtime'.fence = runtime.fence + 1 /\ token'[w] = runtime.fence + 1
          /\ runtime'.owner = OwnerOf[w]
      BY <2>4 DEF NextFence
    <3>2. \A x \in Worker : x # w /\ pc'[x] # "idle" =>
            token'[x] = token[x] /\ token[x] < runtime.fence + 1
      BY <2>2
    <3>3. PICK f \in Nat : f = runtime.fence /\ runtime'.fence = f + 1 /\ token'[w] = f + 1
      BY <3>1
    <3>4. \A x \in Worker : x # w /\ pc'[x] # "idle" => token'[x] \in Nat /\ token'[x] < f + 1
      BY <3>2, <3>3
    <3>5. ASSUME NEW x \in Worker, pc'[x] # "idle"
          PROVE  /\ token'[x] <= runtime'.fence
                 /\ token'[x] = runtime'.fence => x = w
      <4>1. CASE x = w
        BY <3>3, <4>1
      <4>2. CASE x # w
        BY <3>3, <3>4, <3>5, <4>2
      <4> QED
        BY <4>1, <4>2
    <3>6. \A x, y \in Worker :
            pc'[x] # "idle" /\ pc'[y] # "idle" /\ token'[x] = token'[y] =>
              OwnerOf[x] = OwnerOf[y]
      <4>1. ASSUME NEW x \in Worker, NEW y \in Worker, pc'[x] # "idle", pc'[y] # "idle",
                   token'[x] = token'[y], x # w, y # w
            PROVE  OwnerOf[x] = OwnerOf[y]
        BY <2>2, <4>1
      <4>2. \A x \in Worker : pc'[x] # "idle" /\ token'[x] = token'[w] => x = w
        BY <3>1, <3>5
      <4> QED
        BY <2>2, <4>1, <4>2
    <3>7. FenceNamesOwner'
      BY <3>6
    <3> QED
      BY <2>1, <3>1, <3>5, <3>7
  <2> QED
    BY <1>2, <2>3, <2>4 DEF ClaimRuntime, Hold
<1>3. ASSUME NEW w \in Worker, ReleaseClaim(w) PROVE FenceInv'
  <2>1. \A x \in Worker : pc'[x] # "idle" => pc[x] # "idle" /\ token'[x] = token[x]
    BY <1>3 DEF ReleaseClaim, Exit, Goto, Hold
  <2>2. /\ runtime'.fence = runtime.fence
        /\ runtime'.owner \in {runtime.owner, NoOwner}
        /\ runtime'.lease = "active" => runtime' = runtime
    BY <1>3 DEF ReleaseClaim
  <2>3. FenceNamesOwner'
    BY <2>1
  <2> QED
    BY <2>1, <2>2, <2>3
<1> QED
  BY <1>1, <1>2, <1>3, QuietSteps

\* A token is never shared by two owner ids, because a claim under a new owner takes
\* a fence no worker has seen.
THEOREM Fencing == Spec => []FenceNamesOwner
<1>1. Init => FenceInv
  BY DEF Init, FenceInv, FenceNamesOwner
<1>2. TypeOK /\ FenceInv /\ [Next]_vars => FenceInv'
  BY FenceInvInductive
<1>3. FenceInv => FenceNamesOwner
  BY DEF FenceInv
<1> QED
  BY <1>1, <1>2, <1>3, Typing, PTL DEF Spec

-----------------------------------------------------------------------------
(* A Work and its one attempt *)

Holding == {"confirm", "look", "step", "observe"}

\* What a worker knows of the Work it holds: the order has not fallen behind it, it
\* is durable, and when it is to be observed its Step has a receipt.
HoldsWork(w) ==
  /\ item[w] <= order.version
  /\ pc[w] \in Holding => item[w] \in works
  /\ pc[w] = "observe" => Known(item[w])

WorkInv == WorkExecutedOnce /\ \A w \in Worker : HoldsWork(w)

\* Nothing is taken back: versions, Works and receipts only grow.
Grows == order.version <= order'.version /\ works \subseteq works' /\ receipts \subseteq receipts'

\* x keeps its Work, or drops it, or goes on with it to the Step.
Keeps(x) ==
  \/ pc'[x] = pc[x] /\ item'[x] = item[x]
  \/ pc'[x] \notin Holding /\ item'[x] \in {0, item[x]}
  \/ Confirm(x) /\ pc'[x] \in {"look", "step"} /\ item'[x] = item[x]
  \/ Look(x) /\ pc'[x] = "step" /\ item'[x] = item[x]

\* Whatever else grows, such a worker knows no less of its Work.
LEMMA KeepsWork ==
  ASSUME TypeOK, TypeOK', Grows, NEW x \in Worker, HoldsWork(x), Keeps(x)
  PROVE  HoldsWork(x)'
<1>1. /\ order.version \in Nat /\ order'.version \in Nat
      /\ item[x] \in Nat
  BY VersionFacts DEF TypeOK, Order
<1> QED
  BY <1>1 DEF Grows, Keeps, Confirm, Look, HoldsWork, Holding, Known

\* No step takes anything back.
LEMMA StepsGrow ==
  ASSUME TypeOK, [Next]_vars
  PROVE  Grows
<1>1. order.version \in Nat
  BY VersionFacts DEF TypeOK, Order
<1> USE DEF Grows, rows
<1>2. CASE ManualStep
  BY <1>1, <1>2, NewAttemptFacts DEF ManualStep, TypeOK
<1>3. CASE AuthorityDiverges
  BY <1>1, <1>3 DEF AuthorityDiverges, TypeOK, Order
<1>4. CASE LeaseLapses
  BY <1>1, <1>4 DEF LeaseLapses
<1>5. CASE Control
  BY <1>1, <1>5
     DEF Control, CreateRuntime, StartRuntime, StopRuntime, ResumeRuntime, Desire
<1>6. ASSUME NEW w \in Worker, ClaimRuntime(w) \/ Crash(w) PROVE Grows
  BY <1>1, <1>6 DEF ClaimRuntime, Crash
<1>7. ASSUME NEW w \in Worker, WorkerStep(w) PROVE Grows
  <2>1. CASE StepOrder(w)
    BY <1>1, <2>1, NewAttemptFacts DEF StepOrder, TypeOK
  <2>2. CASE PhaseA(w)
    BY <1>1, <2>2 DEF PhaseA, PrepareWork, PrepareEnd
  <2>3. CASE \/ Reconcile(w) \/ BlockRuntime(w) \/ Confirm(w) \/ Look(w) \/ SettleStopped(w)
             \/ PhaseC(w) \/ AssertClaim(w) \/ ReleaseClaim(w)
    BY <1>1, <2>3
       DEF Reconcile, BlockRuntime, Confirm, Look, SettleStopped, PhaseC, AssertClaim,
         ReleaseClaim
  <2>4. CASE RenewClaim(w)
    BY <1>1, <2>4 DEF RenewClaim, Fail
  <2> QED
    BY <1>7, <2>1, <2>2, <2>3, <2>4 DEF WorkerStep
<1>8. CASE UNCHANGED vars
  BY <1>1, <1>8 DEF vars
<1> QED
  BY <1>2, <1>3, <1>4, <1>5, <1>6, <1>7, <1>8 DEF Next

\* The steps after which some worker knows more than it did.
Informs(w) == Reconcile(w) \/ PhaseA(w) \/ StepOrder(w)

\* In every other step each worker keeps its Work.
LEMMA OthersKeep ==
  ASSUME TypeOK, [Next]_vars, NEW x \in Worker, ~Informs(x)
  PROVE  Keeps(x)
<1> USE DEF Keeps, Holding, locals, TypeOK
<1>1. CASE ManualStep \/ AuthorityDiverges \/ LeaseLapses
  BY <1>1 DEF ManualStep, AuthorityDiverges, LeaseLapses
<1>2. CASE Control
  BY <1>2 DEF Control, CreateRuntime, StartRuntime, StopRuntime, ResumeRuntime, Desire
<1>3. ASSUME NEW w \in Worker, ClaimRuntime(w) \/ Crash(w) PROVE Keeps(x)
  BY <1>3 DEF ClaimRuntime, Crash, Exit, Goto, Hold
<1>4. ASSUME NEW w \in Worker, WorkerStep(w), w # x PROVE Keeps(x)
  <2> USE DEF Exit, Goto, Hold
  <2>1. CASE Reconcile(w)
    BY <1>4, <2>1 DEF Reconcile, ResumeWork, SettleReconciled
  <2>2. CASE PhaseA(w)
    BY <1>4, <2>2 DEF PhaseA, PrepareWork, PrepareEnd
  <2>3. CASE StepOrder(w) \/ PhaseC(w)
    BY <1>4, <2>3 DEF StepOrder, PhaseC, SettleObserved, Raise
  <2>4. CASE BlockRuntime(w) \/ Confirm(w) \/ Look(w) \/ SettleStopped(w)
    BY <1>4, <2>4 DEF BlockRuntime, Confirm, Look, SettleStopped, Raise
  <2>5. CASE AssertClaim(w) \/ RenewClaim(w) \/ ReleaseClaim(w)
    BY <1>4, <2>5 DEF AssertClaim, RenewClaim, ReleaseClaim, Fail
  <2> QED
    BY <1>4, <2>1, <2>2, <2>3, <2>4, <2>5 DEF WorkerStep
<1>5. CASE WorkerStep(x)
  <2> USE DEF Exit, Goto, Hold
  <2>1. CASE PhaseC(x)
    BY <2>1 DEF PhaseC, SettleObserved, Raise
  <2>2. CASE Confirm(x) \/ Look(x)
    BY <2>2 DEF Confirm, Look, LookAt
  <2>3. CASE BlockRuntime(x) \/ SettleStopped(x)
    BY <2>3 DEF BlockRuntime, SettleStopped, Raise
  <2>4. CASE AssertClaim(x) \/ RenewClaim(x) \/ ReleaseClaim(x)
    BY <2>4 DEF AssertClaim, RenewClaim, ReleaseClaim, Fail
  <2> QED
    BY <1>5, <2>1, <2>2, <2>3, <2>4 DEF WorkerStep, Informs
<1>6. CASE UNCHANGED vars
  BY <1>6 DEF vars
<1> QED
  BY <1>1, <1>2, <1>3, <1>4, <1>5, <1>6 DEF Next

\* A worker that reconciles, prepares or steps knows its Work afterwards.
LEMMA InformedWorker ==
  ASSUME TypeOK, TypeOK', [Next]_vars, NEW w \in Worker, HoldsWork(w), Informs(w)
  PROVE  HoldsWork(w)'
<1>1. /\ order.version \in Nat /\ item[w] \in Nat
      /\ Grows
  BY VersionFacts, StepsGrow DEF TypeOK, Order
<1> USE DEF Goto
<1>2. CASE Reconcile(w)
  <2>1. ASSUME ResumeWork(w), ReconcileVerdict = "none", runtime.observed # "blocked"
        PROVE  HoldsWork(w)'
    <3>1. PICK v \in Unobserved : item' = [item EXCEPT ![w] = v]
                                 /\ pc' = [pc EXCEPT ![w] = "confirm"]
      BY <2>1 DEF ResumeWork
    <3>2. RecoveryAudit
      BY <2>1 DEF ReconcileVerdict, ReconcileSound
    <3>3. v \in works /\ v <= order.version
      BY <3>2 DEF RecoveryAudit, AuditSound, Unobserved
    <3>4. order' = order /\ works' = works
      BY <1>2 DEF Reconcile
    <3> QED
      BY <3>1, <3>3, <3>4 DEF HoldsWork, Holding, TypeOK
  <2>2. CASE ~(ResumeWork(w) /\ ReconcileVerdict = "none" /\ runtime.observed # "blocked")
    <3>1. Keeps(w)
      BY <1>2, <2>2
         DEF Reconcile, SettleReconciled, Exit, Hold, Keeps, Holding, TypeOK, locals
    <3> QED
      BY <1>1, <3>1, KeepsWork
  <2> QED
    BY <2>1, <2>2
<1>3. CASE PhaseA(w)
  <2>1. ASSUME PrepareWork(w) PROVE HoldsWork(w)'
    <3>1. order' = order
      BY <1>3 DEF PhaseA
    <3> QED
      BY <1>1, <2>1, <3>1 DEF PrepareWork, HoldsWork, Holding, TypeOK
  <2>2. CASE ~PrepareWork(w)
    <3>1. Keeps(w)
      BY <1>3, <2>2 DEF PhaseA, PrepareEnd, Exit, Hold, Keeps, Holding, TypeOK, locals
    <3> QED
      BY <1>1, <3>1, KeepsWork
  <2> QED
    BY <2>1, <2>2
<1>4. CASE StepOrder(w)
  <2>1. CASE pc'[w] = "observe"
    <3>1. item' = item /\ works' = works /\ item[w] \in works
      BY <1>4, <2>1 DEF StepOrder, Raise, Exit, Hold, HoldsWork, Holding, TypeOK, locals, rows
    <3>2. item[w] <= order'.version
      BY <1>1 DEF HoldsWork, Grows, TypeOK, Order, Version
    <3>3. \E r \in receipts' : r.work = item[w]
      <4>1. \/ Known(item[w]) /\ receipts' = receipts
            \/ \E a \in Version : [work |-> item[w], attempt |-> a] \in receipts'
        BY <1>4, <2>1 DEF StepOrder, Raise, Exit, TypeOK, Order
      <4> QED
        BY <4>1 DEF Known
    <3> QED
      BY <3>1, <3>2, <3>3 DEF HoldsWork, Known
  <2>2. CASE pc'[w] # "observe"
    <3>1. Keeps(w)
      BY <1>4, <2>2 DEF StepOrder, Raise, Exit, Hold, Keeps, Holding, TypeOK, locals
    <3> QED
      BY <1>1, <3>1, KeepsWork
  <2> QED
    BY <2>1, <2>2
<1> QED
  BY <1>2, <1>3, <1>4 DEF Informs

\* What is recorded of Works and attempts is right after each step.
LEMMA ExecutedOnceKept ==
  ASSUME TypeOK, TypeOK', [Next]_vars, WorkInv
  PROVE  WorkExecutedOnce'
<1>1. Grows
  BY StepsGrow
<1>2. order.version \in Nat /\ order'.version \in Nat
  BY VersionFacts DEF TypeOK, Order
<1>3. ASSUME NEW r \in receipts' PROVE r.attempt = r.work /\ r.attempt < order'.version
  <2>1. CASE r \in receipts
    BY <1>1, <1>2, <2>1 DEF WorkInv, WorkExecutedOnce, Grows, TypeOK, Receipt, Version
  <2>2. CASE r \notin receipts
    <3>1. PICK w \in Worker : StepOrder(w)
      BY <2>2 DEF Next, vars, ManualStep, AuthorityDiverges, LeaseLapses, Control,
           CreateRuntime, StartRuntime, StopRuntime, ResumeRuntime, Desire, ClaimRuntime, Crash,
           WorkerStep, Reconcile, BlockRuntime, Confirm, Look, SettleStopped, PhaseA, PhaseC,
           AssertClaim, RenewClaim, ReleaseClaim, Fail
    <3>2. \/ /\ Converges(item[w]) /\ order' = order
             /\ receipts' = receipts \union {[work |-> item[w], attempt |-> item[w]]}
          \/ /\ order.version = item[w] /\ Steppable /\ NewAttempt
             /\ receipts' = receipts \union {[work |-> item[w], attempt |-> order.version]}
      BY <2>2, <3>1 DEF StepOrder
    <3> QED
      BY <1>2, <2>2, <3>2, NewAttemptFacts DEF Converges, TypeOK
  <2> QED
    BY <2>1, <2>2
<1>4. ASSUME NEW v \in checkpoints' PROVE v \in works' /\ Known(v)'
  <2>1. CASE v \in checkpoints
    BY <1>1, <2>1 DEF WorkInv, WorkExecutedOnce, Grows, Known
  <2>2. CASE v \notin checkpoints
    <3>1. PICK w \in Worker : PhaseC(w)
      BY <2>2 DEF Next, vars, rows, ManualStep, AuthorityDiverges, LeaseLapses, Control,
           CreateRuntime, StartRuntime, StopRuntime, ResumeRuntime, Desire, ClaimRuntime, Crash,
           WorkerStep, Reconcile, BlockRuntime, Confirm, Look, SettleStopped, PhaseA, StepOrder,
           AssertClaim, RenewClaim, ReleaseClaim, Fail
    <3>2. pc[w] = "observe" /\ v = item[w]
      BY <2>2, <3>1 DEF PhaseC
    <3> QED
      BY <1>1, <3>2 DEF WorkInv, HoldsWork, Holding, Grows, Known
  <2> QED
    BY <2>1, <2>2
<1> QED
  BY <1>3, <1>4 DEF WorkExecutedOnce

\* The work invariant is inductive.
LEMMA WorkInvInductive == TypeOK /\ TypeOK' /\ WorkInv /\ [Next]_vars => WorkInv'
<1> SUFFICES ASSUME TypeOK, TypeOK', WorkInv, [Next]_vars PROVE WorkInv'
  OBVIOUS
<1>1. ASSUME NEW w \in Worker PROVE HoldsWork(w)'
  BY StepsGrow, OthersKeep, KeepsWork, InformedWorker DEF WorkInv
<1> QED
  BY <1>1, ExecutedOnceKept DEF WorkInv

\* A Work is carried out by one attempt, at its version, whatever crashes, repeats
\* and takeovers happen, and is observed only when it was.
THEOREM ExecutedOnce == Spec => []WorkExecutedOnce
<1>1. Init => WorkInv
  BY DEF Init, WorkInv, WorkExecutedOnce, HoldsWork, Holding
<1>2. WorkInv => WorkExecutedOnce
  BY DEF WorkInv
<1> QED
  BY <1>1, <1>2, WorkInvInductive, Typing, PTL DEF Spec

\* A worker that no step is one of stays where it is, with its Work and what it saw.
LEMMA Actors ==
  ASSUME TypeOK, [Next]_vars, NEW x \in Worker,
         ~(ClaimRuntime(x) \/ Crash(x) \/ WorkerStep(x))
  PROVE  UNCHANGED <<pc[x], item[x], view[x]>>
<1> USE DEF locals, TypeOK
<1>1. CASE ManualStep \/ AuthorityDiverges \/ LeaseLapses
  BY <1>1 DEF ManualStep, AuthorityDiverges, LeaseLapses
<1>2. CASE Control
  BY <1>2 DEF Control, CreateRuntime, StartRuntime, StopRuntime, ResumeRuntime, Desire
<1>3. ASSUME NEW w \in Worker, ClaimRuntime(w) \/ Crash(w), w # x
      PROVE  UNCHANGED <<pc[x], item[x], view[x]>>
  BY <1>3 DEF ClaimRuntime, Crash, Exit, Goto, Hold
<1>4. ASSUME NEW w \in Worker, WorkerStep(w), w # x
      PROVE  UNCHANGED <<pc[x], item[x], view[x]>>
  <2> USE DEF Exit, Goto, Hold
  <2>1. CASE Reconcile(w)
    BY <1>4, <2>1 DEF Reconcile, ResumeWork, SettleReconciled
  <2>2. CASE PhaseA(w)
    BY <1>4, <2>2 DEF PhaseA, PrepareWork, PrepareEnd
  <2>3. CASE StepOrder(w) \/ PhaseC(w)
    BY <1>4, <2>3 DEF StepOrder, PhaseC, SettleObserved, Raise
  <2>4. CASE BlockRuntime(w) \/ Confirm(w) \/ Look(w) \/ SettleStopped(w)
    BY <1>4, <2>4 DEF BlockRuntime, Confirm, Look, SettleStopped, Raise
  <2>5. CASE AssertClaim(w) \/ RenewClaim(w) \/ ReleaseClaim(w)
    BY <1>4, <2>5 DEF AssertClaim, RenewClaim, ReleaseClaim, Fail
  <2> QED
    BY <1>4, <2>1, <2>2, <2>3, <2>4, <2>5 DEF WorkerStep
<1>5. CASE UNCHANGED vars
  BY <1>5 DEF vars
<1> QED
  BY <1>1, <1>2, <1>3, <1>4, <1>5 DEF Next

\* A worker that is at its look began it in this step, or was there with what it saw.
LEMMA LookBegins ==
  ASSUME TypeOK, [Next]_vars, NEW x \in Worker, pc'[x] = "look"
  PROVE  \/ /\ Confirm(x) /\ ClaimReadAsCurrent(x) /\ ~Final /\ role[x] = "recovery"
            /\ view'[x] = [desired |-> runtime.desired, order |-> order]
            /\ UNCHANGED <<order, item>>
         \/ pc[x] = "look" /\ UNCHANGED <<item[x], view[x]>>
<1> USE DEF TypeOK, Goto, Exit
<1>1. CASE Confirm(x)
  BY <1>1 DEF Confirm
<1>2. ASSUME WorkerStep(x), ~Confirm(x) PROVE FALSE
  <2>1. CASE Reconcile(x)
    BY <2>1 DEF Reconcile, ResumeWork, SettleReconciled
  <2>2. CASE PhaseA(x)
    BY <2>2 DEF PhaseA, PrepareWork, PrepareEnd
  <2>3. CASE StepOrder(x) \/ PhaseC(x)
    BY <2>3 DEF StepOrder, PhaseC, SettleObserved, Raise
  <2>4. CASE BlockRuntime(x) \/ Look(x) \/ SettleStopped(x)
    BY <2>4 DEF BlockRuntime, Look, LookAt, SettleStopped, Raise
  <2>5. CASE AssertClaim(x) \/ RenewClaim(x) \/ ReleaseClaim(x)
    BY <2>5 DEF AssertClaim, RenewClaim, ReleaseClaim, Fail
  <2> QED
    BY <1>2, <2>1, <2>2, <2>3, <2>4, <2>5 DEF WorkerStep
<1>3. ~ClaimRuntime(x) /\ ~Crash(x)
  BY DEF ClaimRuntime, Crash
<1> QED
  BY <1>1, <1>2, <1>3, Actors

-----------------------------------------------------------------------------
(* A Stop and the Step already entered *)

\* A worker that steps next, or whose look began before the Stop and lets it step.
Entered(w) == pc[w] = "step" \/ (pc[w] = "look" /\ view[w].desired = "running")

\* Once an attempt came late, the runtime is still stopped or blocked, and whoever is
\* about to step would only repeat an attempt that is already there.
StopInv ==
  /\ late <= 1
  /\ late = 1 => /\ Late
                 /\ \A w \in Worker : Entered(w) => item[w] < order.version

\* A stopped or blocked runtime stays that way unless a control command runs it,
\* which forgives the late attempt; only a Step is counted as one.
LEMMA LateSteps ==
  ASSUME TypeOK, [Next]_vars, ~\E w \in Worker : StepOrder(w)
  PROVE  \/ late' = 0
         \/ late' = late /\ (Late => Late')
<1> USE DEF Late, TypeOK, Row, Observe, Complete
<1>1. CASE ManualStep \/ AuthorityDiverges \/ LeaseLapses
  BY <1>1 DEF ManualStep, AuthorityDiverges, LeaseLapses
<1>2. CASE Control
  BY <1>2 DEF Control, CreateRuntime, Exists, StartRuntime, StopRuntime, ResumeRuntime, Desire
<1>3. ASSUME NEW w \in Worker, ClaimRuntime(w) \/ Crash(w)
      PROVE  late' = late /\ (Late => Late')
  BY <1>3 DEF ClaimRuntime, Crash
<1>4. ASSUME NEW w \in Worker, WorkerStep(w) PROVE late' = late /\ (Late => Late')
  <2>1. CASE Reconcile(w)
    BY <2>1 DEF Reconcile, ResumeWork, SettleReconciled
  <2>2. CASE BlockRuntime(w)
    BY <2>2 DEF BlockRuntime
  <2>3. CASE Confirm(w) \/ Look(w) \/ AssertClaim(w) \/ RenewClaim(w) \/ ReleaseClaim(w)
    BY <2>3 DEF Confirm, Look, AssertClaim, RenewClaim, ReleaseClaim, Fail
  <2>4. CASE SettleStopped(w)
    BY <2>4 DEF SettleStopped
  <2>5. CASE PhaseA(w)
    BY <2>5 DEF PhaseA, PrepareWork, PrepareEnd, Final
  <2>6. CASE PhaseC(w)
    BY <2>6 DEF PhaseC, SettleObserved, ObserveRefused
  <2> QED
    BY <1>4, <2>1, <2>2, <2>3, <2>4, <2>5, <2>6 DEF WorkerStep
<1>5. CASE UNCHANGED vars
  BY <1>5 DEF vars
<1> QED
  BY <1>1, <1>2, <1>3, <1>4, <1>5 DEF Next

\* A worker about to step a stopped or blocked runtime was there before, or repeats.
LEMMA LateEntry ==
  ASSUME TypeOK, TypeOK', [Next]_vars, WorkInv, Late, NEW x \in Worker, Entered(x)'
  PROVE  \/ Entered(x) /\ item'[x] = item[x]
         \/ item'[x] < order'.version
<1>1. CASE pc'[x] = "look"
  <2>1. CASE Confirm(x) /\ ~Final /\ view'[x] = [desired |-> runtime.desired, order |-> order]
    BY <1>1, <2>1 DEF Entered, Late, Final, TypeOK, Row, Desired
  <2>2. CASE pc[x] = "look" /\ UNCHANGED <<item[x], view[x]>>
    BY <1>1, <2>2 DEF Entered
  <2> QED
    BY <1>1, <2>1, <2>2, LookBegins
<1>2. CASE pc'[x] = "step" /\ Look(x)
  <2>1. item[x] \in Nat /\ order.version \in Nat /\ view[x].order.version \in Nat
    BY VersionFacts DEF TypeOK, View, Order
  <2>2. /\ pc[x] = "look" /\ item' = item /\ order' = order
        /\ \E v \in view[x].order.version..order.version : LookAt(x, v) = "step"
    BY <1>2 DEF Look, Goto, TypeOK
  <2>3. PICK v \in view[x].order.version..order.version : LookAt(x, v) = "step"
    BY <2>2
  <2>4. v \in Nat /\ v <= order.version
    BY <2>1
  <2>5. v = item[x] + 1 \/ (v = item[x] /\ view[x].desired # "stopped")
    BY <2>3 DEF LookAt
  <2>6. view[x].desired \in Desired
    BY DEF TypeOK, View
  <2>7. CASE v = item[x] + 1
    BY <2>1, <2>2, <2>4, <2>7
  <2> QED
    BY <2>2, <2>5, <2>6, <2>7 DEF Entered, Desired
<1>3. CASE pc'[x] = "step" /\ ~Look(x)
  <2>1. CASE Confirm(x)
    BY <1>3, <2>1 DEF Confirm, Final, Late, Goto, Exit, TypeOK, Row, Desired
  <2>2. CASE Informs(x)
    BY <1>3, <2>2
       DEF Informs, Reconcile, ResumeWork, SettleReconciled, PhaseA, PrepareWork, PrepareEnd,
         StepOrder, Raise, Exit, Goto, TypeOK
  <2>3. CASE ~Informs(x) /\ ~Confirm(x)
    <3>1. Keeps(x)
      BY <2>3, OthersKeep
    <3> QED
      BY <1>3, <2>3, <3>1 DEF Keeps, Holding, Entered
  <2> QED
    BY <2>1, <2>2, <2>3
<1> QED
  BY <1>1, <1>2, <1>3 DEF Entered

\* After a Stop or a block the workers add at most one attempt to the order.
THEOREM OneLateStep == Spec => []StopAdmitsOneStep
<1>1. Init => StopInv
  BY DEF Init, StopInv
<1>2. TypeOK /\ TypeOK' /\ WorkInv /\ StopInv /\ [Next]_vars => StopInv'
  <2> SUFFICES ASSUME TypeOK, TypeOK', WorkInv, StopInv, [Next]_vars PROVE StopInv'
    OBVIOUS
  <2>1. /\ late \in Nat /\ late' \in Nat
        /\ order.version \in Nat /\ order'.version \in Nat
        /\ order.version <= order'.version
        /\ \A x \in Worker : item[x] \in Nat /\ item[x] <= order.version
    BY VersionFacts, StepsGrow DEF TypeOK, Order, Grows, WorkInv, HoldsWork
  <2>2. CASE ~\E w \in Worker : StepOrder(w)
    <3>1. CASE late' = 0
      BY <3>1 DEF StopInv
    <3>2. CASE late' = late /\ (Late => Late')
      BY <2>1, <3>2, LateEntry DEF StopInv
    <3> QED
      BY <2>2, <3>1, <3>2, LateSteps
  <2>3. ASSUME NEW w \in Worker, StepOrder(w) PROVE StopInv'
    <3>1. Late' = Late
      BY <2>3 DEF StepOrder, Late
    <3>2. CASE late' = late
      BY <2>1, <3>1, <3>2, LateEntry DEF StopInv
    <3>3. CASE late' # late
      <4>1. /\ Late /\ late' = late + 1 /\ pc[w] = "step"
            /\ order.version = item[w] /\ Steppable /\ NewAttempt
        BY <2>3, <3>3 DEF StepOrder
      <4>2. late = 0
        BY <2>1, <4>1 DEF StopInv, Entered
      <4>3. order'.version = order.version + 1
        BY <4>1, NewAttemptFacts DEF TypeOK
      <4>4. item' = item \/ item' = [item EXCEPT ![w] = 0]
        BY <2>3 DEF StepOrder, Raise, Exit, Hold, locals
      <4>5. \A x \in Worker : item'[x] < order'.version
        BY <2>1, <4>3, <4>4 DEF TypeOK
      <4> QED
        BY <3>1, <4>1, <4>2, <4>5 DEF StopInv
    <3> QED
      BY <3>2, <3>3
  <2> QED
    BY <2>2, <2>3
<1>3. StopInv => StopAdmitsOneStep
  BY DEF StopInv, StopAdmitsOneStep
<1>4. Init => WorkInv
  BY DEF Init, WorkInv, WorkExecutedOnce, HoldsWork, Holding
<1> QED
  BY <1>1, <1>2, <1>3, <1>4, WorkInvInductive, Typing, PTL DEF Spec

-----------------------------------------------------------------------------
(* Writes under the claim *)

Written == <<runtime.observed, rows>>

\* What OnlyHolderWrites asks of the worker that wrote.
Holder(w) ==
  /\ pc[w] # "idle" /\ pc'[w] # pc[w]
  /\ OwnerOf[w] = runtime.owner /\ token[w] = runtime.fence
  /\ runtime.lease = "active"

\* A step that changes what is observed or recorded of an existing runtime is taken
\* by the holder of its unexpired claim.
LEMMA HolderWritesStep ==
  ASSUME TypeOK, [Next]_vars, Exists, Written' # Written
  PROVE  \E w \in Worker : Holder(w)
<1> USE DEF TypeOK, Row, rows, Written, Holder
<1>1. CASE ManualStep \/ AuthorityDiverges \/ LeaseLapses
  BY <1>1 DEF ManualStep, AuthorityDiverges, LeaseLapses
<1>2. CASE Control
  BY <1>2 DEF Control, CreateRuntime, StartRuntime, StopRuntime, ResumeRuntime, Desire
<1>3. ASSUME NEW w \in Worker, ClaimRuntime(w) \/ Crash(w) PROVE Written' = Written
  BY <1>3 DEF ClaimRuntime, Crash
<1>4. ASSUME NEW w \in Worker, WorkerStep(w) PROVE Holder(w)
  <2> USE DEF ClaimCurrent, Claimed, Goto, Exit
  <2>1. CASE Reconcile(w)
    BY <2>1 DEF Reconcile, ResumeWork, SettleReconciled
  <2>2. CASE BlockRuntime(w)
    BY <2>2 DEF BlockRuntime
  <2>3. CASE SettleStopped(w)
    BY <2>3 DEF SettleStopped, Raise
  <2>4. CASE PhaseA(w)
    BY <2>4 DEF PhaseA, PrepareWork, PrepareEnd
  <2>5. CASE PhaseC(w)
    BY <2>5 DEF PhaseC, SettleObserved, Raise
  <2>6. CASE Confirm(w) \/ Look(w) \/ StepOrder(w) \/ AssertClaim(w) \/ RenewClaim(w)
    BY <2>6 DEF Confirm, Look, StepOrder, AssertClaim, RenewClaim, Fail
  <2>7. CASE ReleaseClaim(w)
    BY <2>7 DEF ReleaseClaim
  <2> QED
    BY <1>4, <2>1, <2>2, <2>3, <2>4, <2>5, <2>6, <2>7 DEF WorkerStep
<1>5. CASE UNCHANGED vars
  BY <1>5 DEF vars
<1> QED
  BY <1>1, <1>2, <1>3, <1>4, <1>5 DEF Next

\* Every step that changes what is observed of an existing runtime, or its Works,
\* checkpoints and lifecycle events, is one of the holder of its unexpired claim.
THEOREM HolderWrites == Spec => OnlyHolderWrites
<1> DEFINE Allowed == Written' # Written /\ Exists => \E w \in Worker : Holder(w)
<1>1. TypeOK /\ [Next]_vars => [Allowed]_vars
  BY HolderWritesStep
<1> QED
  BY <1>1, Typing, PTL DEF Spec, OnlyHolderWrites, Written, Holder

-----------------------------------------------------------------------------
(* The Works of a runtime's era *)

\* An order has ended only by an attempt, and has ended when it is at its bound.
OrderInv ==
  /\ Terminal => order.version > 0
  /\ order.version = MaxVersion => Terminal

\* Before the runtime there is nothing of it; its Works lie in its era or are the next
\* attempt, which can still be made; and what lacks its checkpoint is the newest.
WorksInv ==
  /\ ~Exists => /\ works = {} /\ checkpoints = {} /\ completions = 0
                /\ \A w \in Worker : pc[w] = "idle"
  /\ start <= order.version
  /\ \A v \in works : /\ start <= v /\ v <= order.version
                      /\ v = order.version => ~Terminal
  /\ \A v \in Unobserved, u \in works : u <= v

\* A step leaves the order alone, or it diverges, or it gets one attempt: by hand or
\* for the Work of a worker.
LEMMA OrderSteps ==
  ASSUME TypeOK, [Next]_vars
  PROVE  \/ order' = order
         \/ order' = [order EXCEPT !.chain = "stale"]
         \/ Steppable /\ NewAttempt /\ ManualStep
         \/ /\ Steppable /\ NewAttempt
            /\ \E w \in Worker : StepOrder(w) /\ pc[w] = "step" /\ order.version = item[w]
<1>1. CASE ManualStep \/ AuthorityDiverges
  BY <1>1 DEF ManualStep, AuthorityDiverges
<1>2. CASE LeaseLapses \/ Control
  BY <1>2 DEF LeaseLapses, Control, CreateRuntime, StartRuntime, StopRuntime, ResumeRuntime, Desire
<1>3. ASSUME NEW w \in Worker, ClaimRuntime(w) \/ Crash(w) PROVE order' = order
  BY <1>3 DEF ClaimRuntime, Crash
<1>4. ASSUME NEW w \in Worker, WorkerStep(w), ~StepOrder(w) PROVE order' = order
  BY <1>4
     DEF WorkerStep, Reconcile, BlockRuntime, Confirm, Look, AssertClaim, RenewClaim,
       ReleaseClaim, Fail, SettleStopped, PhaseA, PhaseC
<1>5. ASSUME NEW w \in Worker, StepOrder(w), order' # order
      PROVE  Steppable /\ NewAttempt /\ pc[w] = "step" /\ order.version = item[w]
  BY <1>5 DEF StepOrder
<1>6. CASE UNCHANGED vars
  BY <1>6 DEF vars
<1> QED
  BY <1>1, <1>2, <1>3, <1>4, <1>5, <1>6 DEF Next

\* Works are written by Phase A and checkpoints by Phase C, one at a time.
LEMMA WorksSteps ==
  ASSUME TypeOK, [Next]_vars
  PROVE  \/ UNCHANGED <<works, checkpoints>>
         \/ \E w \in Worker : /\ PhaseA(w) /\ ~Final /\ RunnerAudit /\ LiveNonterminal
                              /\ works' = works \union {order.version}
                              /\ checkpoints' = checkpoints
         \/ \E w \in Worker : /\ PhaseC(w)
                              /\ works' = works /\ checkpoints' = checkpoints \union {item[w]}
<1>1. CASE ManualStep \/ AuthorityDiverges \/ LeaseLapses \/ Control
  BY <1>1
     DEF ManualStep, AuthorityDiverges, LeaseLapses, Control, CreateRuntime, StartRuntime,
       StopRuntime, ResumeRuntime, Desire, rows
<1>2. ASSUME NEW w \in Worker, ClaimRuntime(w) \/ Crash(w) PROVE UNCHANGED <<works, checkpoints>>
  BY <1>2 DEF ClaimRuntime, Crash, rows
<1>3. ASSUME NEW w \in Worker, WorkerStep(w), ~PhaseA(w), ~PhaseC(w)
      PROVE  UNCHANGED <<works, checkpoints>>
  BY <1>3
     DEF WorkerStep, Reconcile, BlockRuntime, Confirm, Look, AssertClaim, RenewClaim,
       ReleaseClaim, Fail, SettleStopped, StepOrder, rows
<1>4. ASSUME NEW w \in Worker, PhaseA(w), UNCHANGED works PROVE UNCHANGED checkpoints
  BY <1>4 DEF PhaseA
<1>5. ASSUME NEW w \in Worker, PhaseA(w), works' # works
      PROVE  /\ ~Final /\ RunnerAudit /\ LiveNonterminal
             /\ works' = works \union {order.version} /\ checkpoints' = checkpoints
  BY <1>5 DEF PhaseA, PrepareEnd, PrepareWork
<1>6. ASSUME NEW w \in Worker, PhaseC(w)
      PROVE  works' = works /\ (UNCHANGED checkpoints \/ checkpoints' = checkpoints \union {item[w]})
  BY <1>6 DEF PhaseC
<1>7. CASE UNCHANGED vars
  BY <1>7 DEF vars, rows
<1> QED
  BY <1>1, <1>2, <1>3, <1>4, <1>5, <1>6, <1>7 DEF Next

\* What is observed has been executed: never the attempt that is next.
LEMMA NextUnobserved ==
  ASSUME TypeOK, WorkInv
  PROVE  order.version \notin checkpoints
<1>1. order.version \in Nat
  BY VersionFacts DEF TypeOK, Order
<1> QED
  BY <1>1 DEF WorkInv, WorkExecutedOnce, Known

\* The order part is inductive.
LEMMA OrderInvInductive ==
  ASSUME TypeOK, OrderInv, [Next]_vars
  PROVE  OrderInv'
<1>1. order.version \in Nat /\ order.version \in Version
  BY VersionFacts DEF TypeOK, Order
<1>2. CASE Steppable /\ NewAttempt
  <2>1. order'.version = order.version + 1
    BY <1>2, NewAttemptFacts DEF TypeOK
  <2>2. order'.version = MaxVersion => order'.status = "terminal"
    BY <1>2, <2>1 DEF NewAttempt
  <2> QED
    BY <1>1, <2>1, <2>2 DEF OrderInv, Terminal
<1>3. CASE order' = order \/ order' = [order EXCEPT !.chain = "stale"]
  BY <1>3 DEF OrderInv, Terminal, TypeOK, Order
<1> QED
  BY <1>2, <1>3, OrderSteps

\* An existing runtime keeps its era's start, and stays.
LEMMA EraKept ==
  ASSUME TypeOK, [Next]_vars
  PROVE  \/ ~Exists /\ CreateRuntime
         \/ start' = start /\ (Exists => Exists') /\ (~Exists => UNCHANGED Written \/ \E w \in Worker : pc[w] # "idle")
<1> USE DEF TypeOK, Row, Observe, Exists, rows, Written, Complete
<1>1. CASE ManualStep \/ AuthorityDiverges \/ LeaseLapses
  BY <1>1 DEF ManualStep, AuthorityDiverges, LeaseLapses
<1>2. CASE Control
  BY <1>2 DEF Control, CreateRuntime, StartRuntime, StopRuntime, ResumeRuntime, Desire
<1>3. ASSUME NEW w \in Worker, ClaimRuntime(w) \/ Crash(w)
      PROVE  UNCHANGED Written
  BY <1>3 DEF ClaimRuntime, Crash
<1>4. ASSUME NEW w \in Worker, WorkerStep(w)
      PROVE  start' = start /\ (Exists => Exists') /\ pc[w] # "idle"
  <2>1. CASE Reconcile(w)
    BY <2>1 DEF Reconcile, ResumeWork, SettleReconciled, Desired
  <2>2. CASE BlockRuntime(w) \/ SettleStopped(w)
    BY <2>2 DEF BlockRuntime, SettleStopped
  <2>3. CASE PhaseA(w)
    BY <2>3 DEF PhaseA, PrepareWork, PrepareEnd
  <2>4. CASE PhaseC(w)
    BY <2>4 DEF PhaseC, SettleObserved, Desired
  <2>5. CASE \/ Confirm(w) \/ Look(w) \/ StepOrder(w) \/ AssertClaim(w) \/ RenewClaim(w)
             \/ ReleaseClaim(w)
    BY <2>5 DEF Confirm, Look, StepOrder, AssertClaim, RenewClaim, Fail, ReleaseClaim
  <2> QED
    BY <1>4, <2>1, <2>2, <2>3, <2>4, <2>5 DEF WorkerStep
<1>5. CASE UNCHANGED vars
  BY <1>5 DEF vars
<1> QED
  BY <1>1, <1>2, <1>3, <1>4, <1>5 DEF Next

\* The part about the Works is inductive.
LEMMA WorksInvInductive ==
  ASSUME TypeOK, TypeOK', WorkInv, WorksInv, [Next]_vars
  PROVE  WorksInv'
<1>1. /\ order.version \in Nat /\ order'.version \in Nat /\ start \in Nat /\ start' \in Nat
      /\ works \subseteq Nat /\ works' \subseteq Nat
  BY VersionFacts DEF TypeOK, Order
<1>2. CASE ~Exists
  <2>1. /\ works = {} /\ checkpoints = {} /\ completions = 0
        /\ \A w \in Worker : pc[w] = "idle"
    BY <1>2 DEF WorksInv
  <2>2. /\ works' = {} /\ checkpoints' = {} /\ completions' = 0
    <3>1. CASE CreateRuntime
      BY <2>1, <3>1 DEF CreateRuntime
    <3>2. CASE UNCHANGED Written
      BY <2>1, <3>2 DEF Written, rows
    <3> QED
      BY <1>2, <2>1, <3>1, <3>2, EraKept
  <2>3. start' <= order'.version
    <3>1. CASE CreateRuntime
      BY <1>1, <3>1, ConstantsAssumption DEF CreateRuntime
    <3>2. CASE start' = start
      BY <1>1, <3>2, StepsGrow DEF Grows, WorksInv
    <3> QED
      BY <3>1, <3>2, EraKept
  <2>4. ~Exists' => \A w \in Worker : pc'[w] = "idle"
    <3>1. ASSUME ~Exists', NEW w \in Worker PROVE pc'[w] = "idle"
      <4>1. ~\E x \in Worker : ReleaseClaim(x)
        BY <2>1 DEF ReleaseClaim
      <4>2. ~\E x \in Worker : ClaimRuntime(x)
        BY <1>2 DEF ClaimRuntime
      <4> QED
        BY <2>1, <4>1, <4>2, QuietSteps DEF Quiet
    <3> QED
      BY <3>1
  <2> QED
    BY <2>2, <2>3, <2>4 DEF WorksInv, Unobserved
<1>3. CASE Exists
  <2>1. Exists' /\ start' = start /\ order.version <= order'.version
    BY <1>3, EraKept, StepsGrow DEF Grows
  <2>2. start <= order.version /\ start' <= order'.version
    BY <1>1, <2>1 DEF WorksInv
  <2>3. CASE UNCHANGED works /\ checkpoints \subseteq checkpoints'
    <3>1. \A v \in works' : /\ start' <= v /\ v <= order'.version
                            /\ v = order'.version => ~Terminal'
      <4>1. CASE Steppable /\ NewAttempt
        <5>1. order'.version = order.version + 1
          BY <4>1, NewAttemptFacts DEF TypeOK
        <5> QED
          BY <1>1, <2>1, <2>3, <5>1 DEF WorksInv
      <4>2. CASE order' = order \/ order' = [order EXCEPT !.chain = "stale"]
        BY <2>1, <2>3, <4>2 DEF WorksInv, Terminal, TypeOK, Order
      <4> QED
        BY <4>1, <4>2, OrderSteps
    <3>2. \A v \in Unobserved', u \in works' : u <= v
      BY <2>3 DEF WorksInv, Unobserved
    <3> QED
      BY <2>1, <2>2, <3>1, <3>2 DEF WorksInv
  <2>4. ASSUME NEW w \in Worker, PhaseA(w), RunnerAudit, LiveNonterminal,
               works' = works \union {order.version}, checkpoints' = checkpoints
        PROVE  WorksInv'
    <3>1. order' = order
      BY <2>4 DEF PhaseA
    <3>2. \A v \in works' : start <= v /\ v <= order.version
      BY <1>1, <2>2, <2>4 DEF WorksInv
    <3>3. \A v \in Unobserved' : v = order.version
      BY <2>4 DEF RunnerAudit, Unobserved
    <3> QED
      BY <2>1, <2>2, <2>4, <3>1, <3>2, <3>3 DEF WorksInv, LiveNonterminal, Terminal
  <2> QED
    BY <2>3, <2>4, WorksSteps
<1> QED
  BY <1>2, <1>3

\* An attempt bypasses the runtime by hand, or by a tie at its creation, for good.
LEMMA PastKept ==
  ASSUME TypeOK, [Next]_vars
  PROVE  /\ ~bypassed' => CreateRuntime \/ ~bypassed
         /\ ~bypassed' /\ ManualStep => ~Exists
         /\ ~twins' => ~twins
         /\ overtaken => overtaken'
<1> DEFINE Kept == /\ ~bypassed' => CreateRuntime \/ ~bypassed
                   /\ ~twins' => ~twins
                   /\ overtaken => overtaken'
<1>9. NewAttempt => (overtaken => overtaken')
  BY Zenon DEF NewAttempt
<1>1. ASSUME ManualStep
      PROVE  /\ ~bypassed' => ~bypassed /\ ~Exists
             /\ ~twins' => ~twins
             /\ overtaken => overtaken'
  <2>1. bypassed' = (bypassed \/ Exists)
    BY <1>1 DEF ManualStep
  <2>2. twins' = twins
    BY <1>1 DEF ManualStep
  <2>3. NewAttempt
    BY <1>1 DEF ManualStep
  <2> QED
    BY <1>9, <2>1, <2>2, <2>3, Zenon
<1>2. ASSUME AuthorityDiverges \/ LeaseLapses PROVE UNCHANGED past
  BY <1>2 DEF AuthorityDiverges, LeaseLapses
<1>3. ASSUME CreateRuntime PROVE Kept
  BY <1>3 DEF CreateRuntime
<1>4. ASSUME StartRuntime \/ StopRuntime \/ ResumeRuntime PROVE UNCHANGED past
  BY <1>4 DEF StartRuntime, StopRuntime, ResumeRuntime, Desire
<1>5. ASSUME NEW w \in Worker, ClaimRuntime(w) PROVE Kept
  <2>1. bypassed' = bypassed /\ overtaken' = overtaken
    BY <1>5 DEF ClaimRuntime
  <2>2. twins' = (twins \/ \E x \in Worker \ {w} : pc[x] # "idle" /\ OwnerOf[x] = OwnerOf[w])
    BY <1>5 DEF ClaimRuntime
  <2> QED
    BY <2>1, <2>2, Zenon
<1>6. ASSUME NEW w \in Worker, Crash(w) \/ WorkerStep(w), ~StepOrder(w) PROVE UNCHANGED past
  BY <1>6
     DEF Crash, WorkerStep, Reconcile, BlockRuntime, Confirm, Look, AssertClaim, RenewClaim,
       ReleaseClaim, Fail, SettleStopped, PhaseA, PhaseC
<1>10. ASSUME NEW w \in Worker, StepOrder(w) PROVE Kept
  <2>1. UNCHANGED <<bypassed, twins>> /\ (NewAttempt \/ UNCHANGED overtaken)
    BY <1>10 DEF StepOrder
  <2> QED
    BY <1>9, <2>1
<1>7. ASSUME UNCHANGED vars PROVE UNCHANGED past
  BY <1>7 DEF vars
<1>8. UNCHANGED past => Kept
  BY DEF past
<1> QED
  BY <1>1, <1>2, <1>3, <1>4, <1>5, <1>6, <1>7, <1>8, <1>10, Zenon
     DEF Next, Control, WorkerStep

\* As long as nobody steps the order by hand, the Works are the attempts of the runtime's
\* era and at most one more, and only the newest waits for its checkpoint.
LEMMA TracksKept ==
  ASSUME TypeOK, TypeOK', WorkInv, WorksInv, WorksTrackAttempts, [Next]_vars
  PROVE  WorksTrackAttempts'
<1> SUFFICES ASSUME Exists', ~bypassed'
             PROVE  /\ Era' \subseteq works'
                    /\ works' \subseteq Era' \union {order'.version}
                    /\ \A v \in Unobserved' : order'.version \in {v, v + 1}
                    /\ \A u, v \in Unobserved' : u = v
  BY DEF WorksTrackAttempts
<1>1. /\ order.version \in Nat /\ order'.version \in Nat /\ start \in Nat /\ start' \in Nat
      /\ works \subseteq Nat /\ works' \subseteq Nat
      /\ order.version \in Version
  BY VersionFacts DEF TypeOK, Order
<1>2. CASE CreateRuntime
  <2>1. start' = order'.version
    BY <1>2 DEF CreateRuntime
  <2>2. works' = {}
    BY <1>2 DEF CreateRuntime, WorksInv
  <2> QED
    BY <1>1, <2>1, <2>2 DEF Era, Unobserved, Version
<1>3. CASE ~CreateRuntime
  <2>1. ~bypassed
    BY <1>3, PastKept
  <2>2. Exists /\ start' = start
    BY <1>3, EraKept DEF WorksInv, Written, Exists
  <2>3. /\ Era \subseteq works
        /\ works \subseteq Era \union {order.version}
        /\ \A v \in Unobserved : order.version \in {v, v + 1}
        /\ \A u, v \in Unobserved : u = v
    BY <2>1, <2>2 DEF WorksTrackAttempts
  <2>4. ASSUME NEW w \in Worker, StepOrder(w), pc[w] = "step", order.version = item[w],
               Steppable, NewAttempt
        PROVE  /\ Era' \subseteq works'
               /\ works' \subseteq Era' \union {order'.version}
               /\ \A v \in Unobserved' : order'.version \in {v, v + 1}
               /\ \A u, v \in Unobserved' : u = v
    <3>1. order'.version = order.version + 1
      BY <2>4, NewAttemptFacts DEF TypeOK
    <3>2. works' = works /\ checkpoints' = checkpoints
      BY <2>4 DEF StepOrder, rows
    <3>3. order.version \in works
      BY <2>4 DEF WorkInv, HoldsWork, Holding
    <3>4. order.version \notin checkpoints
      BY NextUnobserved
    <3>5. \A v \in Unobserved : v = order.version
      BY <2>3, <3>3, <3>4 DEF Unobserved
    <3>6. Unobserved' = Unobserved
      BY <3>2 DEF Unobserved
    <3>7. Era' = Era \union {order.version}
      <4>1. start <= order.version
        BY DEF WorksInv
      <4> QED
        BY <1>1, <2>2, <3>1, <4>1, ConstantsAssumption DEF Era, Version
    <3> QED
      BY <1>1, <2>3, <3>1, <3>2, <3>3, <3>5, <3>6, <3>7
  <2>5. CASE order'.version = order.version
    <3>1. Era' = Era
      BY <2>2, <2>5 DEF Era, Version
    <3>2. CASE UNCHANGED works /\ checkpoints \subseteq checkpoints'
      BY <2>3, <2>5, <3>1, <3>2 DEF Unobserved
    <3>3. CASE RunnerAudit /\ works' = works \union {order.version} /\ checkpoints' = checkpoints
      BY <2>3, <2>5, <3>1, <3>3 DEF RunnerAudit, Unobserved
    <3> QED
      BY <3>2, <3>3, WorksSteps
  <2> QED
    BY <2>2, <2>4, <2>5, OrderSteps, PastKept DEF TypeOK, Order
<1> QED
  BY <1>2, <1>3

-----------------------------------------------------------------------------
(* How a runtime ends *)

\* A block is recorded with its one event and its reason.
EventsInv ==
  /\ blocks = IF runtime.observed = "blocked" THEN 1 ELSE 0
  /\ runtime.observed = "blocked" <=> runtime.reason # "none"

LEMMA EventsInvInductive ==
  ASSUME TypeOK, EventsInv, WorksInv, [Next]_vars
  PROVE  EventsInv'
<1> USE DEF TypeOK, Row, EventsInv, Observe, Complete, rows
<1>1. CASE ManualStep \/ AuthorityDiverges \/ LeaseLapses
  BY <1>1 DEF ManualStep, AuthorityDiverges, LeaseLapses
<1>2. CASE Control
  BY <1>2 DEF Control, CreateRuntime, StartRuntime, StopRuntime, ResumeRuntime, Desire, Exists
<1>3. ASSUME NEW w \in Worker, ClaimRuntime(w) \/ Crash(w) PROVE EventsInv'
  BY <1>3 DEF ClaimRuntime, Crash
<1>4. ASSUME NEW w \in Worker, WorkerStep(w) PROVE EventsInv'
  <2>1. CASE Reconcile(w)
    BY <2>1 DEF Reconcile, ResumeWork, SettleReconciled, Desired
  <2>2. CASE BlockRuntime(w)
    BY <2>2 DEF BlockRuntime, BlockReason
  <2>3. CASE SettleStopped(w)
    BY <2>3 DEF SettleStopped
  <2>4. CASE PhaseA(w)
    BY <2>4 DEF PhaseA, PrepareWork, PrepareEnd, Final
  <2>5. CASE PhaseC(w)
    BY <2>5 DEF PhaseC, SettleObserved, ObserveRefused, Desired
  <2>6. CASE \/ Confirm(w) \/ Look(w) \/ StepOrder(w) \/ AssertClaim(w) \/ RenewClaim(w)
             \/ ReleaseClaim(w)
    BY <2>6 DEF Confirm, Look, StepOrder, AssertClaim, RenewClaim, Fail, ReleaseClaim
  <2> QED
    BY <1>4, <2>1, <2>2, <2>3, <2>4, <2>5, <2>6 DEF WorkerStep
<1>5. CASE UNCHANGED vars
  BY <1>5 DEF vars
<1> QED
  BY <1>1, <1>2, <1>3, <1>4, <1>5 DEF Next

\* Without twins no two processes of one owner id are at work.
Exclusive ==
  ~twins => \A w, x \in Worker :
    pc[w] # "idle" /\ pc[x] # "idle" /\ OwnerOf[w] = OwnerOf[x] => w = x

LEMMA ExclusiveInductive ==
  ASSUME TypeOK, Exclusive, [Next]_vars
  PROVE  Exclusive'
<1> SUFFICES ASSUME ~twins', NEW w \in Worker, NEW x \in Worker,
                    pc'[w] # "idle", pc'[x] # "idle", OwnerOf[w] = OwnerOf[x], w # x
             PROVE  FALSE
  BY DEF Exclusive
<1>1. ~twins
  BY PastKept
<1>2. ASSUME NEW y \in Worker, ClaimRuntime(y) PROVE FALSE
  <2>1. pc' = [pc EXCEPT ![y] = "reconcile"]
    BY <1>2 DEF ClaimRuntime, Goto
  <2>2. ~\E z \in Worker \ {y} : pc[z] # "idle" /\ OwnerOf[z] = OwnerOf[y]
    <3>1. twins' = (twins \/ \E z \in Worker \ {y} : pc[z] # "idle" /\ OwnerOf[z] = OwnerOf[y])
      BY <1>2 DEF ClaimRuntime
    <3> QED
      BY <3>1, Zenon
  <2> QED
    BY <1>1, <2>1, <2>2 DEF Exclusive, TypeOK
<1>3. ASSUME NEW y \in Worker, ReleaseClaim(y) PROVE FALSE
  BY <1>1, <1>3 DEF ReleaseClaim, Exit, Goto, Exclusive, TypeOK
<1>4. CASE Quiet
  BY <1>1, <1>4 DEF Quiet, Exclusive
<1> QED
  BY <1>2, <1>3, <1>4, QuietSteps

\* Of a worker that holds the claim after a step and was not idle before, it held it then.
LEMMA ClaimKept ==
  ASSUME TypeOK, FenceInv, Exclusive, [Next]_vars, ~twins',
         NEW x \in Worker, Claimed(x)', pc'[x] # "idle", ~ClaimRuntime(x)
  PROVE  Claimed(x) /\ pc[x] # "idle"
<1> USE DEF TypeOK, Row, Claimed
<1>1. CASE Quiet
  BY <1>1 DEF Quiet
<1>2. ASSUME NEW w \in Worker, ClaimRuntime(w) PROVE Claimed(x) /\ pc[x] # "idle"
  <2>1. w # x
    BY <1>2
  <2>2. pc'[x] = pc[x] /\ token'[x] = token[x]
    BY <1>2, <2>1 DEF ClaimRuntime, Goto, Hold
  <2>3. CASE runtime' = runtime
    BY <2>2, <2>3
  <2>4. CASE runtime' = [runtime EXCEPT !.owner = OwnerOf[w], !.fence = NextFence,
                                        !.lease = "active"]
    BY <2>2, <2>4 DEF NextFence, FenceInv
  <2> QED
    BY <1>2, <2>3, <2>4 DEF ClaimRuntime
<1>3. ASSUME NEW w \in Worker, ReleaseClaim(w) PROVE Claimed(x) /\ pc[x] # "idle"
  BY <1>3, ConstantsAssumption DEF ReleaseClaim, Exit, Goto, Hold
<1> QED
  BY <1>1, <1>2, <1>3, QuietSteps

\* Without twins one worker at work holds the claim.
LEMMA OneHolder ==
  ASSUME Exclusive, ~twins, NEW w \in Worker, NEW x \in Worker,
         Claimed(w), Claimed(x), pc[w] # "idle", pc[x] # "idle"
  PROVE  w = x
BY DEF Exclusive, Claimed

\* Where a worker that holds the claim relies on the runtime not having ended.
Busy == Label \ {"idle", "reconcile", "release", "block_corrupt"}

\* An attempt of the runtime's era has no Work.
Missing == ~(Era \subseteq works)

\* What the holder of the claim knows: the Work it holds is the one that waits for its
\* checkpoint, and the runtime has not ended, unless it misses one for an attempt.
HolderKnows(w) ==
  /\ pc[w] \in Holding => Unobserved = {item[w]}
  /\ pc[w] \in Busy => ~Final
  /\ pc[w] = "block_corrupt" => Missing \/ ~Final

\* What recovery may take for corruption: also an order that moved, or that it saw move.
Cause == Missing \/ ~Fresh \/ overtaken

\* What a worker saw is still so and fits its Work, or there is such a cause.
Seen(w) == Cause \/ (view[w].order = order /\ order.version \in {item[w], item[w] + 1})

EndsInv ==
  ~twins => /\ \A w \in Worker : Claimed(w) => HolderKnows(w)
            /\ \A w \in Worker : pc[w] = "look" => Seen(w)
            /\ \A w \in Worker : pc[w] = "block_corrupt" => Cause
            /\ runtime.reason = "corrupt" => Cause
            /\ CompletedIsJustified
            /\ completions = 1 => Final

\* The invariants a step is taken under, and the cases they are used in.
Invs == TypeOK /\ FenceInv /\ WorkInv /\ WorksInv /\ EventsInv /\ Exclusive /\ EndsInv

\* The recovery audit fails only on an attempt without a Work: the rest of what it
\* asks for always holds.
LEMMA AuditMeetsEra ==
  ASSUME TypeOK, WorkInv, WorksInv, Era \subseteq works
  PROVE  RecoveryAudit
<1>1. order.version \in Nat /\ start \in Nat /\ works \subseteq Version /\ Version \subseteq Nat
  BY VersionFacts DEF TypeOK, Order
<1>2. AuditSound
  <2>1. \A v \in checkpoints : v < order.version
    BY <1>1 DEF WorkInv, WorkExecutedOnce, Known
  <2> QED
    BY <2>1 DEF AuditSound, WorksInv
<1>3. ASSUME NEW v \in Unobserved PROVE order.version \in {v, v + 1}
  <2>1. v \in works /\ v \in Nat /\ v <= order.version /\ start <= v
    BY <1>1 DEF Unobserved, WorksInv
  <2>2. v + 1 \notin works
    BY <1>1, <2>1 DEF WorksInv
  <2>3. v + 1 < order.version => v + 1 \in Era
    <3>1. ASSUME v + 1 < order.version PROVE v + 1 \in Version
      BY <2>1, <3>1, ConstantsAssumption DEF Version, TypeOK, Order
    <3> QED
      BY <1>1, <2>1, <3>1 DEF Era
  <2> QED
    BY <1>1, <2>1, <2>2, <2>3
<1>4. \A u, v \in Unobserved : u = v
  BY <1>1 DEF WorksInv, Unobserved
<1> QED
  BY <1>2, <1>3, <1>4 DEF RecoveryAudit

\* What is missing stays missing.
LEMMA MissingKept ==
  ASSUME TypeOK, TypeOK', WorksInv, [Next]_vars, Exists, Missing
  PROVE  Missing'
<1>1. /\ order.version \in Nat /\ order'.version \in Nat /\ start \in Nat
      /\ Version \subseteq Nat
  BY VersionFacts DEF TypeOK, Order
<1>2. PICK v \in Era : v \notin works
  BY DEF Missing
<1>3. v \in Version /\ v \in Nat /\ start <= v /\ v < order.version
  BY <1>1, <1>2 DEF Era
<1>4. works' \subseteq works \union {order.version}
  BY WorksSteps
<1>5. order.version <= order'.version
  BY StepsGrow DEF Grows
<1>6. CASE start' = start
  <2>1. v \in Era'
    BY <1>1, <1>3, <1>5, <1>6 DEF Era, Version
  <2> QED
    BY <1>1, <1>2, <1>3, <1>4, <2>1 DEF Missing
<1> QED
  BY <1>6, EraKept

\* A cause stays, too.
LEMMA CauseKept ==
  ASSUME TypeOK, TypeOK', WorksInv, [Next]_vars, Exists, Cause
  PROVE  Cause'
<1>1. ~Fresh => ~Fresh'
  BY OrderSteps, NewAttemptFacts DEF Fresh, TypeOK, Order
<1>2. overtaken => overtaken'
  BY PastKept
<1> QED
  BY <1>1, <1>2, MissingKept DEF Cause

\* An order that moves under a worker's look is a cause.
LEMMA OrderSeen ==
  ASSUME TypeOK, [Next]_vars, NEW w \in Worker, pc[w] = "look", order' # order
  PROVE  Cause'
<1>1. CASE NewAttempt
  <2>1. overtaken' = (overtaken \/ \E x \in Worker : pc[x] = "look")
    BY <1>1 DEF NewAttempt
  <2>2. overtaken'
    BY <2>1, Zenon
  <2> QED
    BY <2>2 DEF Cause
<1>2. CASE order' = [order EXCEPT !.chain = "stale"]
  BY <1>2 DEF Cause, Fresh, TypeOK, Order
<1> QED
  BY <1>1, <1>2, OrderSteps

\* Without twins an ended runtime is not written to, but that a completed one may be
\* blocked by a worker that finds an attempt without a Work.
LEMMA FinalSteps ==
  ASSUME Invs, [Next]_vars, Final, ~twins
  PROVE  \/ Written' = Written
         \/ /\ runtime.observed = "completed" /\ Missing
            /\ runtime'.observed = "blocked" /\ UNCHANGED <<works, completions>>
<1> SUFFICES ASSUME Written' # Written
             PROVE  /\ runtime.observed = "completed" /\ Missing
                    /\ runtime'.observed = "blocked" /\ UNCHANGED <<works, completions>>
  OBVIOUS
<1> USE DEF Invs, TypeOK, Row
<1>1. Exists
  BY DEF Final, Exists
<1>2. PICK w \in Worker : Holder(w)
  BY <1>1, HolderWritesStep
<1>3. Claimed(w) /\ pc[w] # "idle" /\ pc'[w] # pc[w]
  BY <1>2 DEF Holder, Claimed
<1>4. pc[w] \in {"reconcile", "release", "block_corrupt"}
  BY <1>3 DEF EndsInv, HolderKnows, Busy
<1>5. WorkerStep(w)
  BY <1>3, Actors DEF ClaimRuntime, Crash, Written
<1>6. CASE Reconcile(w)
  <2>1. CASE runtime.observed = "blocked"
    BY <1>6, <2>1 DEF Reconcile, Written, rows, Exit, locals
  <2>2. CASE runtime.observed = "completed"
    <3>1. completions = 1 /\ Terminal /\ Unobserved = {}
      BY <2>2 DEF EndsInv, CompletedIsJustified
    <3>2. ~ResumeWork(w)
      BY <3>1 DEF ResumeWork
    <3>3. SettleReconciled(w) => Complete
      BY <3>1 DEF SettleReconciled
    <3>4. UNCHANGED <<runtime.observed, rows>>
      BY <1>6, <2>2, <3>1, <3>2, <3>3 DEF Reconcile, Complete, Observe, rows
    <3> QED
      BY <3>4 DEF Written
  <2> QED
    BY <2>1, <2>2 DEF Final
<1>7. CASE ReleaseClaim(w)
  BY <1>7 DEF ReleaseClaim, Written
<1>8. CASE BlockRuntime(w)
  <2>1. pc[w] = "block_corrupt"
    BY <1>4, <1>8 DEF BlockRuntime
  <2>2. Missing
    BY <1>3, <2>1 DEF EndsInv, HolderKnows
  <2>3. blocks = 0 /\ runtime'.observed = "blocked" /\ UNCHANGED <<works, completions>>
    BY <1>8 DEF BlockRuntime, Written, rows
  <2> QED
    BY <2>2, <2>3 DEF EventsInv, Final
<1> QED
  BY <1>4, <1>5, <1>6, <1>7, <1>8
     DEF WorkerStep, Confirm, Look, SettleStopped, StepOrder, PhaseA, PhaseC, AssertClaim,
       RenewClaim

\* R1 takes for corrupt only a runtime that misses a Work.
LEMMA ReconcileMisses ==
  ASSUME Invs, ~twins, ReconcileVerdict = "corrupt"
  PROVE  Missing
<1> USE DEF Invs
<1> SUFFICES ASSUME ~Missing PROVE FALSE
  OBVIOUS
<1>1. RecoveryAudit
  BY AuditMeetsEra DEF Missing
<1>2. CASE runtime.observed = "blocked"
  BY <1>2 DEF ReconcileVerdict, EventsInv
<1>3. CASE runtime.observed # "blocked"
  <2>1. EventsAgree
    BY <1>3 DEF TypeOK, EventsAgree, EventsInv, EndsInv, CompletedIsJustified, Final
  <2>2. ReconcileSound
    BY <1>1, <2>1 DEF ReconcileSound, EndsInv, CompletedIsJustified
  <2> QED
    BY <1>3, <2>2 DEF ReconcileVerdict
<1> QED
  BY <1>2, <1>3

\* What the holder of the claim knows after a step of its own.
LEMMA HolderLearns ==
  ASSUME Invs, ~twins, NEW w \in Worker, WorkerStep(w), Claimed(w), pc'[w] # "idle"
  PROVE  HolderKnows(w)'
<1> USE DEF Invs, TypeOK, Row, HolderKnows, Busy, Holding, Label, Goto, Exit, Observe, Desired
<1>1. HolderKnows(w)
  BY DEF EndsInv
<1>2. CASE Reconcile(w)
  <2>1. CASE pc'[w] = "confirm"
    <3>1. runtime.observed # "blocked" /\ ReconcileSound /\ ResumeWork(w)
      BY <1>2, <2>1 DEF Reconcile, SettleReconciled, ReconcileVerdict
    <3>2. PICK v \in Unobserved : item' = [item EXCEPT ![w] = v]
      BY <3>1 DEF ResumeWork
    <3>3. Unobserved = {v}
      BY <3>1, <3>2 DEF ReconcileSound, RecoveryAudit
    <3>4. runtime.observed # "completed"
      BY <3>1, <3>3 DEF ReconcileSound
    <3>5. runtime' = runtime /\ Unobserved' = Unobserved
      BY <1>2, <3>1 DEF Reconcile, ResumeWork, Unobserved
    <3> QED
      BY <2>1, <3>1, <3>2, <3>3, <3>4, <3>5 DEF Final
  <2>2. CASE pc'[w] = "prepare"
    <3>1. runtime'.observed \in Desired
      BY <1>2, <2>2 DEF Reconcile, SettleReconciled, ResumeWork
    <3> QED
      BY <2>2, <3>1 DEF Final
  <2>3. CASE pc'[w] = "block_stale"
    <3>1. ReconcileVerdict = "stale" /\ runtime' = runtime
      BY <1>2, <2>3 DEF Reconcile, SettleReconciled, ResumeWork
    <3>2. runtime.observed # "blocked" /\ ~Terminal
      BY <3>1 DEF ReconcileVerdict, Diverged
    <3>3. runtime.observed # "completed"
      BY <3>2 DEF EndsInv, CompletedIsJustified
    <3> QED
      BY <2>3, <3>1, <3>2, <3>3 DEF Final
  <2>4. CASE pc'[w] = "block_corrupt"
    <3>1. ReconcileVerdict = "corrupt" /\ UNCHANGED <<start, works, order>>
      BY <1>2, <2>4 DEF Reconcile, SettleReconciled, ResumeWork, ReconcileVerdict
    <3>2. Missing
      BY <3>1, ReconcileMisses
    <3>3. Missing'
      BY <3>1, <3>2 DEF Missing, Era
    <3> QED
      BY <2>4, <3>3
  <2>5. pc'[w] \in {"confirm", "prepare", "block_stale", "block_corrupt", "release"}
    BY <1>2 DEF Reconcile, SettleReconciled, ResumeWork
  <2> QED
    BY <2>1, <2>2, <2>3, <2>4, <2>5
<1>3. CASE Confirm(w) \/ Look(w)
  BY <1>1, <1>3 DEF Confirm, Look, LookAt, Final, Unobserved, rows, locals
<1>4. CASE StepOrder(w)
  BY <1>1, <1>4 DEF StepOrder, Raise, Final, Unobserved, rows, locals
<1>5. CASE PhaseA(w)
  <2>1. CASE pc'[w] = "confirm"
    <3>1. PrepareWork(w) /\ RunnerAudit /\ checkpoints' = checkpoints
      BY <1>5, <2>1 DEF PhaseA, PrepareEnd
    <3>2. order.version \notin checkpoints
      BY NextUnobserved
    <3>3. Unobserved' = {order.version}
      BY <3>1, <3>2 DEF PrepareWork, RunnerAudit, Unobserved
    <3>4. item'[w] = order.version /\ runtime'.observed = "running"
      BY <3>1 DEF PrepareWork
    <3> QED
      BY <2>1, <3>3, <3>4 DEF Final
  <2>2. CASE pc'[w] = "release"
    BY <2>2
  <2> QED
    BY <1>5, <2>1, <2>2 DEF PhaseA, PrepareWork, PrepareEnd
<1>6. CASE PhaseC(w)
  <2>1. CASE pc'[w] = "assert"
    BY <1>6, <2>1 DEF PhaseC, SettleObserved, Complete, Final, Raise
  <2>2. CASE pc'[w] = "block_corrupt"
    BY <1>1, <1>6, <2>2 DEF PhaseC, SettleObserved, Final, Raise
  <2> QED
    BY <1>6, <2>1, <2>2 DEF PhaseC, SettleObserved, Raise
<1>7. CASE AssertClaim(w) \/ RenewClaim(w)
  BY <1>1, <1>7 DEF AssertClaim, RenewClaim, Fail, Final
<1>8. CASE BlockRuntime(w) \/ SettleStopped(w) \/ ReleaseClaim(w)
  BY <1>1, <1>8 DEF BlockRuntime, SettleStopped, Raise, ReleaseClaim, Final
<1> QED
  BY <1>2, <1>3, <1>4, <1>5, <1>6, <1>7, <1>8 DEF WorkerStep

\* A step that sends a worker to block as corrupt has found an attempt without a Work, or
\* has looked at an order that moved.
LEMMA CorruptSteps ==
  ASSUME Invs, ~twins, NEW w \in Worker, WorkerStep(w), pc'[w] = "block_corrupt",
         pc[w] # "block_corrupt"
  PROVE  Cause
<1> USE DEF Invs, TypeOK, Row, Goto, Exit
<1> SUFFICES ASSUME ~Cause PROVE FALSE
  OBVIOUS
<1>3. CASE Reconcile(w)
  <2>1. ReconcileVerdict = "corrupt"
    BY <1>3 DEF Reconcile, ResumeWork, SettleReconciled, ReconcileVerdict
  <2> QED
    BY <2>1, ReconcileMisses DEF Cause
<1>4. CASE Look(w)
  <2>1. view[w].order = order /\ order.version \in {item[w], item[w] + 1}
    BY <1>4 DEF EndsInv, Seen, Look
  <2>2. PICK v \in view[w].order.version..order.version : LookAt(w, v) = "block_corrupt"
    BY <1>4, <2>1 DEF Look, Torn
  <2>3. v = order.version
    BY <2>1, <2>2, VersionFacts DEF Order
  <2> QED
    BY <2>1, <2>2, <2>3 DEF LookAt
<1>5. CASE SettleStopped(w)
  <2>1. Claimed(w) /\ pc[w] = "settle" /\ runtime.observed = "blocked"
    BY <1>5 DEF SettleStopped, ClaimCurrent
  <2> QED
    BY <2>1 DEF EndsInv, HolderKnows, Busy, Label, Final
<1>6. CASE PhaseC(w)
  <2>1. Claimed(w) /\ pc[w] = "observe" /\ ObserveCorrupt(item[w])
    BY <1>6 DEF PhaseC, SettleObserved, ClaimCurrent
  <2>2. ~Final
    BY <2>1 DEF EndsInv, HolderKnows, Busy, Label
  <2>3. completions = 0
    BY <2>2 DEF EndsInv
  <2>4. ~(order.version < item[w] + 1)
    <3>1. PICK r \in receipts : r.work = item[w]
      BY <2>1 DEF WorkInv, HoldsWork, Known
    <3>2. item[w] < order.version
      BY <3>1 DEF WorkInv, WorkExecutedOnce
    <3>3. item[w] \in Nat /\ order.version \in Nat
      BY VersionFacts DEF Order
    <3> QED
      BY <3>2, <3>3
  <2> QED
    BY <2>1, <2>2, <2>3, <2>4 DEF ObserveCorrupt, CanComplete, Final
<1>7. CASE Confirm(w) \/ StepOrder(w) \/ PhaseA(w) \/ BlockRuntime(w)
  BY <1>7
     DEF Confirm, StepOrder, Raise, PhaseA, PrepareWork, PrepareEnd, BlockRuntime, locals
<1>8. CASE AssertClaim(w) \/ RenewClaim(w) \/ ReleaseClaim(w)
  BY <1>8 DEF AssertClaim, RenewClaim, Fail, ReleaseClaim
<1> QED
  BY <1>3, <1>4, <1>5, <1>6, <1>7, <1>8 DEF WorkerStep

\* A runtime becomes completed when its order has ended and nothing waits to be observed.
LEMMA CompletingSteps ==
  ASSUME Invs, [Next]_vars, ~twins, OrderInv, runtime.observed # "completed"
  PROVE  /\ completions' = 1 => completions = 1 \/ runtime'.observed = "completed"
         /\ runtime'.observed = "completed" =>
              /\ Terminal /\ Unobserved' = {} /\ completions' = 1 /\ order.version > 0
<1> DEFINE Right == /\ completions' = 1 => completions = 1 \/ runtime'.observed = "completed"
                    /\ runtime'.observed = "completed" =>
                         Terminal /\ Unobserved' = {} /\ completions' = 1
<1> SUFFICES Right
  BY DEF OrderInv
<1> USE DEF Invs, TypeOK, Row, Complete, Observe, Desired
<1>1. CASE Written' = Written
  BY <1>1 DEF Written, rows
<1>2. CASE CreateRuntime
  BY <1>2 DEF CreateRuntime
<1>3. ASSUME NEW w \in Worker, WorkerStep(w), Claimed(w), pc[w] # "idle" PROVE Right
  <2>1. CASE Reconcile(w)
    <3>1. CASE Complete /\ Unobserved = {} /\ Terminal
      BY <2>1, <3>1 DEF Reconcile, Unobserved
    <3>2. CASE runtime'.observed # "completed" /\ completions' = completions
      BY <3>2
    <3> QED
      BY <2>1, <3>1, <3>2 DEF Reconcile, ResumeWork, SettleReconciled
  <2>2. CASE PhaseA(w)
    BY <2>2 DEF PhaseA, PrepareWork, PrepareEnd, Unobserved
  <2>3. CASE PhaseC(w)
    <3>1. CASE Complete /\ Terminal /\ checkpoints' = checkpoints \union {item[w]}
      <4>1. Unobserved = {item[w]}
        BY <1>3, <2>3 DEF PhaseC, EndsInv, HolderKnows, Holding
      <4>2. works' = works
        BY <2>3 DEF PhaseC
      <4> QED
        BY <3>1, <4>1, <4>2 DEF Unobserved
    <3>2. CASE runtime'.observed # "completed" /\ completions' = completions
      BY <3>2
    <3> QED
      BY <2>3, <3>1, <3>2 DEF PhaseC, SettleObserved
  <2>4. CASE BlockRuntime(w) \/ SettleStopped(w)
    BY <2>4 DEF BlockRuntime, SettleStopped, rows
  <2>5. CASE \/ Confirm(w) \/ Look(w) \/ StepOrder(w) \/ AssertClaim(w) \/ RenewClaim(w)
             \/ ReleaseClaim(w)
    BY <2>5 DEF Confirm, Look, StepOrder, AssertClaim, RenewClaim, Fail, ReleaseClaim, rows
  <2> QED
    BY <1>3, <2>1, <2>2, <2>3, <2>4, <2>5 DEF WorkerStep
<1>4. ASSUME Exists, Written' # Written PROVE Right
  <2>1. PICK w \in Worker : Holder(w)
    BY <1>4, HolderWritesStep
  <2>2. Claimed(w) /\ pc[w] # "idle" /\ pc'[w] # pc[w]
    BY <2>1 DEF Holder, Claimed
  <2>3. WorkerStep(w)
    BY <1>4, <2>2, Actors DEF ClaimRuntime, Crash, Written
  <2> QED
    BY <1>3, <2>2, <2>3
<1> QED
  BY <1>1, <1>2, <1>4, EraKept DEF WorksInv

\* A block gives the reason the worker that blocks was sent with.
LEMMA ReasonSteps ==
  ASSUME TypeOK, [Next]_vars, runtime'.reason # runtime.reason
  PROVE  \E w \in Worker : BlockRuntime(w) /\ runtime'.reason = BlockReason(w)
<1> USE DEF TypeOK, Row, Observe, Complete
<1>1. CASE ManualStep \/ AuthorityDiverges \/ LeaseLapses
  BY <1>1 DEF ManualStep, AuthorityDiverges, LeaseLapses
<1>2. CASE Control
  BY <1>2 DEF Control, CreateRuntime, StartRuntime, StopRuntime, ResumeRuntime, Desire
<1>3. ASSUME NEW w \in Worker, ClaimRuntime(w) \/ Crash(w) PROVE FALSE
  BY <1>3 DEF ClaimRuntime, Crash
<1>4. ASSUME NEW w \in Worker, WorkerStep(w)
      PROVE  BlockRuntime(w) /\ runtime'.reason = BlockReason(w)
  <2>1. CASE Reconcile(w)
    BY <2>1 DEF Reconcile, ResumeWork, SettleReconciled
  <2>2. CASE BlockRuntime(w)
    BY <2>2 DEF BlockRuntime
  <2>3. CASE SettleStopped(w)
    BY <2>3 DEF SettleStopped
  <2>4. CASE PhaseA(w)
    BY <2>4 DEF PhaseA, PrepareWork, PrepareEnd
  <2>5. CASE PhaseC(w)
    BY <2>5 DEF PhaseC, SettleObserved
  <2>6. CASE \/ Confirm(w) \/ Look(w) \/ StepOrder(w) \/ AssertClaim(w) \/ RenewClaim(w)
             \/ ReleaseClaim(w)
    BY <2>6 DEF Confirm, Look, StepOrder, AssertClaim, RenewClaim, Fail, ReleaseClaim
  <2> QED
    BY <1>4, <2>1, <2>2, <2>3, <2>4, <2>5, <2>6 DEF WorkerStep
<1>5. CASE UNCHANGED vars
  BY <1>5 DEF vars
<1> QED
  BY <1>1, <1>2, <1>3, <1>4, <1>5 DEF Next

\* The part about the ends is inductive.
LEMMA EndsInvInductive ==
  ASSUME Invs, TypeOK', OrderInv, [Next]_vars
  PROVE  EndsInv'
<1> SUFFICES ASSUME ~twins'
             PROVE  /\ \A w \in Worker : Claimed(w)' => HolderKnows(w)'
                    /\ \A w \in Worker : pc'[w] = "look" => Seen(w)'
                    /\ \A w \in Worker : pc'[w] = "block_corrupt" => Cause'
                    /\ runtime'.reason = "corrupt" => Cause'
                    /\ CompletedIsJustified'
                    /\ completions' = 1 => Final'
  BY DEF EndsInv
<1> USE DEF Invs
<1>1. ~twins
  BY PastKept
<1>2. ASSUME NEW w \in Worker, Claimed(w)' PROVE HolderKnows(w)'
  <2>1. CASE pc'[w] = "idle" \/ ClaimRuntime(w)
    BY <2>1 DEF ClaimRuntime, Goto, HolderKnows, Holding, Busy, TypeOK
  <2>2. CASE pc'[w] # "idle" /\ ~ClaimRuntime(w)
    <3>1. Claimed(w) /\ pc[w] # "idle"
      BY <1>2, <2>2, ClaimKept
    <3>2. ~Crash(w)
      BY <2>2 DEF Crash, Exit, Goto, TypeOK
    <3>3. CASE WorkerStep(w)
      BY <1>1, <2>2, <3>1, <3>3, HolderLearns
    <3>4. CASE ~WorkerStep(w)
      <4>1. pc'[w] = pc[w] /\ item'[w] = item[w]
        BY <2>2, <3>2, <3>4, Actors
      <4>2. Exists
        BY <3>1 DEF WorksInv
      <4>3. Written' = Written
        <5>1. ASSUME NEW x \in Worker, Holder(x) PROVE FALSE
          BY <1>1, <3>1, <4>1, <5>1, OneHolder DEF Holder, Claimed
        <5> QED
          BY <4>2, <5>1, HolderWritesStep
      <4>4. HolderKnows(w)
        BY <1>1, <3>1 DEF EndsInv
      <4>5. Missing => Missing'
        BY <4>2, MissingKept
      <4> QED
        BY <4>1, <4>3, <4>4, <4>5 DEF HolderKnows, Final, Unobserved, Written, rows
    <3> QED
      BY <3>3, <3>4
  <2> QED
    BY <2>1, <2>2
<1>6. ASSUME NEW w \in Worker, pc'[w] = "look" PROVE Seen(w)'
  <2>1. CASE Confirm(w) /\ ClaimReadAsCurrent(w) /\ view'[w].order = order
             /\ UNCHANGED <<order, item>>
    <3>1. pc[w] = "confirm" /\ Claimed(w) /\ Exists
      BY <2>1 DEF Confirm, ClaimReadAsCurrent, WorksInv
    <3>2. item[w] \in Unobserved
      BY <1>1, <3>1 DEF EndsInv, HolderKnows, Holding
    <3>3. Missing \/ order.version \in {item[w], item[w] + 1}
      BY <3>2, AuditMeetsEra DEF RecoveryAudit, Missing
    <3>4. Missing => Cause'
      BY <3>1, CauseKept DEF Cause
    <3> QED
      BY <2>1, <3>3, <3>4 DEF Seen
  <2>2. CASE pc[w] = "look" /\ UNCHANGED <<item[w], view[w]>>
    <3>1. Seen(w) /\ Exists
      BY <1>1, <2>2 DEF EndsInv, WorksInv
    <3>2. CASE order' = order
      BY <2>2, <3>1, <3>2, CauseKept DEF Seen
    <3>3. CASE order' # order
      BY <2>2, <3>3, OrderSeen DEF Seen
    <3> QED
      BY <3>2, <3>3
  <2> QED
    BY <1>6, <2>1, <2>2, LookBegins
<1>3. ASSUME NEW w \in Worker, pc'[w] = "block_corrupt" PROVE Cause'
  <2>1. ~ClaimRuntime(w) /\ ~Crash(w)
    BY <1>3 DEF ClaimRuntime, Crash, Exit, Goto, TypeOK
  <2>2. CASE WorkerStep(w) /\ pc[w] # "block_corrupt"
    <3>1. Exists
      BY <2>2
         DEF WorksInv, WorkerStep, Reconcile, BlockRuntime, Confirm, Look, SettleStopped,
           StepOrder, PhaseA, PhaseC, AssertClaim, RenewClaim, ReleaseClaim
    <3> QED
      BY <1>1, <1>3, <2>2, <3>1, CorruptSteps, CauseKept
  <2>3. CASE pc[w] = "block_corrupt"
    BY <1>1, <2>3, CauseKept DEF EndsInv, WorksInv
  <2> QED
    BY <1>3, <2>1, <2>2, <2>3, Actors
<1>4. ASSUME runtime'.reason = "corrupt" PROVE Cause'
  <2>1. Exists /\ Cause
    <3>1. CASE runtime.reason = "corrupt"
      BY <1>1, <3>1 DEF EndsInv, EventsInv, Exists
    <3>2. CASE runtime.reason # "corrupt"
      <4>1. PICK w \in Worker : BlockRuntime(w) /\ runtime'.reason = BlockReason(w)
        BY <1>4, <3>2, ReasonSteps
      <4>2. pc[w] = "block_corrupt"
        BY <1>4, <4>1 DEF BlockRuntime, BlockReason
      <4> QED
        BY <1>1, <4>2 DEF EndsInv, WorksInv
    <3> QED
      BY <3>1, <3>2
  <2> QED
    BY <2>1, CauseKept
<1>5. CompletedIsJustified' /\ (completions' = 1 => Final')
  <2>1. order.version \in Nat /\ order'.version \in Nat
    BY VersionFacts DEF TypeOK, Order
  <2>2. Terminal => Terminal'
    BY OrderSteps DEF Terminal, Steppable, TypeOK, Order
  <2>3. order.version > 0 => order'.version > 0
    BY <2>1, StepsGrow DEF Grows
  <2>4. CASE Final
    <3>1. CASE Written' = Written
      BY <1>1, <2>2, <2>3, <2>4, <3>1
         DEF EndsInv, CompletedIsJustified, Final, Written, rows, Unobserved
    <3>2. CASE runtime'.observed = "blocked"
      BY <3>2 DEF CompletedIsJustified, Final
    <3> QED
      BY <1>1, <2>4, <3>1, <3>2, FinalSteps
  <2>5. CASE ~Final
    <3>1. runtime.observed # "completed" /\ completions # 1
      BY <1>1, <2>5 DEF EndsInv, Final
    <3> QED
      BY <1>1, <2>2, <2>3, <3>1, CompletingSteps DEF CompletedIsJustified, Final
  <2> QED
    BY <2>4, <2>5
<1> QED
  BY <1>2, <1>3, <1>4, <1>5, <1>6

\* Whoever blocks as stale has seen the order's chain diverge.
StaleInv ==
  /\ \A w \in Worker : pc[w] = "block_stale" => ~Fresh
  /\ runtime.reason = "stale" => ~Fresh

LEMMA StaleInvInductive ==
  ASSUME Invs, TypeOK', OrderInv, StaleInv, [Next]_vars
  PROVE  StaleInv'
<1> USE DEF Invs
<1>1. ~Fresh => ~Fresh'
  BY OrderSteps, NewAttemptFacts DEF Fresh, TypeOK, Order
<1>2. ASSUME NEW w \in Worker, WorkerStep(w), pc'[w] = "block_stale" PROVE ~Fresh
  <2> USE DEF Goto, Exit, TypeOK
  <2>1. CASE Reconcile(w)
    BY <1>2, <2>1
       DEF Reconcile, ResumeWork, SettleReconciled, ReconcileVerdict, Diverged
  <2>2. CASE StepOrder(w)
    <3>1. ~Converges(item[w]) /\ ~(order.version = item[w] /\ Steppable) /\ pc[w] = "step"
      BY <1>2, <2>2 DEF StepOrder, Raise
    <3>2. order.version = item[w]
      <4>1. item[w] \in Nat /\ order.version \in Nat
        BY VersionFacts DEF Order
      <4>2. item[w] <= order.version /\ ~(item[w] < order.version)
        BY <3>1 DEF Converges, WorkInv, HoldsWork
      <4> QED
        BY <4>1, <4>2
    <3>3. ~Terminal
      BY <3>1, <3>2 DEF WorkInv, HoldsWork, Holding, WorksInv
    <3>4. order.version < MaxVersion
      BY <3>3, ConstantsAssumption DEF OrderInv, Order, Version
    <3> QED
      BY <3>1, <3>2, <3>3, <3>4 DEF Steppable
  <2>3. CASE BlockRuntime(w) \/ Confirm(w) \/ Look(w) \/ SettleStopped(w) \/ PhaseA(w)
    BY <1>2, <2>3
       DEF BlockRuntime, Confirm, Look, LookAt, SettleStopped, Raise, PhaseA, PrepareWork,
         PrepareEnd, locals
  <2>4. CASE PhaseC(w) \/ AssertClaim(w) \/ RenewClaim(w) \/ ReleaseClaim(w)
    BY <1>2, <2>4
       DEF PhaseC, SettleObserved, Raise, AssertClaim, RenewClaim, Fail, ReleaseClaim
  <2> QED
    BY <1>2, <2>1, <2>2, <2>3, <2>4 DEF WorkerStep
<1>3. ASSUME NEW w \in Worker, pc'[w] = "block_stale" PROVE ~Fresh
  <2>1. ~ClaimRuntime(w) /\ ~Crash(w)
    BY <1>3 DEF ClaimRuntime, Crash, Exit, Goto, TypeOK
  <2> QED
    BY <1>2, <1>3, <2>1, Actors DEF StaleInv
<1>4. ASSUME runtime'.reason = "stale" PROVE ~Fresh
  <2>1. CASE runtime.reason = "stale"
    BY <2>1 DEF StaleInv
  <2>2. CASE runtime.reason # "stale"
    BY <1>4, <2>2, ReasonSteps DEF BlockRuntime, BlockReason, StaleInv
  <2> QED
    BY <2>1, <2>2
<1> QED
  BY <1>1, <1>3, <1>4 DEF StaleInv

\* All of it, kept by every step.
AllInvs == Invs /\ OrderInv /\ StaleInv /\ WorksTrackAttempts

LEMMA AllInvsHold == Spec => []AllInvs
<1>1. Init => FenceInv /\ WorkInv /\ WorksInv /\ EventsInv /\ Exclusive /\ EndsInv
              /\ OrderInv /\ StaleInv /\ WorksTrackAttempts
  <2> SUFFICES ASSUME Init
               PROVE  FenceInv /\ WorkInv /\ WorksInv /\ EventsInv /\ Exclusive /\ EndsInv
                      /\ OrderInv /\ StaleInv /\ WorksTrackAttempts
    OBVIOUS
  <2>1. OrderInv /\ FenceInv
    BY ConstantsAssumption DEF Init, OrderInv, Terminal, FenceInv, FenceNamesOwner
  <2>2. WorksInv /\ WorksTrackAttempts /\ WorkInv
    BY DEF Init, WorksInv, WorksTrackAttempts, Exists, Unobserved, WorkInv, WorkExecutedOnce,
         HoldsWork, Holding
  <2>3. EventsInv /\ Exclusive /\ StaleInv
    BY DEF Init, EventsInv, Exclusive, StaleInv
  <2>4. EndsInv
    BY DEF Init, EndsInv, HolderKnows, Holding, Busy, CompletedIsJustified
  <2> QED
    BY <2>1, <2>2, <2>3, <2>4
<1>2. TypeOK' /\ AllInvs /\ [Next]_vars => AllInvs'
  <2> SUFFICES ASSUME TypeOK', AllInvs, [Next]_vars PROVE AllInvs'
    OBVIOUS
  <2> QED
    BY FenceInvInductive, WorkInvInductive, WorksInvInductive, EventsInvInductive,
       ExclusiveInductive, EndsInvInductive, OrderInvInductive, StaleInvInductive, TracksKept
       DEF AllInvs, Invs
<1>3. TypeOK /\ FenceInv /\ WorkInv /\ WorksInv /\ EventsInv /\ Exclusive /\ EndsInv
      /\ OrderInv /\ StaleInv /\ WorksTrackAttempts => AllInvs
  BY DEF AllInvs, Invs
<1> QED
  BY <1>1, <1>2, <1>3, Typing, PTL DEF Spec

\* The Works a runtime leaves behind are what its recovery expects of them, unless an
\* attempt bypassed it.
THEOREM Tracks == Spec => []WorksTrackAttempts
<1>1. AllInvs => WorksTrackAttempts
  BY DEF AllInvs
<1> QED
  BY <1>1, AllInvsHold, PTL

\* A runtime is completed, or blocked as stale or corrupt, only for the reason it gives.
THEOREM JustEnds == Spec => []EndsAreJustified
<1>1. AllInvs => EndsAreJustified
  BY DEF AllInvs, Invs, EndsAreJustified, EndsInv, EventsInv, StaleInv, BlockIsJustified, Cause,
         Missing
<1> QED
  BY <1>1, AllInvsHold, PTL

\* A runtime that has ended stays as it is.
THEOREM FinalEnds == Spec => EndsAreFinal
<1> DEFINE Stays == Final /\ ~twins' /\ ~bypassed' =>
                      /\ runtime'.observed = runtime.observed
                      /\ works' = works /\ completions' = completions /\ blocks' = blocks
<1>1. AllInvs /\ [Next]_vars => [Stays]_vars
  <2> SUFFICES ASSUME AllInvs, [Next]_vars, Final, ~twins', ~bypassed' PROVE Stays
    BY DEF vars
  <2>1. Exists /\ ~twins /\ ~bypassed
    BY PastKept DEF AllInvs, Invs, Final, Exists, CreateRuntime
  <2>2. ~Missing
    BY <2>1 DEF AllInvs, WorksTrackAttempts, Missing
  <2>3. Written' = Written
    BY <2>1, <2>2, FinalSteps DEF AllInvs
  <2> QED
    BY <2>3 DEF Written, rows
<1> QED
  BY <1>1, AllInvsHold, PTL DEF Spec, EndsAreFinal

-----------------------------------------------------------------------------
(* The order a runtime steps *)

Authority == INSTANCE OrderAuthority

\* Workers, Steps by hand and divergence do to the order what the contract of an
\* execution order allows, so that an order of PaperExecution can take its place.
THEOREM OrderUsed == Spec => Authority!Spec
<1>1. Init => Authority!Init
  BY DEF Init, Authority!Init
<1>2. TypeOK /\ [Next]_vars => [Authority!Next]_order
  <2> SUFFICES ASSUME TypeOK, [Next]_vars PROVE Authority!Next \/ order' = order
    OBVIOUS
  <2>1. Steppable /\ NewAttempt => Authority!Attempt
    BY DEF Steppable, NewAttempt, Terminal, Fresh, Authority!Attempt, TypeOK, Order
  <2>2. CASE ManualStep
    BY <2>1, <2>2 DEF ManualStep, Authority!Next
  <2>3. CASE AuthorityDiverges
    BY <2>3 DEF AuthorityDiverges, Fresh, Authority!Next, Authority!Diverge
  <2>4. CASE LeaseLapses \/ Control
    BY <2>4 DEF LeaseLapses, Control, CreateRuntime, StartRuntime, StopRuntime, ResumeRuntime, Desire
  <2>5. ASSUME NEW w \in Worker, ClaimRuntime(w) \/ Crash(w) PROVE order' = order
    BY <2>5 DEF ClaimRuntime, Crash
  <2>6. ASSUME NEW w \in Worker, WorkerStep(w) PROVE Authority!Next \/ order' = order
    <3>1. CASE StepOrder(w)
      BY <2>1, <3>1 DEF StepOrder, Authority!Next
    <3>2. CASE Reconcile(w) \/ BlockRuntime(w)
      BY <3>2 DEF Reconcile, ResumeWork, SettleReconciled, BlockRuntime
    <3>3. CASE Confirm(w) \/ Look(w) \/ AssertClaim(w) \/ RenewClaim(w) \/ ReleaseClaim(w)
      BY <3>3 DEF Confirm, Look, AssertClaim, RenewClaim, ReleaseClaim, Fail
    <3>4. CASE SettleStopped(w)
      BY <3>4 DEF SettleStopped
    <3>5. CASE PhaseA(w)
      BY <3>5 DEF PhaseA, PrepareWork, PrepareEnd
    <3>6. CASE PhaseC(w)
      BY <3>6 DEF PhaseC, SettleObserved
    <3> QED
      BY <2>6, <3>1, <3>2, <3>3, <3>4, <3>5, <3>6 DEF WorkerStep
  <2>7. CASE UNCHANGED vars
    BY <2>7 DEF vars
  <2> QED
    BY <2>2, <2>3, <2>4, <2>5, <2>6, <2>7 DEF Next
<1> QED
  BY <1>1, <1>2, Typing, PTL DEF Spec, Authority!Spec
=============================================================================
