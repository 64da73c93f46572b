--------------------- MODULE PaperRuntimeControl_proofs ---------------------
(* Proofs about PaperRuntimeControl, for every set of processes and keys,    *)
(* every policy and every bound.                                             *)
EXTENDS PaperRuntimeControl, FiniteSetTheorems, TLAPS

-----------------------------------------------------------------------------
(* What a step does to the row and its events *)

\* A fence is given out with a new version, so that it never overtakes the version; and
\* before the runtime there is neither owner nor event.
TypeInv ==
  /\ TypeOK
  /\ row.fence <= row.version
  /\ ~Exists => row = NoRow /\ events = <<>>

\* The row that replaces the one of this version: its successor, with at most one more
\* fence and a timestamp that does not regress.
Replaced ==
  /\ row' \in Row
  /\ row'.version = row.version + 1 /\ row'.updated = now /\ row.updated <= now
  /\ row'.fence \in {row.fence, row.fence + 1} /\ row'.observed # "absent"

\* At most the row of this step is appended to the events.
Recorded ==
  \/ events' = events
  \/ \E type \in EventType : Len(events) < MaxEvents
                             /\ events' = Append(events, [type |-> type, result |-> row', at |-> now])

LEMMA TypeFacts ==
  ASSUME TypeInv
  PROVE  /\ row.version \in Nat /\ row.fence \in Nat /\ row.updated \in Nat /\ now \in Nat
         /\ row.version <= MaxVersion /\ row.fence <= row.version
         /\ now \in Time
         /\ Len(events) \in Nat /\ DOMAIN events = 1..Len(events)
BY ControlAssumption DEF TypeInv, TypeOK, Row, Version, Time

\* Writing through the compare-and-swap keeps the type of the row.
LEMMA ReplaceFacts ==
  ASSUME TypeInv, Exists,
         NEW new, new \in [desired : {"running", "stopped"},
           observed : {"ready", "running", "stopped", "completed", "blocked"},
           owner : Worker \union {NoOwner}, fence : {row.fence, row.fence + 1}, expires : Time,
           version : {row.version}, updated : {row.updated}, reason : {"none", "stale", "corrupt"}],
         Replace(new)
  PROVE  Replaced
<1>1. /\ row.version + 1 \in Version /\ new.fence \in Version /\ now \in Time
      /\ row.updated <= now
  BY TypeFacts, ControlAssumption DEF Replace, TimestampRegresses, Version
<1>2. row' = [new EXCEPT !.version = row.version + 1, !.updated = now]
  BY DEF Replace, Successor
<1> QED
  BY <1>1, <1>2 DEF Replaced, Row

\* A Create inserts the first row.
Created == ~Exists /\ row' = [NoRow EXCEPT !.observed = "ready", !.updated = now]

\* Every action leaves the row alone, creates it or replaces it, and records its result.
LEMMA RowSteps ==
  ASSUME TypeInv, [Next]_vars
  PROVE  /\ \/ row' = row /\ (events' = events \/ Exists)
            \/ Created
            \/ Exists /\ Replaced
         /\ Recorded
<1> DEFINE Good == /\ \/ row' = row /\ (events' = events \/ Exists)
                      \/ Created
                      \/ Exists /\ Replaced
                   /\ Recorded
<1> USE DEF TypeInv, TypeOK, Row, evidence, process, clock, Recorded, Record, Silent, EventType
<1>1. ASSUME NEW s \in Slot, NEW c \in Command, ControlReplay(s, c) PROVE Good
  BY <1>1 DEF ControlReplay
<1>2. ASSUME NEW s \in Slot, NEW c \in Command, s[1] = c.ns, Control(s, c) PROVE Good
  <2>1. Recorded
    BY <1>2 DEF Control, Slot, Namespace
  <2>2. CASE c.ns = "create"
    BY <1>2, <2>1, <2>2 DEF Control, Requested, Allowed, Created
  <2>3. CASE c.ns # "create"
    <3>1. Exists /\ Replace([row EXCEPT !.desired = Desired(c.ns)])
      BY <1>2, <2>3 DEF Control, Requested, Expected
    <3>2. Desired(c.ns) \in {"running", "stopped"}
      BY DEF Desired
    <3> QED
      BY <2>1, <3>1, <3>2, ReplaceFacts DEF Exists
  <2> QED
    BY <2>2, <2>3
<1>3. ASSUME NEW w \in Worker, ClaimRuntime(w) PROVE Good
  <2>1. CASE Owned
    BY <1>3, <2>1 DEF ClaimRuntime
  <2>2. CASE ~Owned
    <3>1. Exists /\ Replace(Lease(w)) /\ Recorded
      BY <1>3, <2>2 DEF ClaimRuntime
    <3>2. now + Duration \in Time
      BY ControlAssumption DEF Time
    <3> QED
      BY <3>1, <3>2, ReplaceFacts DEF Lease, NextFence, Exists
  <2> QED
    BY <2>1, <2>2
<1>4. ASSUME NEW w \in Worker, Claims(w) PROVE Exists
  BY <1>4, ControlAssumption DEF Claims, NoRow
<1>5. ASSUME NEW w \in Worker, RenewClaim(w) \/ ReleaseClaim(w) PROVE Good
  <2>1. now + Duration \in Time /\ 0 \in Time
    BY ControlAssumption DEF Time
  <2>2. Exists
    BY <1>4, <1>5 DEF RenewClaim, ReleaseClaim
  <2>3. CASE RenewClaim(w)
    BY <2>1, <2>2, <2>3, ReplaceFacts DEF RenewClaim, Exists
  <2>4. CASE ReleaseClaim(w)
    BY <2>1, <2>2, <2>4, ReplaceFacts DEF ReleaseClaim, Exists
  <2> QED
    BY <1>5, <2>3, <2>4
<1>6. ASSUME NEW w \in Worker, Exit(w) \/ ReconcileFails(w) PROVE Good
  BY <1>6 DEF Exit, ReconcileFails
<1>7. ASSUME NEW w \in Worker, Transition(w) PROVE Good
  <2>1. Exists /\ Replace(Observed(Due)) /\ Recorded
    BY <1>4, <1>7 DEF Transition, Reconciles
  <2>2. Due \in {"completed", "stopped", "running"}
    BY DEF Due
  <2> QED
    BY <2>1, <2>2, ReplaceFacts DEF Observed, Exists
<1>8. ASSUME NEW w \in Worker, Work(w) PROVE Good
  BY <1>4, <1>8 DEF Work, Reconciles
<1>9. ASSUME NEW w \in Worker, Block(w) PROVE Good
  <2>1. /\ Exists /\ Recorded
        /\ Replace([row EXCEPT !.observed = "blocked", !.reason = blocking[w]])
    BY <1>4, <1>9 DEF Block
  <2> QED
    BY <2>1, ReplaceFacts DEF Exists
<1>10. CASE OrderChanges \/ Tick \/ SetBack
  BY <1>10 DEF OrderChanges, Tick, SetBack
<1>11. CASE UNCHANGED vars
  BY <1>11 DEF vars
<1> QED
  BY <1>1, <1>2, <1>3, <1>5, <1>6, <1>7, <1>8, <1>9, <1>10, <1>11 DEF Next

\* Only a control command changes a receipt, and it fills an empty slot with the answer
\* that its event will be; what is told is what a receipt says.
LEMMA ReceiptSteps ==
  ASSUME TypeInv, [Next]_vars
  PROVE  \/ UNCHANGED <<receipts, told>>
         \/ \E s \in Slot, c \in Command : s[1] = c.ns /\ (ControlReplay(s, c) \/ Control(s, c))
<1> USE DEF evidence
<1>1. ASSUME NEW w \in Worker,
             \/ ClaimRuntime(w) \/ RenewClaim(w) \/ ReleaseClaim(w) \/ Exit(w)
             \/ Transition(w) \/ Work(w) \/ ReconcileFails(w) \/ Block(w)
      PROVE  UNCHANGED <<receipts, told>>
  BY <1>1
     DEF ClaimRuntime, RenewClaim, ReleaseClaim, Exit, Transition, Work, ReconcileFails, Block
<1>2. CASE OrderChanges \/ Tick \/ SetBack
  BY <1>2 DEF OrderChanges, Tick, SetBack
<1>3. CASE UNCHANGED vars
  BY <1>3 DEF vars
<1> QED
  BY <1>1, <1>2, <1>3 DEF Next

-----------------------------------------------------------------------------
(* Type correctness *)

LEMMA TypeInvInductive ==
  ASSUME TypeInv, [Next]_vars
  PROVE  TypeInv'
<1>1. row' \in Row /\ row'.fence <= row'.version
  <2>1. CASE Created
    <3>1. 0 \in Version /\ 0 \in Time /\ now \in Time
      <4>1. MaxTime + Duration \in Nat
        BY ControlAssumption
      <4> QED
        BY <4>1, TypeFacts, ControlAssumption DEF Version, Time
    <3>2. row' = [desired |-> "stopped", observed |-> "ready", owner |-> NoOwner, fence |-> 0,
                  expires |-> 0, version |-> 0, updated |-> now, reason |-> "none"]
      BY <2>1 DEF Created, NoRow
    <3> QED
      BY <3>1, <3>2 DEF Row
  <2>2. CASE Replaced
    BY <2>2, TypeFacts DEF Replaced
  <2> QED
    BY <2>1, <2>2, RowSteps DEF TypeInv, TypeOK
<1>2. events' \in Seq(Event) /\ Len(events') <= MaxEvents
  <2>1. CASE events' = events
    BY <2>1 DEF TypeInv, TypeOK
  <2>2. ASSUME NEW type \in EventType, Len(events) < MaxEvents,
               events' = Append(events, [type |-> type, result |-> row', at |-> now])
        PROVE  events' \in Seq(Event) /\ Len(events') <= MaxEvents
    <3>1. [type |-> type, result |-> row', at |-> now] \in Event
      BY <1>1, TypeFacts DEF Event
    <3>2. events \in Seq(Event)
      BY DEF TypeInv, TypeOK
    <3>3. events' \in Seq(Event) /\ Len(events') = Len(events) + 1
      BY <2>2, <3>1, <3>2
    <3> QED
      BY <2>2, <3>3, TypeFacts, ControlAssumption
  <2> QED
    BY <2>1, <2>2, RowSteps DEF Recorded
<1>3. ~Exists' => row' = NoRow /\ events' = <<>>
  <2>1. Created \/ Replaced => Exists'
    BY DEF Created, Replaced, Exists, NoRow
  <2> QED
    BY <2>1, RowSteps DEF TypeInv, Exists
<1>4. receipts' \in [Slot -> Receipt \union {NoReceipt}] /\ told' \subseteq Slot \X Command \X Answer
  <2> USE DEF TypeInv, TypeOK
  <2>1. ASSUME NEW s \in Slot, NEW c \in Command, ControlReplay(s, c)
        PROVE  receipts' = receipts /\ told' \subseteq Slot \X Command \X Answer
    <3>1. PICK r \in Answered(s, c) : told' = told \union {<<s, c, r.answer>>}
      BY <2>1 DEF ControlReplay
    <3>2. r \in Receipt
      BY DEF Answered
    <3> QED
      BY <2>1, <3>1, <3>2 DEF ControlReplay, Receipt
  <2>2. ASSUME NEW s \in Slot, NEW c \in Command, Control(s, c)
        PROVE  /\ receipts' \in [Slot -> Receipt \union {NoReceipt}]
               /\ told' \subseteq Slot \X Command \X Answer
    <3>1. NextSequence \in Answer
      BY <2>2, TypeFacts, ControlAssumption DEF Control, Record, NextSequence, Answer
    <3>2. [command |-> c, answer |-> NextSequence] \in Receipt
      BY <3>1 DEF Receipt
    <3> QED
      BY <2>2, <3>1, <3>2 DEF Control
  <2> QED
    BY <2>1, <2>2, ReceiptSteps
<1>5. /\ order' \in {"live", "stale", "terminal", "corrupt"}
      /\ token' \in [Worker -> Version]
      /\ blocking' \in [Worker -> {"none", "stale", "corrupt"}]
      /\ now' \in 0..MaxTime /\ setBacks' \in 0..SetBacks
  <2> USE DEF TypeInv, TypeOK, process, clock
  <2>1. ASSUME NEW s \in Slot, NEW c \in Command, ControlReplay(s, c) \/ Control(s, c)
        PROVE  UNCHANGED <<order, process, clock>>
    BY <2>1 DEF ControlReplay, Control
  <2>2. ASSUME NEW w \in Worker,
               \/ ClaimRuntime(w) \/ RenewClaim(w) \/ ReleaseClaim(w) \/ Exit(w)
               \/ Transition(w) \/ Work(w) \/ ReconcileFails(w) \/ Block(w)
        PROVE  /\ UNCHANGED <<order, clock>>
               /\ token' \in [Worker -> Version]
               /\ blocking' \in [Worker -> {"none", "stale", "corrupt"}]
    <3>1. row'.fence \in Version /\ 0 \in Version
      BY <1>1, ControlAssumption DEF Row, Version
    <3> QED
      BY <2>2, <3>1
         DEF ClaimRuntime, RenewClaim, ReleaseClaim, Exit, Transition, Work, ReconcileFails, Block
  <2>3. CASE OrderChanges
    BY <2>3 DEF OrderChanges
  <2>4. CASE Tick \/ SetBack
    BY <2>4, ControlAssumption DEF Tick, SetBack
  <2>5. CASE UNCHANGED vars
    BY <2>5 DEF vars
  <2> QED
    BY <2>1, <2>2, <2>3, <2>4, <2>5 DEF Next
<1> QED
  BY <1>1, <1>2, <1>3, <1>4, <1>5 DEF TypeInv, TypeOK

LEMMA TypeInvInitially == Init => TypeInv
BY ControlAssumption
   DEF Init, TypeInv, TypeOK, NoRow, Row, Version, Time, Exists, Slot, Event

\* Every variable keeps its type, fences never overtake the versions.
THEOREM Typing == Spec => []TypeInv
BY TypeInvInitially, TypeInvInductive, PTL DEF Spec

-----------------------------------------------------------------------------
(* What the events tell of the row *)

ClaimTypes == {"claim_acquired", "claim_taken_over"}

Appended(type) == events' = Append(events, [type |-> type, result |-> row', at |-> now])

\* A command leaves its event; a claim leaves its event with the next fence; whatever else
\* happens keeps what is desired, the fence, and leaves at most an event of another type.
LEMMA EventSteps ==
  ASSUME TypeInv, [Next]_vars
  PROVE  \/ (\E type \in Namespace : Appended(type)) /\ row'.fence = row.fence
         \/ /\ \E type \in ClaimTypes : Appended(type)
            /\ row'.fence = row.fence + 1 /\ row'.desired = row.desired /\ Exists
         \/ /\ events' = events \/ \E type \in EventType \ (Namespace \union ClaimTypes) : Appended(type)
            /\ row'.fence = row.fence /\ row'.desired = row.desired /\ (Exists' => Exists)
<1> DEFINE Command_ == (\E type \in Namespace : Appended(type)) /\ row'.fence = row.fence
           Claim == /\ \E type \in ClaimTypes : Appended(type)
                    /\ row'.fence = row.fence + 1 /\ row'.desired = row.desired /\ Exists
           Other == /\ \/ events' = events
                       \/ \E type \in EventType \ (Namespace \union ClaimTypes) : Appended(type)
                    /\ row'.fence = row.fence /\ row'.desired = row.desired /\ (Exists' => Exists)
<1> USE DEF TypeInv, TypeOK, Row, evidence, process, clock, Record, Silent, Appended,
            ClaimTypes, EventType, Namespace, Replace, Successor, Exists
<1>1. ASSUME NEW s \in Slot, NEW c \in Command, ControlReplay(s, c) PROVE Other
  BY <1>1 DEF ControlReplay
<1>2. ASSUME NEW s \in Slot, NEW c \in Command, s[1] = c.ns, Control(s, c) PROVE Command_
  <2>1. Appended(c.ns) /\ c.ns \in Namespace
    BY <1>2 DEF Control, Slot
  <2>2. row'.fence = row.fence
    <3>1. CASE c.ns = "create"
      <4>1. row = NoRow
        BY <1>2, <3>1 DEF Control, Allowed
      <4>2. row' = [NoRow EXCEPT !.observed = "ready", !.updated = now]
        BY <1>2, <3>1 DEF Control, Requested
      <4> QED
        BY <4>1, <4>2
    <3>2. CASE c.ns # "create"
      <4>1. Replace([row EXCEPT !.desired = Desired(c.ns)])
        BY <1>2, <3>2 DEF Control, Requested
      <4> QED
        BY <4>1
    <3> QED
      BY <3>1, <3>2
  <2> QED
    BY <2>1, <2>2
<1>3. ASSUME NEW w \in Worker, ClaimRuntime(w) PROVE Claim \/ Other
  BY <1>3 DEF ClaimRuntime, Lease, NextFence
<1>4. ASSUME NEW w \in Worker, RenewClaim(w) \/ ReleaseClaim(w) PROVE Other
  BY <1>4, ControlAssumption DEF RenewClaim, ReleaseClaim, Claims, NoRow
<1>5. ASSUME NEW w \in Worker, Exit(w) \/ ReconcileFails(w) \/ Work(w) PROVE Other
  BY <1>5 DEF Exit, ReconcileFails, Work
<1>6. ASSUME NEW w \in Worker, Transition(w) \/ Block(w) PROVE Other
  <2>1. Exists
    BY <1>6, ControlAssumption DEF Transition, Block, Reconciles, Claims, NoRow
  <2>2. CASE Transition(w)
    BY <2>1, <2>2 DEF Transition, Observed
  <2>3. CASE Block(w)
    BY <2>1, <2>3 DEF Block
  <2> QED
    BY <1>6, <2>2, <2>3
<1>7. CASE OrderChanges \/ Tick \/ SetBack
  BY <1>7 DEF OrderChanges, Tick, SetBack
<1>8. CASE UNCHANGED vars
  BY <1>8 DEF vars
<1> QED
  BY <1>1, <1>2, <1>3, <1>4, <1>5, <1>6, <1>7, <1>8 DEF Next

\* The events hold rows.
LEMMA EventFacts ==
  ASSUME TypeInv
  PROVE  \A i \in 1..Len(events) :
           /\ events[i].result \in Row
           /\ events[i].result.version \in Nat /\ events[i].result.fence \in Nat
           /\ events[i].result.updated \in Nat
<1> SUFFICES ASSUME NEW i \in 1..Len(events)
             PROVE  /\ events[i].result \in Row
                    /\ events[i].result.version \in Nat /\ events[i].result.fence \in Nat
                    /\ events[i].result.updated \in Nat
  OBVIOUS
<1>1. Version \subseteq Nat /\ Time \subseteq Nat
  BY ControlAssumption DEF Version, Time
<1>2. events \in Seq(Event)
  BY DEF TypeInv, TypeOK
<1>3. events[i] \in Event
  BY <1>2
<1>4. events[i].result \in Row
  BY <1>3 DEF Event
<1> QED
  BY <1>1, <1>4 DEF Row

\* What appending an event does to the sequence.
LEMMA AppendFacts ==
  ASSUME TypeInv, NEW type, Appended(type)
  PROVE  /\ DOMAIN events' = 1..Len(events) + 1
         /\ \A i \in 1..Len(events) : events'[i] = events[i]
         /\ events'[Len(events) + 1].type = type
         /\ events'[Len(events) + 1].result = row'
<1>1. events \in Seq(Event) /\ Len(events) \in Nat /\ DOMAIN events = 1..Len(events)
  BY TypeFacts DEF TypeInv, TypeOK
<1> QED
  BY <1>1 DEF Appended

\* The last command's event says what is desired.
LastInv ==
  Exists => \E i \in Events(Namespace) : /\ \A j \in Events(Namespace) : j <= i
                                         /\ events[i].result.desired = row.desired

LEMMA LastInvInductive ==
  ASSUME TypeInv, LastInv, [Next]_vars
  PROVE  LastInv'
<1> SUFFICES ASSUME Exists'
             PROVE  \E i \in Events(Namespace)' :
                      /\ \A j \in Events(Namespace)' : j <= i
                      /\ events'[i].result.desired = row'.desired
  BY DEF LastInv
<1>1. /\ events \in Seq(Event) /\ Len(events) \in Nat /\ DOMAIN events = 1..Len(events)
      /\ Events(Namespace) \subseteq 1..Len(events)
  BY TypeFacts DEF TypeInv, TypeOK, Events
<1>2. ASSUME NEW type, Appended(type)
      PROVE  /\ DOMAIN events' = 1..Len(events) + 1
             /\ \A i \in 1..Len(events) : events'[i] = events[i]
             /\ events'[Len(events) + 1].type = type
             /\ events'[Len(events) + 1].result = row'
  BY <1>2, AppendFacts
<1>3. ASSUME NEW type \in Namespace, Appended(type)
      PROVE  \E i \in Events(Namespace)' : /\ \A j \in Events(Namespace)' : j <= i
                                           /\ events'[i].result.desired = row'.desired
  <2>1. /\ DOMAIN events' = 1..Len(events) + 1
        /\ events'[Len(events) + 1].type = type /\ events'[Len(events) + 1].result = row'
    BY <1>2, <1>3
  <2>2. Len(events) + 1 \in Events(Namespace)'
    BY <1>1, <2>1 DEF Events
  <2>3. \A j \in Events(Namespace)' : j <= Len(events) + 1
    BY <1>1, <2>1 DEF Events
  <2> QED
    BY <2>1, <2>2, <2>3
<1>4. CASE /\ \/ events' = events
              \/ \E type \in EventType \ Namespace : Appended(type)
           /\ row'.desired = row.desired /\ Exists
  <2>1. PICK i \in Events(Namespace) : /\ \A j \in Events(Namespace) : j <= i
                                       /\ events[i].result.desired = row.desired
    BY <1>4 DEF LastInv
  <2>2. Events(Namespace)' = Events(Namespace)
    <3>1. CASE events' = events
      BY <3>1 DEF Events
    <3>2. ASSUME NEW type \in EventType \ Namespace, Appended(type)
          PROVE  Events(Namespace)' = Events(Namespace)
      <4>1. /\ DOMAIN events' = 1..Len(events) + 1
            /\ \A h \in 1..Len(events) : events'[h] = events[h]
            /\ events'[Len(events) + 1].type = type
        BY <1>2, <3>2
      <4>2. ASSUME NEW k \in 1..Len(events) + 1
            PROVE  k \in Events(Namespace)' <=> k \in Events(Namespace)
        <5>1. CASE k = Len(events) + 1
          BY <1>1, <3>2, <4>1, <5>1 DEF Events
        <5>2. CASE k \in 1..Len(events)
          BY <1>1, <4>1, <5>2 DEF Events
        <5> QED
          BY <1>1, <5>1, <5>2
      <4>3. Events(Namespace)' \subseteq 1..Len(events) + 1
        BY <4>1 DEF Events
      <4>4. Events(Namespace) \subseteq 1..Len(events) + 1
        BY <1>1
      <4> QED
        BY <4>2, <4>3, <4>4
    <3> QED
      BY <1>4, <3>1, <3>2
  <2>3. events'[i] = events[i]
    BY <1>1, <1>2, <1>4, <2>1
  <2> QED
    BY <1>4, <2>1, <2>2, <2>3
<1>5. Namespace \intersect ClaimTypes = {} /\ ClaimTypes \subseteq EventType
  BY DEF Namespace, ClaimTypes, EventType
<1> QED
  BY <1>3, <1>4, <1>5, EventSteps

\* Whatever the processes write over the whole row, what is desired is what the last
\* accepted command wanted.
THEOREM LastWord == Spec => []LastWordHolds
<1>1. Init => LastInv
  BY DEF Init, LastInv, Exists, NoRow
<1>2. TypeInv /\ LastInv => LastWordHolds
  <2> SUFFICES ASSUME TypeInv, LastInv, Exists
               PROVE  row.desired = events[Latest(Events(Namespace))].result.desired
    BY DEF LastWordHolds
  <2>1. PICK i \in Events(Namespace) : /\ \A j \in Events(Namespace) : j <= i
                                       /\ events[i].result.desired = row.desired
    BY DEF LastInv
  <2>2. Events(Namespace) \subseteq Nat
    BY TypeFacts DEF Events
  <2>3. Latest(Events(Namespace)) = i
    BY <2>1, <2>2 DEF Latest
  <2> QED
    BY <2>1, <2>3
<1> QED
  BY <1>1, <1>2, LastInvInductive, Typing, PTL DEF Spec

-----------------------------------------------------------------------------
(* The history of the row *)

\* No event is ahead of the row, and the ones of its version are the row itself.
HistoryInv ==
  /\ HistoryInOrder
  /\ \A i \in DOMAIN events : LET e == events[i].result IN
       e.fence <= row.fence /\ (e.version = row.version => e = row)

\* The row never goes back, and changes only with its version.
LEMMA RowGrows ==
  ASSUME TypeInv, Exists, [Next]_vars
  PROVE  /\ row.version <= row'.version /\ row.updated <= row'.updated /\ row.fence <= row'.fence
         /\ row'.version = row.version => row' = row
         /\ row' # row => row'.version = row.version + 1
<1>1. ~Created
  BY DEF Created
<1> QED
  BY <1>1, RowSteps, TypeFacts DEF Replaced

LEMMA HistoryInvInductive ==
  ASSUME TypeInv, TypeInv', HistoryInv, [Next]_vars
  PROVE  HistoryInv'
<1> DEFINE Result(i) == events[i].result
<1>1. /\ events \in Seq(Event) /\ Len(events) \in Nat /\ DOMAIN events = 1..Len(events)
      /\ row.version \in Nat /\ row.fence \in Nat /\ row.updated \in Nat
      /\ row'.version \in Nat /\ row'.fence \in Nat /\ row'.updated \in Nat
  <2>1. events \in Seq(Event) /\ row \in Row /\ row' \in Row
    BY DEF TypeInv, TypeOK
  <2>2. Version \subseteq Nat /\ Time \subseteq Nat
    BY ControlAssumption DEF Version, Time
  <2> QED
    BY <2>1, <2>2, TypeFacts DEF Row
<1>2. \A i \in 1..Len(events) :
        /\ Result(i).version \in Nat /\ Result(i).fence \in Nat /\ Result(i).updated \in Nat
  BY EventFacts
<1>3. CASE ~Exists
  <2>1. Len(events) = 0
    BY <1>3 DEF TypeInv
  <2>2. CASE events' = events
    BY <1>1, <2>1, <2>2 DEF HistoryInv, HistoryInOrder
  <2>3. ASSUME NEW type, Appended(type) PROVE HistoryInv'
    <3>1. /\ DOMAIN events' = 1..1
          /\ events'[1].result = row'
      BY <2>1, <2>3, AppendFacts
    <3> QED
      BY <1>1, <3>1 DEF HistoryInv, HistoryInOrder
  <2> QED
    BY <2>2, <2>3, EventSteps
<1>4. CASE Exists
  \* the events so far, seen from the new row
  <2>1. ASSUME NEW i \in 1..Len(events)
        PROVE  /\ Result(i).version <= row'.version /\ Result(i).updated <= row'.updated
               /\ Result(i).fence <= row'.fence
               /\ Result(i).version = row'.version => Result(i) = row'
    <3>1. /\ Result(i).version <= row.version /\ Result(i).updated <= row.updated
          /\ Result(i).fence <= row.fence
          /\ Result(i).version = row.version => Result(i) = row
      BY <1>1 DEF HistoryInv, HistoryInOrder
    <3>2. /\ row.version <= row'.version /\ row.updated <= row'.updated
          /\ row.fence <= row'.fence /\ (row'.version = row.version => row' = row)
      BY <1>4, RowGrows
    <3>3. PICK v \in Nat, u \in Nat, f \in Nat :
            v = Result(i).version /\ u = Result(i).updated /\ f = Result(i).fence
      BY <1>2
    <3>4. PICK w \in Nat, x \in Nat, g \in Nat :
            w = row.version /\ x = row.updated /\ g = row.fence
      BY <1>1
    <3>5. PICK z \in Nat, y \in Nat, h \in Nat :
            z = row'.version /\ y = row'.updated /\ h = row'.fence
      BY <1>1
    <3>6. v <= w /\ w <= z
      BY <3>1, <3>2, <3>3, <3>4, <3>5
    <3>7. u <= x /\ x <= y
      BY <3>1, <3>2, <3>3, <3>4, <3>5
    <3>8. f <= g /\ g <= h
      BY <3>1, <3>2, <3>3, <3>4, <3>5
    <3>9. v <= z /\ u <= y /\ f <= h
      BY <3>6, <3>7, <3>8
    <3>10. ASSUME v = z PROVE Result(i) = row'
      <4>1. w = v /\ z = w
        BY <3>6, <3>10
      <4>2. row' = row
        BY <3>2, <3>4, <3>5, <4>1
      <4>3. Result(i) = row
        BY <3>1, <3>3, <3>4, <4>1
      <4> QED
        BY <4>2, <4>3
    <3> QED
      BY <3>3, <3>5, <3>9, <3>10
  <2>2. CASE events' = events
    BY <1>1, <2>1, <2>2 DEF HistoryInv, HistoryInOrder
  <2>3. ASSUME NEW type, Appended(type) PROVE HistoryInv'
    <3>1. /\ DOMAIN events' = 1..Len(events) + 1
          /\ \A i \in 1..Len(events) : events'[i].result = Result(i)
          /\ events'[Len(events) + 1].result = row'
      BY <2>3, AppendFacts
    <3>2. \A i \in DOMAIN events' : i \in 1..Len(events) \/ i = Len(events) + 1
      BY <1>1, <3>1
    <3>3. ASSUME NEW i \in DOMAIN events', NEW j \in DOMAIN events', i < j
          PROVE  LET a == events'[i].result
                     b == events'[j].result
                 IN /\ a.version <= b.version /\ a.updated <= b.updated /\ a.fence <= b.fence
                    /\ a.version = b.version => a = b
      <4>1. i \in 1..Len(events)
        BY <1>1, <3>1, <3>2, <3>3
      <4>2. CASE j \in 1..Len(events)
        BY <1>1, <3>1, <3>3, <4>1, <4>2 DEF HistoryInv, HistoryInOrder
      <4>3. CASE j = Len(events) + 1
        BY <2>1, <3>1, <4>1, <4>3
      <4> QED
        BY <3>2, <4>2, <4>3
    <3>4. ASSUME NEW i \in DOMAIN events'
          PROVE  LET e == events'[i].result
                 IN /\ e.version <= row'.version /\ e.updated <= row'.updated
                    /\ e.fence <= row'.fence /\ (e.version = row'.version => e = row')
      BY <1>1, <2>1, <3>1, <3>2
    <3> QED
      BY <3>3, <3>4 DEF HistoryInv, HistoryInOrder
  <2> QED
    BY <2>2, <2>3, EventSteps
<1> QED
  BY <1>3, <1>4

\* The claims so far are as many as the row's fence, each with a fence of its own.
ClaimInv ==
  /\ OneClaimPerFence
  /\ \A i \in Events(ClaimTypes) : events[i].result.fence <= row.fence

LEMMA ClaimInvInductive ==
  ASSUME TypeInv, TypeInv', HistoryInv, ClaimInv, [Next]_vars
  PROVE  ClaimInv'
<1> DEFINE claims == Events(ClaimTypes)
<1>1. /\ Len(events) \in Nat /\ DOMAIN events = 1..Len(events)
      /\ row.fence \in Nat /\ claims \subseteq 1..Len(events)
  BY TypeFacts DEF Events
<1>2. IsFiniteSet(claims)
  <2>1. IsFiniteSet(1..Len(events))
    BY <1>1, FS_Interval
  <2> QED
    BY <1>1, <2>1, FS_Subset
<1>3. /\ Cardinality(claims) = row.fence
      /\ \A i, j \in claims : i # j => events[i].result.fence # events[j].result.fence
      /\ \A i \in claims : events[i].result.fence <= row.fence
  BY DEF ClaimInv, OneClaimPerFence, ClaimTypes
<1>4. SUFFICES /\ Cardinality(claims') = row'.fence
               /\ \A i, j \in claims' : i # j => events'[i].result.fence # events'[j].result.fence
               /\ \A i \in claims' : events'[i].result.fence <= row'.fence
  BY DEF ClaimInv, OneClaimPerFence, ClaimTypes
<1>5. ASSUME NEW type \in ClaimTypes, Appended(type), row'.fence = row.fence + 1
      PROVE  /\ Cardinality(claims') = row'.fence
             /\ \A i, j \in claims' : i # j => events'[i].result.fence # events'[j].result.fence
             /\ \A i \in claims' : events'[i].result.fence <= row'.fence
  <2>1. /\ DOMAIN events' = 1..Len(events) + 1
        /\ \A h \in 1..Len(events) : events'[h] = events[h]
        /\ events'[Len(events) + 1].type = type
        /\ events'[Len(events) + 1].result = row'
    BY <1>5, AppendFacts
  <2>2. claims' = claims \union {Len(events) + 1}
    BY <1>1, <1>5, <2>1 DEF Events
  <2>3. Len(events) + 1 \notin claims
    BY <1>1
  <2>4. Cardinality(claims') = row.fence + 1
    BY <1>2, <1>3, <2>2, <2>3, FS_AddElement
  <2>5. \A i \in claims : /\ events'[i] = events[i] /\ events[i].result.fence \in Nat
                           /\ events[i].result.fence < row'.fence
    <3>1. \A i \in claims : events[i].result.fence \in Nat
      BY <1>1, EventFacts
    <3> QED
      BY <1>1, <1>3, <1>5, <2>1, <3>1
  <2>6. events'[Len(events) + 1].result.fence = row'.fence /\ row'.fence \in Nat
    BY <1>1, <1>5, <2>1
  <2>7. \A i \in claims' : i = Len(events) + 1 \/ i \in claims
    BY <2>2
  <2> HIDE DEF claims
  <2>8. \A i \in claims' : events'[i].result.fence <= row'.fence
    BY <2>5, <2>6, <2>7
  <2>9. \A i, j \in claims' : i # j => events'[i].result.fence # events'[j].result.fence
    BY <1>3, <1>5, <2>5, <2>6, <2>7
  <2> QED
    BY <1>5, <2>4, <2>8, <2>9
<1>6. CASE /\ events' = events \/ \E type \in EventType \ ClaimTypes : Appended(type)
           /\ row'.fence = row.fence
  <2>1. claims' = claims /\ \A i \in claims : events'[i] = events[i]
    <3>1. CASE events' = events
      BY <3>1 DEF Events
    <3>2. ASSUME NEW type \in EventType \ ClaimTypes, Appended(type)
          PROVE  claims' = claims /\ \A i \in claims : events'[i] = events[i]
      <4>1. /\ DOMAIN events' = 1..Len(events) + 1
            /\ \A h \in 1..Len(events) : events'[h] = events[h]
            /\ events'[Len(events) + 1].type \notin ClaimTypes
        BY <3>2, AppendFacts
      <4>2. \A k \in 1..Len(events) + 1 : k \in 1..Len(events) \/ k = Len(events) + 1
        BY <1>1
      <4>3. claims' \subseteq claims
        BY <1>1, <4>1, <4>2 DEF Events
      <4>4. claims \subseteq claims'
        BY <1>1, <4>1 DEF Events
      <4> QED
        BY <1>1, <4>1, <4>3, <4>4
    <3> QED
      BY <1>6, <3>1, <3>2
  <2> QED
    BY <1>3, <1>6, <2>1
<1>7. Namespace \intersect ClaimTypes = {} /\ Namespace \subseteq EventType
  BY DEF Namespace, ClaimTypes, EventType
<1> QED
  BY <1>5, <1>6, <1>7, EventSteps

-----------------------------------------------------------------------------
(* Commands and their answers *)

\* A stored command expected a version before the row's, its answer is its event, it is
\* stored once, and whoever was told something was told what is stored.
AnswerInv ==
  /\ \A s \in Slot : receipts[s] # NoReceipt =>
       /\ receipts[s].command.ns # "create" => receipts[s].command.asks < row.version
       /\ receipts[s].answer \in DOMAIN events
       /\ events[receipts[s].answer].type = receipts[s].command.ns
  /\ \A s, t \in Slot : receipts[s] # NoReceipt /\ receipts[t] # NoReceipt
                        /\ receipts[s].command = receipts[t].command => s = t
  /\ \A t \in told : \E s \in Slot : receipts[s] = [command |-> t[2], answer |-> t[3]]
  /\ OneCommandPerVersion

\* Of stored commands none is carried out again.
LEMMA AnswerInvInductive ==
  ASSUME TypeInv, TypeInv', AnswerInv, [Next]_vars
  PROVE  AnswerInv'
<1>1. /\ Len(events) \in Nat /\ DOMAIN events = 1..Len(events)
      /\ row.version \in Nat /\ row'.version \in Nat
  BY TypeFacts DEF TypeInv, TypeOK, Row, Version
<1>2. row.version <= row'.version
  <2>1. CASE Exists
    BY <2>1, RowGrows
  <2>2. CASE ~Exists
    BY <1>1, <2>2 DEF TypeInv, NoRow
  <2> QED
    BY <2>1, <2>2
<1>3. 1..Len(events) \subseteq DOMAIN events' /\ \A i \in 1..Len(events) : events'[i] = events[i]
  <2>1. CASE events' = events
    BY <1>1, <2>1
  <2>2. ASSUME NEW type, Appended(type)
        PROVE  1..Len(events) \subseteq DOMAIN events' /\ \A i \in 1..Len(events) : events'[i] = events[i]
    BY <1>1, <2>2, AppendFacts
  <2> QED
    BY <2>1, <2>2, EventSteps
<1>4. ASSUME NEW s \in Slot, receipts[s] # NoReceipt
      PROVE  /\ receipts[s].command.ns # "create" => receipts[s].command.asks < row'.version
             /\ receipts[s].answer \in DOMAIN events'
             /\ events'[receipts[s].answer].type = receipts[s].command.ns
  <2>1. receipts[s] \in Receipt
    BY <1>4 DEF TypeInv, TypeOK
  <2>2. receipts[s].command.ns # "create" => receipts[s].command.asks \in Nat
    BY <2>1 DEF Receipt, Command, Version
  <2> QED
    BY <1>1, <1>2, <1>3, <1>4, <2>2 DEF AnswerInv
<1>5. CASE UNCHANGED <<receipts, told>>
  BY <1>4, <1>5 DEF AnswerInv, OneCommandPerVersion
<1>6. ASSUME NEW s \in Slot, NEW c \in Command, ControlReplay(s, c) PROVE AnswerInv'
  <2>1. PICK r \in Answered(s, c) : told' = told \union {<<s, c, r.answer>>}
    BY <1>6 DEF ControlReplay
  <2>2. receipts' = receipts
    BY <1>6 DEF ControlReplay
  <2>3. PICK o \in Slot : receipts[o] = r /\ r # NoReceipt /\ r.command = c
    BY <2>1 DEF Answered
  <2>4. r = [command |-> c, answer |-> r.answer]
    <3>1. r \in Receipt
      BY <2>3 DEF TypeInv, TypeOK
    <3> QED
      BY <2>3, <3>1 DEF Receipt
  <2>5. \A t \in told' : \E q \in Slot : receipts'[q] = [command |-> t[2], answer |-> t[3]]
    BY <2>1, <2>2, <2>3, <2>4 DEF AnswerInv
  <2> QED
    BY <1>4, <2>2, <2>5 DEF AnswerInv, OneCommandPerVersion
<1>7. ASSUME NEW s \in Slot, NEW c \in Command, s[1] = c.ns, Control(s, c) PROVE AnswerInv'
  <2> DEFINE r == [command |-> c, answer |-> Len(events) + 1]
  <2>1. /\ receipts[s] = NoReceipt
        /\ receipts' = [receipts EXCEPT ![s] = r]
        /\ told' \subseteq told \union {<<s, c, Len(events) + 1>>}
    BY <1>7 DEF Control, New, NextSequence
  <2>2. \A o \in Slot : o # s => receipts'[o] = receipts[o]
    BY <2>1 DEF TypeInv, TypeOK
  <2>3. receipts'[s] = r
    BY <2>1 DEF TypeInv, TypeOK
  <2>4. \A o \in Slot : receipts[o] # NoReceipt => receipts[o].command # c
    BY <1>7, <2>1 DEF Control, New, Answered
  <2>5. c.ns # "create" => c.asks = row.version /\ row'.version = row.version + 1
    BY <1>7 DEF Control, Requested, Expected, Replace, Successor, TypeInv, TypeOK, Row
  <2>6. Len(events) + 1 \in DOMAIN events' /\ events'[Len(events) + 1].type = c.ns
    <3>1. Appended(c.ns)
      BY <1>7 DEF Control, Record, Appended
    <3> QED
      BY <1>1, <3>1, AppendFacts
  <2>7. ASSUME NEW o \in Slot, receipts'[o] # NoReceipt
        PROVE  /\ receipts'[o].command.ns # "create" => receipts'[o].command.asks < row'.version
               /\ receipts'[o].answer \in DOMAIN events'
               /\ events'[receipts'[o].answer].type = receipts'[o].command.ns
    <3>1. CASE o = s
      BY <1>1, <2>3, <2>5, <2>6, <3>1
    <3>2. CASE o # s
      BY <1>4, <2>2, <2>7, <3>2
    <3> QED
      BY <3>1, <3>2
  <2>8. ASSUME NEW o \in Slot, NEW t \in Slot, receipts'[o] # NoReceipt, receipts'[t] # NoReceipt,
               receipts'[o].command = receipts'[t].command
        PROVE  o = t
    BY <2>2, <2>3, <2>4, <2>8 DEF AnswerInv
  <2>9. ASSUME NEW t \in told'
        PROVE  \E q \in Slot : receipts'[q] = [command |-> t[2], answer |-> t[3]]
    <3>1. CASE t \in told
      <4>1. PICK q \in Slot : receipts[q] = [command |-> t[2], answer |-> t[3]]
        BY <3>1 DEF AnswerInv
      <4>2. t \in Slot \X Command \X Answer
        BY <3>1 DEF TypeInv, TypeOK
      <4>3. receipts[q] # NoReceipt
        BY <4>1, <4>2, ReceiptAssumption DEF Receipt
      <4> QED
        BY <2>1, <2>2, <4>1, <4>3
    <3>2. CASE t = <<s, c, Len(events) + 1>>
      BY <2>3, <3>2
    <3> QED
      BY <2>1, <3>1, <3>2
  <2>10. OneCommandPerVersion'
    <3> SUFFICES ASSUME NEW o \in Slot, NEW t \in Slot, o # t,
                        receipts'[o] # NoReceipt, receipts'[t] # NoReceipt,
                        receipts'[o].command.ns # "create", receipts'[t].command.ns # "create"
                 PROVE  receipts'[o].command.asks # receipts'[t].command.asks
      BY DEF OneCommandPerVersion
    <3>1. CASE o # s /\ t # s
      BY <2>2, <3>1 DEF AnswerInv, OneCommandPerVersion
    <3>2. ASSUME NEW q \in Slot, q # s, receipts'[q] # NoReceipt, receipts'[q].command.ns # "create",
                 c.ns # "create"
          PROVE  receipts'[q].command.asks # c.asks
      <4>1. receipts[q].command.asks < row.version
        BY <2>2, <3>2 DEF AnswerInv
      <4> QED
        BY <1>1, <2>2, <2>5, <3>2, <4>1
    <3> QED
      BY <2>3, <3>1, <3>2
  <2> QED
    BY <2>7, <2>8, <2>9, <2>10 DEF AnswerInv
<1> QED
  BY <1>5, <1>6, <1>7, ReceiptSteps

\* Whoever was told something was told the one answer stored for the command they sent.
THEOREM Agreement == Spec => []AnswersAgree
<1>1. Init => AnswerInv
  BY DEF Init, AnswerInv, OneCommandPerVersion
<1>2. TypeInv /\ AnswerInv => AnswersAgree
  <2> SUFFICES ASSUME TypeInv, AnswerInv PROVE AnswersAgree
    OBVIOUS
  <2>1. ASSUME NEW t \in told
        PROVE  \E s \in Slot : /\ receipts[s] = [command |-> t[2], answer |-> t[3]]
                               /\ receipts[s] # NoReceipt
    <3>1. PICK s \in Slot : receipts[s] = [command |-> t[2], answer |-> t[3]]
      BY DEF AnswerInv
    <3>2. t \in Slot \X Command \X Answer
      BY DEF TypeInv, TypeOK
    <3> QED
      BY <3>1, <3>2, ReceiptAssumption DEF Receipt
  <2>2. ASSUME NEW t \in told
        PROVE  /\ \E s \in Slot : receipts[s] = [command |-> t[2], answer |-> t[3]]
               /\ events[t[3]].type = t[2].ns
    BY <2>1 DEF AnswerInv
  <2>3. ASSUME NEW t \in told, NEW u \in told, t[2] = u[2] PROVE t[3] = u[3]
    <3>1. PICK s \in Slot : /\ receipts[s] = [command |-> t[2], answer |-> t[3]]
                            /\ receipts[s] # NoReceipt
      BY <2>1
    <3>2. PICK q \in Slot : /\ receipts[q] = [command |-> u[2], answer |-> u[3]]
                            /\ receipts[q] # NoReceipt
      BY <2>1
    <3>3. s = q
      BY <2>3, <3>1, <3>2 DEF AnswerInv
    <3> QED
      BY <3>1, <3>2, <3>3
  <2> QED
    BY <2>2, <2>3 DEF AnswersAgree
<1> QED
  BY <1>1, <1>2, AnswerInvInductive, Typing, PTL DEF Spec

-----------------------------------------------------------------------------
(* Blocks *)

\* What recovery may take for corruption when no timestamp regresses.
Cause == order = "corrupt" \/ Worked

\* A Work once made was made.
LEMMA WorkedStays ==
  ASSUME TypeInv, [Next]_vars, Worked
  PROVE  Worked'
<1>1. PICK i \in DOMAIN events : events[i].type = "work"
  BY DEF Worked
<1>2. DOMAIN events = 1..Len(events) /\ Len(events) \in Nat
  BY TypeFacts DEF TypeInv, TypeOK
<1>3. CASE events' = events
  BY <1>1, <1>3 DEF Worked
<1>4. ASSUME NEW type, Appended(type) PROVE Worked'
  <2>1. /\ DOMAIN events' = 1..Len(events) + 1
        /\ \A j \in 1..Len(events) : events'[j] = events[j]
    BY <1>4, AppendFacts
  <2>2. i \in 1..Len(events) /\ i \in 1..Len(events) + 1
    BY <1>1, <1>2
  <2> QED
    BY <1>1, <2>1, <2>2 DEF Worked
<1> QED
  BY <1>3, <1>4, EventSteps

\* As long as the clock was not set back, nothing was written in its future, and whoever
\* is about to block as corrupt has found the authority corrupt or a Work to look after.
CauseInv ==
  setBacks = 0 =>
    /\ row.updated <= now
    /\ \A w \in Worker : blocking[w] = "corrupt" => Cause
    /\ BlockedForCause

LEMMA CauseInvInductive ==
  ASSUME TypeInv, TypeInv', CauseInv, [Next]_vars
  PROVE  CauseInv'
<1> SUFFICES ASSUME setBacks' = 0
             PROVE  /\ row'.updated <= now'
                    /\ \A w \in Worker : blocking'[w] = "corrupt" => Cause'
                    /\ row'.reason = "corrupt" => Cause'
  BY DEF CauseInv, BlockedForCause, Cause
<1> USE DEF evidence, process, clock
<1>1. /\ now \in Nat /\ now' \in Nat /\ row.updated \in Nat /\ setBacks \in Nat
      /\ row' \in Row /\ blocking \in [Worker -> {"none", "stale", "corrupt"}] /\ row \in Row
  <2>1. MaxTime \in Nat /\ SetBacks \in Nat
    BY ControlAssumption
  <2> QED
    BY <2>1, TypeFacts DEF TypeInv, TypeOK
<1>2. /\ setBacks = 0 /\ now <= now' /\ (order = "corrupt" => order' = "corrupt")
      /\ OrderChanges \/ order' = order
  <2>1. ~SetBack
    BY <1>1 DEF SetBack
  <2>2. ASSUME NEW w \in Worker,
               \/ ClaimRuntime(w) \/ RenewClaim(w) \/ ReleaseClaim(w) \/ Exit(w)
               \/ Transition(w) \/ Work(w) \/ ReconcileFails(w) \/ Block(w)
        PROVE  UNCHANGED <<order, clock>>
    BY <2>2 DEF ClaimRuntime, RenewClaim, ReleaseClaim, Exit, Transition, Work, ReconcileFails,
                Block
  <2>3. ASSUME NEW s \in Slot, NEW c \in Command, ControlReplay(s, c) \/ Control(s, c)
        PROVE  UNCHANGED <<order, clock>>
    BY <2>3 DEF ControlReplay, Control
  <2>4. CASE OrderChanges
    BY <1>1, <2>4 DEF OrderChanges
  <2>5. CASE Tick
    BY <1>1, <2>5 DEF Tick
  <2>6. CASE UNCHANGED vars
    BY <1>1, <2>6 DEF vars
  <2> QED
    BY <1>1, <2>1, <2>2, <2>3, <2>4, <2>5, <2>6 DEF Next
<1>11. Cause => Cause'
  BY <1>2, WorkedStays DEF Cause
<1>3. /\ row.updated <= now
      /\ \A w \in Worker : blocking[w] = "corrupt" => Cause
      /\ row.reason = "corrupt" => Cause
  BY <1>2 DEF CauseInv, BlockedForCause, Cause
<1>4. row'.updated <= now'
  <2>1. \/ row' = row
        \/ row' = [NoRow EXCEPT !.observed = "ready", !.updated = now]
        \/ row'.updated = now
    BY RowSteps DEF Created, Replaced
  <2>2. [NoRow EXCEPT !.observed = "ready", !.updated = now].updated = now
    BY DEF NoRow
  <2>3. row'.updated \in {row.updated, now}
    BY <2>1, <2>2
  <2> QED
    BY <1>1, <1>2, <1>3, <2>3
<1>5. ASSUME blocking' = blocking, row'.reason \in {row.reason, "none"}
      PROVE  /\ \A w \in Worker : blocking'[w] = "corrupt" => Cause'
             /\ row'.reason = "corrupt" => Cause'
  BY <1>3, <1>5, <1>11
<1>6. ASSUME NEW w \in Worker, Exit(w) \/ ReconcileFails(w) \/ Block(w)
      PROVE  /\ \A v \in Worker : blocking'[v] = "corrupt" => Cause'
             /\ row'.reason = "corrupt" => Cause'
  <2>1. ASSUME NEW b, b = "corrupt" => Cause,
               blocking' = [blocking EXCEPT ![w] = b]
        PROVE  \A v \in Worker : blocking'[v] = "corrupt" => Cause'
    BY <1>1, <1>3, <1>11, <2>1
  <2>2. CASE Exit(w)
    BY <1>2, <1>3, <1>11, <2>1, <2>2 DEF Exit
  <2>3. CASE ReconcileFails(w)
    <3>1. PICK b \in {"stale", "corrupt"} :
            /\ blocking' = [blocking EXCEPT ![w] = b]
            /\ b = "corrupt" => Cause
      <4>1. ~TimestampRegresses
        BY <1>1, <1>3 DEF TimestampRegresses
      <4> QED
        BY <2>3, <4>1 DEF ReconcileFails, Cause
    <3> QED
      BY <1>2, <1>3, <1>11, <2>1, <2>3, <3>1 DEF ReconcileFails
  <2>4. CASE Block(w)
    <3>1. row'.reason = blocking[w]
      BY <1>1, <2>4 DEF Block, Replace, Successor, Row
    <3> QED
      BY <1>2, <1>3, <1>11, <2>1, <2>4, <3>1 DEF Block
  <2> QED
    BY <1>6, <2>2, <2>3, <2>4
<1>7. ASSUME NEW w \in Worker,
             \/ ClaimRuntime(w) \/ RenewClaim(w) \/ ReleaseClaim(w) \/ Transition(w) \/ Work(w)
      PROVE  blocking' = blocking /\ row'.reason = row.reason
  BY <1>1, <1>7 DEF ClaimRuntime, RenewClaim, ReleaseClaim, Transition, Work, Replace, Successor,
                    Lease, Observed, Row
<1>8. ASSUME NEW s \in Slot, NEW c \in Command, ControlReplay(s, c) \/ Control(s, c)
      PROVE  blocking' = blocking /\ row'.reason \in {row.reason, "none"}
  BY <1>1, <1>8 DEF ControlReplay, Control, Requested, Replace, Successor, NoRow, Row
<1>9. CASE OrderChanges \/ Tick \/ UNCHANGED vars
  BY <1>4, <1>5, <1>9 DEF OrderChanges, Tick, vars
<1>10. CASE SetBack
  BY <1>1, <1>10 DEF SetBack
<1> QED
  BY <1>4, <1>5, <1>6, <1>7, <1>8, <1>9, <1>10 DEF Next

\* The events are a history of the row, a fence is one claim's, a version is moved on by one
\* command; and while the clock only goes forward, a block as corrupt has a corrupt order or
\* a Work whose order recovery was looking at.
THEOREM History == Spec => []HistoryIsSound
<1>1. Init => HistoryInv /\ ClaimInv /\ AnswerInv /\ CauseInv
  <2>1. ASSUME Init PROVE HistoryInv
    BY <2>1 DEF Init, HistoryInv, HistoryInOrder
  <2>2. ASSUME Init PROVE ClaimInv
    BY <2>2, FS_EmptySet DEF Init, ClaimInv, OneClaimPerFence, Events, NoRow
  <2>3. ASSUME Init PROVE AnswerInv
    BY <2>3 DEF Init, AnswerInv, OneCommandPerVersion
  <2>4. ASSUME Init PROVE CauseInv
    BY <2>4 DEF Init, CauseInv, BlockedForCause, NoRow
  <2> QED
    BY <2>1, <2>2, <2>3, <2>4
<1>2. TypeInv /\ HistoryInv /\ ClaimInv /\ AnswerInv /\ CauseInv => HistoryIsSound
  BY DEF TypeInv, HistoryInv, ClaimInv, AnswerInv, CauseInv, HistoryIsSound
<1>3. /\ TypeInv /\ TypeInv' /\ HistoryInv /\ ClaimInv /\ AnswerInv /\ CauseInv /\ [Next]_vars
      => HistoryInv' /\ ClaimInv' /\ AnswerInv' /\ CauseInv'
  BY HistoryInvInductive, ClaimInvInductive, AnswerInvInductive, CauseInvInductive
<1> QED
  BY <1>1, <1>2, <1>3, Typing, PTL DEF Spec
=============================================================================
