----------------------- MODULE PaperExecution_proofs -----------------------
(* Proofs about PaperExecution, for any orders, accounts, replays and streams. *)
EXTENDS PaperExecution, FiniteSetTheorems, SequenceTheorems, TLAPS

-----------------------------------------------------------------------------
(* What a step does *)

\* Appending to one of several sequences.
LEMMA AppendTo ==
  ASSUME NEW I, NEW S, NEW f \in [I -> Seq(S)], NEW i \in I, NEW e \in S
  PROVE  [f EXCEPT ![i] = Append(@, e)] \in [I -> Seq(S)]
<1>1. Append(f[i], e) \in Seq(S)
  BY AppendProperties
<1> QED
  BY <1>1

\* Counting at one place of a sequence, if it has that place.
LEMMA RaiseAt ==
  ASSUME NEW s \in Seq(Nat), NEW i
  PROVE  [s EXCEPT ![i] = @ + 1] \in Seq(Nat)
<1>1. Len(s) \in Nat /\ s \in [1..Len(s) -> Nat]
  BY LenProperties
<1>2. [s EXCEPT ![i] = @ + 1] \in [1..Len(s) -> Nat]
  <2>1. CASE i \in 1..Len(s)
    BY <1>1, <2>1
  <2>2. CASE i \notin 1..Len(s)
    BY <1>1, <2>2
  <2> QED
    BY <2>1, <2>2
<1>3. Seq(Nat) = UNION {[1..n -> Nat] : n \in Nat}
  BY SeqDef
<1> QED
  BY <1>1, <1>2, <1>3

\* The constants an order is made of.
LEMMA OrderFacts ==
  ASSUME NEW o \in Order
  PROVE  /\ AccountOf[o] \in Account /\ ReplayOf[o] \in Replay
         /\ Requested[o] \in Nat \ {0} /\ Cap[o] \in Nat \ {0}
         /\ Len(Events(o)) \in Nat
<1>1. /\ AccountOf[o] \in Account /\ ReplayOf[o] \in Replay
      /\ Requested[o] \in Nat \ {0} /\ Cap[o] \in Nat \ {0}
  BY ExecutionAssumption
<1>2. Stream[ReplayOf[o]] \in Seq(MarketEvent)
  BY <1>1, ExecutionAssumption
<1> QED
  BY <1>1, <1>2 DEF Events

\* Where an order's attempts have left the account, the replay and the order.
LEMMA NowFacts ==
  ASSUME TypeOK, NEW o \in Order
  PROVE  /\ Version(o) \in Nat
         /\ Position(o) \in Nat /\ AccountHead(o) \in Nat
         /\ \A i \in 0..Version(o) : After(o, i) \in [post : Nat, filled : Nat, head : Nat]
         /\ Now(o) \in [post : Nat, filled : Nat, head : Nat]
<1>1. Version(o) \in Nat /\ attempts[o] \in Seq(Attempt)
  BY DEF TypeOK, Version
<1>2. Position(o) \in Nat /\ AccountHead(o) \in Nat
  BY OrderFacts DEF TypeOK, Position, AccountHead
<1>3. ASSUME NEW i \in 0..Version(o) PROVE After(o, i) \in [post : Nat, filled : Nat, head : Nat]
  <2>1. CASE i = 0
    BY <2>1 DEF After, Handoff, TypeOK
  <2>2. CASE i # 0
    <3>1. attempts[o][i] \in Attempt
      BY <1>1, <2>2 DEF Version
    <3> QED
      BY <2>2, <3>1 DEF After, Attempt
  <2> QED
    BY <2>1, <2>2
<1> QED
  BY <1>1, <1>2, <1>3 DEF Now

\* What the validator accepts has not filled more than was requested.
LEMMA NeverOverfilled ==
  ASSUME TypeOK, NEW o \in Order, Replays(o)
  PROVE  Now(o).filled <= Requested[o]
<1>1. CASE Version(o) = 0
  BY <1>1, OrderFacts DEF Now, After, Handoff
<1>2. CASE Version(o) # 0
  <2>1. Version(o) \in 1..Version(o)
    BY <1>2, NowFacts
  <2>2. Continues(o, Version(o))
    BY <2>1 DEF Replays
  <2> QED
    BY <1>2, <2>2 DEF Continues, Now, After
<1> QED
  BY <1>1, <1>2

\* The attempt t that a Step of o makes.
Makes(o, t) ==
  /\ attempts' = [attempts EXCEPT ![o] = Append(@, t)]
  /\ cursor' = [cursor EXCEPT ![ReplayOf[o]] = t.post]
  /\ stepReceipts' = [stepReceipts EXCEPT ![o] = Append(@, 1)]
  /\ UNCHANGED <<orders, handoff, createReceipts, repeats>>
  /\ t.pre = Position(o)
  /\ IF t.result = "boundary_rejected" THEN t.post = Position(o) /\ t.reason # "none"
     ELSE /\ t.post = Position(o) + 1 /\ t.post <= Len(Events(o))
          /\ t.post = Len(Events(o)) => Ends(o, t)
  /\ IF t.result = "fill"
     THEN /\ Executable(o, t.post)
          /\ t.filled = Now(o).filled + FillQuantity(o, Now(o).filled)
          /\ t.filled = Requested[o] => t.reason = "none"
          /\ t.post = Len(Events(o)) /\ t.filled < Requested[o] => t.reason = "replay_exhausted"
          /\ t.head = AccountHead(o) + 1
          /\ ledger' = [ledger EXCEPT ![AccountOf[o]] =
                          Append(@, [order |-> o, version |-> Version(o) + 1])]
     ELSE t.filled = Now(o).filled /\ t.head = Now(o).head /\ UNCHANGED ledger

\* Every accepted Step makes one attempt of that shape, and it fills no more than asked.
LEMMA StepMakes ==
  ASSUME TypeOK, NEW o \in Order, StepOrder(o)
  PROVE  \E t \in Attempt : Makes(o, t) /\ t.filled <= Requested[o]
<1> DEFINE n == Now(o)
<1>1. n \in [post : Nat, filled : Nat, head : Nat] /\ n.filled <= Requested[o]
      /\ Position(o) \in Nat /\ AccountHead(o) \in Nat
  BY NowFacts, NeverOverfilled DEF StepOrder
<1>2. Requested[o] \in Nat /\ Cap[o] \in Nat /\ Len(Events(o)) \in Nat
  BY OrderFacts
<1> HIDE DEF n
<1>3. CASE RejectAtBoundary(o)
  <2> DEFINE t == Made(o, "boundary_rejected",
                       IF Exhausted(o) THEN "replay_exhausted" ELSE "session_exhausted",
                       Position(o), n.filled, n.head)
  <2>1. t \in Attempt /\ t.filled <= Requested[o]
    BY <1>1, <1>2 DEF Made, Attempt, Result, Reason
  <2>2. Makes(o, t)
    BY <1>3 DEF RejectAtBoundary, Makes, Commit, Made, n
  <2> QED
    BY <2>1, <2>2
<1>4. CASE NoFill(o)
  <2> DEFINE t == Made(o, "no_fill", IF LastEvent(o) THEN "replay_exhausted" ELSE "none",
                       Position(o) + 1, n.filled, n.head)
  <2>1. t \in Attempt /\ t.filled <= Requested[o]
    BY <1>1, <1>2 DEF Made, Attempt, Result, Reason
  <2>2. Position(o) < Len(Events(o))
    BY <1>1, <1>2, <1>4 DEF NoFill, EventInSession, Exhausted
  <2>3. Makes(o, t)
    BY <1>1, <1>2, <1>4, <2>2 DEF NoFill, Makes, Commit, Made, Ends, LastEvent, n
  <2> QED
    BY <2>1, <2>3
<1>5. CASE RejectByRisk(o)
  <2> DEFINE t == Made(o, "risk_rejected", "execution_risk_rejected",
                       Position(o) + 1, n.filled, n.head)
  <2>1. t \in Attempt /\ t.filled <= Requested[o]
    BY <1>1, <1>2 DEF Made, Attempt, Result, Reason
  <2>2. Position(o) < Len(Events(o))
    BY <1>1, <1>2, <1>5 DEF RejectByRisk, EventInSession, Exhausted
  <2>3. Makes(o, t)
    BY <1>1, <1>2, <1>5, <2>2 DEF RejectByRisk, Makes, Commit, Made, Ends, n
  <2> QED
    BY <2>1, <2>3
<1>6. CASE Fill(o)
  <2> DEFINE filled == n.filled + FillQuantity(o, n.filled)
             reason == IF LastEvent(o) /\ filled # Requested[o] THEN "replay_exhausted" ELSE "none"
             t == Made(o, "fill", reason, Position(o) + 1, filled, AccountHead(o) + 1)
  <2>1. filled \in Nat /\ filled <= Requested[o]
    <3>1. PICK f \in Nat, r \in Nat, c \in Nat : f = n.filled /\ r = Requested[o] /\ c = Cap[o]
      BY <1>1, <1>2
    <3>2. f <= r /\ filled = f + IF r - f < c THEN r - f ELSE c
      BY <1>1, <3>1 DEF FillQuantity
    <3> HIDE DEF filled
    <3>3. filled \in Nat /\ filled <= r
      BY <3>2
    <3> QED
      BY <3>1, <3>3
  <2>2. Position(o) < Len(Events(o)) /\ Executable(o, Position(o) + 1)
    BY <1>1, <1>2, <1>6 DEF Fill, EventInSession, Exhausted
  <2>3. Commit(o, t) /\ ledger' = [ledger EXCEPT ![AccountOf[o]] =
                                     Append(@, [order |-> o, version |-> Version(o) + 1])]
    BY <1>6 DEF Fill, n
  <2> HIDE DEF filled
  <2>4. t \in Attempt /\ t.filled <= Requested[o]
    BY <1>1, <1>2, <2>1 DEF Made, Attempt, Result, Reason
  <2>5. /\ t.pre = Position(o) /\ t.post = Position(o) + 1 /\ t.result = "fill"
        /\ t.filled = filled /\ t.reason = reason /\ t.head = AccountHead(o) + 1
    BY DEF Made
  <2>6. Ends(o, t) \/ t.post # Len(Events(o))
    BY <2>5 DEF Ends, LastEvent
  <2>7. Makes(o, t)
    <3>1. /\ attempts' = [attempts EXCEPT ![o] = Append(@, t)]
          /\ cursor' = [cursor EXCEPT ![ReplayOf[o]] = t.post]
          /\ stepReceipts' = [stepReceipts EXCEPT ![o] = Append(@, 1)]
          /\ UNCHANGED <<orders, handoff, createReceipts, repeats>>
      BY <2>3 DEF Commit
    <3> HIDE DEF t
    <3>2. PICK p \in Nat, l \in Nat : p = Position(o) /\ l = Len(Events(o))
      BY <1>1, <1>2
    <3>3. p < l /\ t.post = p + 1
      BY <2>2, <2>5, <3>2
    <3>4. t.post <= Len(Events(o)) /\ (t.post = Len(Events(o)) => Ends(o, t))
      BY <2>6, <3>2, <3>3
    <3>5. Executable(o, t.post)
      BY <2>2, <2>5
    <3>6. t.filled = Now(o).filled + FillQuantity(o, Now(o).filled)
      BY <2>5 DEF filled, n
    <3>7. t.reason = IF LastEvent(o) /\ t.filled # Requested[o] THEN "replay_exhausted" ELSE "none"
      BY <2>5
    <3>8. t.filled = Requested[o] => t.reason = "none"
      BY <3>7
    <3>9. t.post = Len(Events(o)) /\ t.filled < Requested[o] => t.reason = "replay_exhausted"
      <4>1. t.post = Len(Events(o)) => LastEvent(o)
        BY <2>5 DEF LastEvent
      <4>2. t.filled \in Nat /\ Requested[o] \in Nat
        BY <1>1, <2>1, <2>5, OrderFacts
      <4>3. t.filled < Requested[o] => t.filled # Requested[o]
        BY <4>2
      <4> QED
        BY <3>7, <4>1, <4>3
    <3>10. t.result = "fill" /\ t.pre = Position(o) /\ t.head = AccountHead(o) + 1
           /\ t.post = Position(o) + 1
      BY <2>5
    <3> QED
      BY <2>3, <3>1, <3>4, <3>5, <3>6, <3>8, <3>9, <3>10 DEF Makes
  <2> QED
    BY <2>4, <2>7
<1> QED
  BY <1>3, <1>4, <1>5, <1>6 DEF StepOrder

-----------------------------------------------------------------------------
(* Type correctness *)

\* A step keeps every variable's type.
LEMMA TypingStep == TypeOK /\ [Next]_vars => TypeOK'
<1> SUFFICES ASSUME TypeOK, [Next]_vars PROVE TypeOK'
  OBVIOUS
<1>1. ASSUME NEW o \in Order, CreateOrder(o) PROVE TypeOK'
  <2>1. [head |-> AccountHead(o), position |-> Position(o)] \in [head : Nat, position : Nat]
    BY NowFacts
  <2>2. handoff' \in [Order -> [head : Nat, position : Nat]]
    BY <1>1, <2>1 DEF CreateOrder, TypeOK
  <2> QED
    BY <1>1, <2>2 DEF CreateOrder, TypeOK
<1>2. ASSUME NEW o \in Order, CreateConverges(o) PROVE TypeOK'
  BY <1>2 DEF CreateConverges, Repeat, TypeOK
<1>3. ASSUME NEW o \in Order, StepOrder(o) PROVE TypeOK'
  <2> PICK t \in Attempt : Makes(o, t)
    BY <1>3, StepMakes
  <2>1. attempts' \in [Order -> Seq(Attempt)]
    BY DEF Makes, TypeOK
  <2>2. cursor' \in [Replay -> Nat]
    <3>1. t.post \in Nat
      BY DEF Attempt
    <3> QED
      BY <3>1 DEF Makes, TypeOK
  <2>3. stepReceipts' \in [Order -> Seq(Nat)]
    BY DEF Makes, TypeOK
  <2>4. ledger' \in [Account -> Seq(Entry)]
    <3> DEFINE e == [order |-> o, version |-> Version(o) + 1]
    <3>1. e \in Entry /\ AccountOf[o] \in Account
      BY NowFacts, OrderFacts DEF Entry
    <3>2. ledger' = ledger \/ ledger' = [ledger EXCEPT ![AccountOf[o]] = Append(@, e)]
      BY DEF Makes
    <3> HIDE DEF e
    <3>3. [ledger EXCEPT ![AccountOf[o]] = Append(@, e)] \in [Account -> Seq(Entry)]
      BY <3>1, AppendTo DEF TypeOK
    <3> QED
      BY <3>1, <3>2, <3>3 DEF TypeOK
  <2> QED
    BY <2>1, <2>2, <2>3, <2>4 DEF Makes, TypeOK
<1>4. ASSUME NEW o \in Order, NEW i \in 1..Version(o), StepConverges(o, i) PROVE TypeOK'
  <2>1. [stepReceipts[o] EXCEPT ![i] = @ + 1] \in Seq(Nat)
    BY RaiseAt DEF TypeOK
  <2>2. stepReceipts' \in [Order -> Seq(Nat)]
    BY <1>4, <2>1 DEF StepConverges, TypeOK
  <2>3. repeats' \in Nat
    BY <1>4 DEF StepConverges, Repeat, TypeOK
  <2>4. UNCHANGED <<orders, handoff, attempts, ledger, cursor, createReceipts>>
    BY <1>4 DEF StepConverges
  <2> QED
    BY <2>2, <2>3, <2>4 DEF TypeOK
<1>5. ASSUME NEW a \in Account, AccountMoves(a) PROVE TypeOK'
  <2>1. NoSettlement \in Entry
    BY DEF NoSettlement, Entry
  <2> QED
    BY <1>5, <2>1 DEF AccountMoves, receipts, TypeOK
<1>6. CASE UNCHANGED vars
  BY <1>6 DEF vars, receipts, TypeOK
<1> QED
  BY <1>1, <1>2, <1>3, <1>4, <1>5, <1>6 DEF Next

\* Every variable keeps its type: no attempt fills more than was requested.
THEOREM Typing == Spec => []TypeOK
<1>1. Init => TypeOK
  <2> SUFFICES ASSUME Init PROVE TypeOK
    OBVIOUS
  <2>1. orders \in Seq(Order) /\ repeats \in Nat
    BY DEF Init
  <2>2. handoff \in [Order -> [head : Nat, position : Nat]]
    BY DEF Init
  <2>3. attempts \in [Order -> Seq(Attempt)]
    BY DEF Init
  <2>4. ledger \in [Account -> Seq(Entry)]
    <3>1. <<NoSettlement>> \in Seq(Entry)
      BY DEF NoSettlement, Entry
    <3> QED
      BY <3>1 DEF Init
  <2>5. cursor \in [Replay -> Nat]
    <3>1. \A r \in Replay : Len(Stream[r]) \in Nat
      <4> SUFFICES ASSUME NEW r \in Replay PROVE Len(Stream[r]) \in Nat
        OBVIOUS
      <4>1. Stream[r] \in Seq(MarketEvent)
        BY ExecutionAssumption
      <4> QED
        BY <4>1
    <3>2. \A r \in Replay : Seeded[r] \in Nat
      BY <3>1, ExecutionAssumption
    <3> QED
      BY <3>2 DEF Init
  <2>6. createReceipts \in [Order -> Nat] /\ stepReceipts \in [Order -> Seq(Nat)]
    BY DEF Init
  <2> QED
    BY <2>1, <2>2, <2>3, <2>4, <2>5, <2>6 DEF TypeOK
<1> QED
  BY <1>1, TypingStep, PTL DEF Spec

-----------------------------------------------------------------------------
(* What is stored stays *)

\* Appending to one of several sequences changes nothing that was there.
LEMMA AppendKeeps ==
  ASSUME NEW I, NEW S, NEW f \in [I -> Seq(S)], NEW i \in I, NEW e \in S,
         NEW g, g = [f EXCEPT ![i] = Append(@, e)]
  PROVE  /\ \A j \in I : /\ Len(f[j]) \in Nat /\ Len(f[j]) <= Len(g[j])
                         /\ \A n \in 1..Len(f[j]) : g[j][n] = f[j][n]
         /\ \A j \in I \ {i} : g[j] = f[j]
         /\ Len(g[i]) = Len(f[i]) + 1 /\ g[i][Len(f[i]) + 1] = e
<1>1. f[i] \in Seq(S) /\ g[i] = Append(f[i], e)
  OBVIOUS
<1>2. /\ Len(g[i]) = Len(f[i]) + 1 /\ g[i][Len(f[i]) + 1] = e /\ Len(f[i]) \in Nat
      /\ \A n \in 1..Len(f[i]) : g[i][n] = f[i][n]
  BY <1>1
<1>3. \A j \in I \ {i} : g[j] = f[j]
  OBVIOUS
<1>4. ASSUME NEW j \in I
      PROVE  Len(f[j]) \in Nat /\ Len(f[j]) <= Len(g[j]) /\ \A n \in 1..Len(f[j]) : g[j][n] = f[j][n]
  <2>1. f[j] \in Seq(S)
    OBVIOUS
  <2>2. Len(f[j]) \in Nat
    BY <2>1
  <2>3. CASE j = i
    BY <1>2, <2>3
  <2>4. CASE j # i
    BY <1>3, <2>2, <2>4
  <2> QED
    BY <2>3, <2>4
<1> QED
  BY <1>2, <1>3, <1>4

\* An attempt is added behind the others, an account event behind the others.
LEMMA AttemptAdded ==
  ASSUME TypeOK, NEW o \in Order, NEW t \in Attempt, Makes(o, t)
  PROVE  /\ Version(o)' = Version(o) + 1
         /\ attempts'[o][Version(o) + 1] = t
         /\ \A i \in 1..Version(o) : attempts'[o][i] = attempts[o][i]
         /\ \A p \in Order \ {o} : attempts'[p] = attempts[p]
<1>1. attempts \in [Order -> Seq(Attempt)] /\ attempts' = [attempts EXCEPT ![o] = Append(@, t)]
  BY DEF Makes, TypeOK
<1> QED
  BY <1>1, AppendKeeps DEF Version

\* A fill adds its own settlement to its account and touches no other account.
LEMMA FillSettled ==
  ASSUME TypeOK, NEW o \in Order, NEW t \in Attempt, Makes(o, t), t.result = "fill"
  PROVE  /\ Len(ledger'[AccountOf[o]]) = AccountHead(o) + 1
         /\ ledger'[AccountOf[o]][AccountHead(o) + 1] = [order |-> o, version |-> Version(o) + 1]
         /\ \A a \in Account \ {AccountOf[o]} : ledger'[a] = ledger[a]
<1> DEFINE e == [order |-> o, version |-> Version(o) + 1]
<1>1. e \in Entry /\ AccountOf[o] \in Account
  BY NowFacts, OrderFacts DEF Entry
<1>2. ledger \in [Account -> Seq(Entry)]
  BY DEF TypeOK
<1>3. ledger' = [ledger EXCEPT ![AccountOf[o]] = Append(@, e)]
  BY DEF Makes
<1> HIDE DEF e
<1>4. /\ Len(ledger'[AccountOf[o]]) = Len(ledger[AccountOf[o]]) + 1
      /\ ledger'[AccountOf[o]][Len(ledger[AccountOf[o]]) + 1] = e
      /\ \A a \in Account \ {AccountOf[o]} : ledger'[a] = ledger[a]
  BY <1>1, <1>2, <1>3, AppendKeeps
<1> QED
  BY <1>4 DEF AccountHead, e

\* A new order comes after all others.
LEMMA PlacedAppends ==
  ASSUME TypeOK, NEW o \in Order, orders' = Append(orders, o)
  PROVE  /\ Len(orders) \in Nat /\ Len(orders') = Len(orders) + 1
         /\ orders'[Len(orders) + 1] = o
         /\ \A i \in 1..Len(orders) : orders'[i] = orders[i]
         /\ Placed' = Placed \union {o}
<1>1. orders \in Seq(Order)
  BY DEF TypeOK
<1>2. /\ Len(orders) \in Nat /\ Len(orders') = Len(orders) + 1
      /\ orders'[Len(orders) + 1] = o
      /\ \A i \in 1..Len(orders) : orders'[i] = orders[i]
  BY <1>1
<1>3. 1..Len(orders') = (1..Len(orders)) \union {Len(orders) + 1}
  BY <1>2
<1> QED
  BY <1>2, <1>3 DEF Placed

\* Ledgers, cursors and histories only grow, and an order keeps its handoff.
Grows ==
  /\ \A a \in Account : /\ Len(ledger[a]) <= Len(ledger'[a])
                        /\ \A n \in 1..Len(ledger[a]) : ledger'[a][n] = ledger[a][n]
  /\ \A r \in Replay : cursor[r] <= cursor'[r]
  /\ \A o \in Order : /\ Version(o) <= Version(o)'
                      /\ \A i \in 1..Version(o) : attempts'[o][i] = attempts[o][i]
  /\ \A o \in Placed : o \in Placed' /\ handoff'[o] = handoff[o]

\* No transaction takes anything back that was stored.
LEMMA Growing == TypeOK /\ [Next]_vars => Grows
<1> SUFFICES ASSUME TypeOK, [Next]_vars PROVE Grows
  OBVIOUS
<1>0. /\ \A a \in Account : Len(ledger[a]) \in Nat
      /\ \A o \in Order : Version(o) \in Nat
      /\ \A r \in Replay : cursor[r] \in Nat
  BY DEF TypeOK, Version
<1>1. ASSUME NEW o \in Order, CreateOrder(o) PROVE Grows
  <2>1. Placed' = Placed \union {o} /\ o \notin Placed
    BY <1>1, PlacedAppends DEF CreateOrder
  <2>2. \A p \in Placed : p \in Order
    BY DEF TypeOK, Placed
  <2>3. \A p \in Placed : handoff'[p] = handoff[p]
    BY <1>1, <2>1, <2>2 DEF CreateOrder, TypeOK
  <2> QED
    BY <1>0, <1>1, <2>1, <2>3 DEF CreateOrder, Grows, Version
<1>2. ASSUME NEW o \in Order, StepOrder(o) PROVE Grows
  <2> PICK t \in Attempt : Makes(o, t)
    BY <1>2, StepMakes
  <2>1. \A p \in Order : /\ Version(p) <= Version(p)'
                         /\ \A i \in 1..Version(p) : attempts'[p][i] = attempts[p][i]
    <3>1. attempts \in [Order -> Seq(Attempt)] /\ attempts' = [attempts EXCEPT ![o] = Append(@, t)]
      BY DEF Makes, TypeOK
    <3> QED
      BY <3>1, AppendKeeps DEF Version
  <2>2. \A r \in Replay : cursor[r] <= cursor'[r]
    <3>1. t.post = Position(o) \/ t.post = Position(o) + 1
      BY DEF Makes
    <3>2. cursor' = [cursor EXCEPT ![ReplayOf[o]] = t.post]
      BY DEF Makes
    <3> QED
      BY <1>0, <3>1, <3>2, OrderFacts DEF Position, TypeOK
  <2>3. \A a \in Account : /\ Len(ledger[a]) <= Len(ledger'[a])
                           /\ \A n \in 1..Len(ledger[a]) : ledger'[a][n] = ledger[a][n]
    <3> DEFINE e == [order |-> o, version |-> Version(o) + 1]
    <3>1. e \in Entry /\ AccountOf[o] \in Account
      BY NowFacts, OrderFacts DEF Entry
    <3>0. ledger \in [Account -> Seq(Entry)]
      BY DEF TypeOK
    <3>2. ledger' = ledger \/ ledger' = [ledger EXCEPT ![AccountOf[o]] = Append(@, e)]
      BY DEF Makes
    <3> HIDE DEF e
    <3>3. CASE ledger' = ledger
      BY <1>0, <3>3
    <3>4. CASE ledger' = [ledger EXCEPT ![AccountOf[o]] = Append(@, e)]
      BY <3>0, <3>1, <3>4, AppendKeeps
    <3> QED
      BY <3>2, <3>3, <3>4
  <2>4. orders' = orders /\ handoff' = handoff
    BY DEF Makes
  <2> QED
    BY <2>1, <2>2, <2>3, <2>4 DEF Grows, Placed
<1>3. ASSUME NEW a \in Account, AccountMoves(a) PROVE Grows
  <2>1. NoSettlement \in Entry /\ ledger \in [Account -> Seq(Entry)]
    BY DEF NoSettlement, Entry, TypeOK
  <2>2. ledger' = [ledger EXCEPT ![a] = Append(@, NoSettlement)]
    BY <1>3 DEF AccountMoves
  <2>3. \A b \in Account : /\ Len(ledger[b]) <= Len(ledger'[b])
                           /\ \A n \in 1..Len(ledger[b]) : ledger'[b][n] = ledger[b][n]
    BY <2>1, <2>2, AppendKeeps
  <2>4. UNCHANGED <<orders, handoff, attempts, cursor>>
    BY <1>3 DEF AccountMoves
  <2> QED
    BY <1>0, <2>3, <2>4 DEF Grows, Placed, Version
<1>4. ASSUME UNCHANGED <<orders, handoff, attempts, ledger, cursor>> PROVE Grows
  BY <1>0, <1>4 DEF Grows, Placed, Version
<1>5. ASSUME NEW o \in Order, CreateConverges(o) PROVE Grows
  BY <1>4, <1>5 DEF CreateConverges
<1>6. ASSUME NEW o \in Order, NEW i \in 1..Version(o), StepConverges(o, i) PROVE Grows
  BY <1>4, <1>6 DEF StepConverges
<1>7. CASE UNCHANGED vars
  BY <1>4, <1>7 DEF vars
<1> QED
  BY <1>1, <1>2, <1>3, <1>5, <1>6, <1>7 DEF Next

-----------------------------------------------------------------------------
(* Stored histories are accepted *)

\* What was accepted of an attempt is accepted later: the ledger entries it
\* names are still there.
LEMMA AttemptStays ==
  ASSUME TypeOK, Grows, NEW o \in Order, o \in Placed, NEW i \in 1..Version(o), Continues(o, i)
  PROVE  Continues(o, i)' /\ attempts'[o][i] = attempts[o][i] /\ After(o, i - 1)' = After(o, i - 1)
<1> DEFINE b == After(o, i - 1)
<1>1. Version(o) \in Nat /\ AccountHead(o) \in Nat /\ b \in [post : Nat, filled : Nat, head : Nat]
  BY NowFacts
<1>2. attempts'[o][i] = attempts[o][i] /\ handoff'[o] = handoff[o]
  BY DEF Grows
<1>3. i # 1 => attempts'[o][i - 1] = attempts[o][i - 1]
  <2>1. i # 1 => i - 1 \in 1..Version(o)
    BY <1>1
  <2> QED
    BY <2>1 DEF Grows
<1>4. b' = b
  BY <1>2, <1>3 DEF After, Handoff
<1>5. AccountHead(o) <= AccountHead(o)'
      /\ \A n \in 1..AccountHead(o) : ledger'[AccountOf[o]][n] = ledger[AccountOf[o]][n]
  BY OrderFacts DEF Grows, AccountHead
<1>6. AccountHead(o)' \in Nat
  <2>1. AccountHead(o)' = Len(ledger'[AccountOf[o]])
    BY DEF AccountHead
  <2> QED
    BY <1>1, <1>5, <2>1
<1> HIDE DEF b
<1>7. attempts[o][i].result = "fill" =>
        /\ attempts[o][i].head \in 1..AccountHead(o)
        /\ attempts[o][i].head <= AccountHead(o)'
  <2> SUFFICES ASSUME attempts[o][i].result = "fill" PROVE attempts[o][i].head \in 1..AccountHead(o)
                                                        /\ attempts[o][i].head <= AccountHead(o)'
    OBVIOUS
  <2>1. attempts[o][i].head = b.head + 1 /\ attempts[o][i].head <= AccountHead(o)
    BY DEF Continues, b
  <2> QED
    BY <1>1, <1>5, <1>6, <2>1
<1>8. Continues(o, i)'
  BY <1>2, <1>4, <1>5, <1>7 DEF Continues, Events, Executable, FillQuantity, b
<1> QED
  BY <1>2, <1>4, <1>8 DEF b

\* An order nobody stepped is accepted as before.
LEMMA HistoryStays ==
  ASSUME TypeOK, Grows, NEW o \in Order, o \in Placed, attempts'[o] = attempts[o], Replays(o)
  PROVE  Replays(o)'
<1>1. Version(o)' = Version(o) /\ handoff'[o] = handoff[o]
  BY DEF Version, Grows
<1>2. AccountHead(o) <= AccountHead(o)' /\ AccountHead(o) \in Nat
  BY OrderFacts, NowFacts DEF Grows, AccountHead
<1>3. AccountHead(o)' \in Nat
  <2>1. AccountHead(o)' = Len(ledger'[AccountOf[o]])
    BY DEF AccountHead
  <2> QED
    BY <1>2, <2>1
<1>4. \A i \in 1..Version(o) : Continues(o, i)'
  BY AttemptStays DEF Replays
<1>5. handoff[o].head \in 1..AccountHead(o)'
  BY <1>2, <1>3 DEF Replays, TypeOK
<1> QED
  BY <1>1, <1>4, <1>5 DEF Replays, CanHandOff, Ends, Events

\* The order that was stepped is accepted with its new attempt.
LEMMA HistoryContinues ==
  ASSUME TypeOK, Grows, NEW o \in Order, StepOrder(o), NEW t \in Attempt, Makes(o, t),
         t.filled <= Requested[o]
  PROVE  /\ Replays(o)'
         /\ Version(o)' = Version(o) + 1
         /\ attempts'[o][Version(o) + 1] = t
         /\ \A i \in 1..Version(o) : attempts'[o][i] = attempts[o][i]
<1> PICK v \in Nat : v = Version(o)
  BY NowFacts
<1>1. /\ AccountHead(o) \in Nat /\ Position(o) \in Nat
      /\ Now(o) \in [post : Nat, filled : Nat, head : Nat]
  BY NowFacts
<1>2. o \in Placed /\ ~Terminal(o) /\ Replays(o) /\ Current(o)
  BY DEF StepOrder, Working
<1>3. /\ Version(o)' = v + 1 /\ attempts'[o][v + 1] = t
      /\ \A i \in 1..v : attempts'[o][i] = attempts[o][i]
  BY AttemptAdded
<1>4. AccountHead(o) <= AccountHead(o)'
  BY OrderFacts DEF Grows, AccountHead
<1>5. AccountHead(o)' \in Nat
  <2>1. AccountHead(o)' = Len(ledger'[AccountOf[o]])
    BY DEF AccountHead
  <2> QED
    BY <1>1, <1>4, <2>1
<1>6. t.result = "fill" => /\ AccountHead(o)' = AccountHead(o) + 1
                           /\ ledger'[AccountOf[o]][AccountHead(o) + 1] = [order |-> o, version |-> v + 1]
  BY FillSettled DEF AccountHead
<1>7. After(o, v)' = Now(o)
  <2>1. handoff' = handoff
    BY DEF Makes
  <2>2. CASE v = 0
    BY <2>1, <2>2 DEF After, Now, Handoff
  <2>3. CASE v # 0
    <3>1. v \in 1..v
      BY <1>1, <2>3
    <3>2. attempts'[o][v] = attempts[o][v]
      BY <1>3, <3>1
    <3> QED
      BY <2>3, <3>2 DEF After, Now
  <2> QED
    BY <2>2, <2>3
<1>8. Continues(o, v + 1)'
  <2>1. attempts'[o][v + 1] = t /\ After(o, (v + 1) - 1)' = Now(o)
    BY <1>3, <1>7
  <2>2. Now(o).post = Position(o) /\ Now(o).head = AccountHead(o)
    BY <1>2 DEF Current
  <2>3. /\ t.pre = Now(o).post
        /\ IF t.result = "boundary_rejected" THEN t.post = Now(o).post /\ t.reason # "none"
           ELSE t.post = Now(o).post + 1 /\ t.post <= Len(Events(o))
    BY <2>2 DEF Makes
  <2>4. CASE t.result = "fill"
    <3>1. /\ Executable(o, t.post)
          /\ t.filled = Now(o).filled + FillQuantity(o, Now(o).filled)
          /\ t.filled = Requested[o] => t.reason = "none"
          /\ t.post = Len(Events(o)) /\ t.filled < Requested[o] => t.reason = "replay_exhausted"
          /\ t.head = Now(o).head + 1
      BY <2>2, <2>4 DEF Makes
    <3>2. t.head <= AccountHead(o)' /\ ledger'[AccountOf[o]][t.head] = [order |-> o, version |-> v + 1]
      BY <1>1, <1>6, <2>2, <2>4, <3>1
    <3> QED
      BY ONLY <2>1, <2>3, <2>4, <3>1, <3>2, t.filled <= Requested[o]
         DEF Continues, Events, Executable, FillQuantity
  <2>5. CASE t.result # "fill"
    <3>1. t.filled = Now(o).filled /\ t.head = Now(o).head
      BY <2>5 DEF Makes
    <3> QED
      BY ONLY <2>1, <2>3, <2>5, <3>1, t.filled <= Requested[o]
         DEF Continues, Events
  <2> QED
    BY <2>4, <2>5
<1>9. \A i \in 1..v : Continues(o, i)'
  BY <1>2, AttemptStays DEF Replays
<1>10. \A i \in 1..v : ~Ends(o, attempts[o][i])
  <2> SUFFICES ASSUME NEW i \in 1..v PROVE ~Ends(o, attempts[o][i])
    OBVIOUS
  <2>1. CASE i = v
    BY <1>1, <1>2, <2>1 DEF Terminal, Last
  <2>2. CASE i # v
    BY <1>1, <1>2, <2>2 DEF Replays
  <2> QED
    BY <2>1, <2>2
<1>11. Replays(o)'
  <2>1. handoff' = handoff
    BY DEF Makes
  <2>2. handoff[o].head \in 1..AccountHead(o)'
    BY <1>1, <1>2, <1>4, <1>5 DEF Replays, TypeOK
  <2>3. CanHandOff(o, handoff[o].position)'
    BY <1>2, <2>1 DEF Replays, CanHandOff, Events
  <2>4. \A i \in 1..(v + 1) : Continues(o, i)'
    <3> SUFFICES ASSUME NEW i \in 1..(v + 1) PROVE Continues(o, i)'
      OBVIOUS
    <3>1. i \in 1..v \/ i = v + 1
      BY <1>1
    <3> QED
      BY <1>8, <1>9, <3>1
  <2>5. \A i \in 1..((v + 1) - 1) : ~Ends(o, attempts'[o][i])
    BY <1>1, <1>3, <1>10
  <2> QED
    BY <1>3, <2>1, <2>2, <2>3, <2>4, <2>5 DEF Replays, Ends
<1> QED
  BY <1>3, <1>11

\* Accounts have the event of their creation, so a handoff names an event.
HistInv == HistoriesReplay /\ \A a \in Account : Len(ledger[a]) >= 1

\* Stored histories stay readable: an attempt is judged by what was there before it.
LEMMA HistInvInductive == TypeOK /\ HistInv /\ [Next]_vars => HistInv'
<1> SUFFICES ASSUME TypeOK, HistInv, [Next]_vars PROVE HistInv'
  OBVIOUS
<1>0. Grows
  BY Growing
<1>1. \A a \in Account : Len(ledger'[a]) >= 1
  <2> SUFFICES ASSUME NEW a \in Account PROVE Len(ledger'[a]) >= 1
    OBVIOUS
  <2>1. Len(ledger[a]) \in Nat /\ Len(ledger[a]) >= 1 /\ Len(ledger[a]) <= Len(ledger'[a])
    BY <1>0 DEF TypeOK, HistInv, Grows
  <2>2. TypeOK'
    BY TypingStep
  <2>3. Len(ledger'[a]) \in Nat
    BY <2>2 DEF TypeOK
  <2> QED
    BY <2>1, <2>3
<1>2. \A o \in Order : attempts'[o] = attempts[o] /\ o \in Placed => Replays(o)'
  BY <1>0, HistoryStays DEF HistInv, HistoriesReplay
<1>3. ASSUME NEW o \in Order, CreateOrder(o) PROVE HistoriesReplay'
  <2>1. Placed' = Placed \union {o} /\ attempts' = attempts /\ o \notin Placed
    BY <1>3, PlacedAppends DEF CreateOrder
  <2>2. Replays(o)'
    <3>1. attempts'[o] = <<>>
      BY <2>1 DEF HistInv, HistoriesReplay
    <3>2. Version(o)' = 0
      BY <3>1 DEF Version
    <3>3. handoff'[o] = [head |-> AccountHead(o), position |-> Position(o)] /\ ledger' = ledger
      BY <1>3 DEF CreateOrder, TypeOK
    <3>4. AccountHead(o) \in 1..AccountHead(o)'
      <4>1. AccountHead(o)' = AccountHead(o)
        BY <3>3 DEF AccountHead
      <4>2. AccountHead(o) >= 1
        BY OrderFacts DEF HistInv, AccountHead
      <4> QED
        BY <4>1, <4>2, NowFacts
    <3>5. CanHandOff(o, handoff[o].position)'
      BY <1>3, <3>3 DEF CreateOrder, CanHandOff, Events
    <3> QED
      BY <3>2, <3>3, <3>4, <3>5 DEF Replays
  <2> QED
    BY <1>2, <2>1, <2>2 DEF HistInv, HistoriesReplay
<1>4. ASSUME NEW o \in Order, StepOrder(o) PROVE HistoriesReplay'
  <2> PICK t \in Attempt : Makes(o, t) /\ t.filled <= Requested[o]
    BY <1>4, StepMakes
  <2>1. Replays(o)'
    BY <1>0, <1>4, HistoryContinues
  <2>2. Placed' = Placed /\ o \in Placed
    BY <1>4 DEF Makes, StepOrder, Working, Placed
  <2>3. \A p \in Order \ {o} : attempts'[p] = attempts[p]
    BY DEF Makes, TypeOK
  <2> QED
    BY <1>2, <2>1, <2>2, <2>3 DEF HistInv, HistoriesReplay
<1>5. ASSUME UNCHANGED <<orders, attempts>> PROVE HistoriesReplay'
  <2>1. Placed' = Placed
    BY <1>5 DEF Placed
  <2> QED
    BY <1>2, <1>5, <2>1 DEF HistInv, HistoriesReplay
<1>6. HistoriesReplay'
  BY <1>3, <1>4, <1>5 DEF Next, CreateConverges, StepConverges, AccountMoves, vars
<1> QED
  BY <1>1, <1>6 DEF HistInv

\* Whatever is stored of an order is accepted by the code that reads it back.
THEOREM Histories == Spec => []HistoriesReplay
<1>1. Init => HistInv
  BY DEF Init, HistInv, HistoriesReplay, Placed
<1>2. Spec => []HistInv
  BY <1>1, HistInvInductive, Typing, PTL DEF Spec
<1>3. HistInv => HistoriesReplay
  BY DEF HistInv
<1> QED
  BY <1>2, <1>3, PTL

-----------------------------------------------------------------------------
(* One working order per market *)

\* Orders are created once, and every order of a market but its last one has ended.
QueueInv ==
  /\ \A i, j \in 1..Len(orders) : orders[i] = orders[j] => i = j
  /\ \A i, j \in 1..Len(orders) :
       i < j /\ SameMarket(orders[i], orders[j]) => Terminal(orders[i])

\* An order that nobody stepped, or that was over, is as over as before.
LEMMA TerminalStays ==
  ASSUME TypeOK, [Next]_vars, NEW o \in Order, Terminal(o)
  PROVE  attempts'[o] = attempts[o] /\ Terminal(o)'
<1>1. attempts'[o] = attempts[o]
  <2>1. ASSUME NEW p \in Order, StepOrder(p) PROVE attempts'[o] = attempts[o]
    <3>1. p # o
      BY <2>1 DEF StepOrder, Working
    <3>2. PICK t \in Attempt : Makes(p, t)
      BY <2>1, StepMakes
    <3> QED
      BY <3>1, <3>2 DEF Makes, TypeOK
  <2> QED
    BY <2>1 DEF Next, CreateOrder, CreateConverges, StepConverges, AccountMoves, vars
<1> QED
  BY <1>1 DEF Terminal, Version, Last, Ends

\* Only the newest order of a market works: one is created when the newest has ended.
LEMMA QueueInvInductive == TypeOK /\ QueueInv /\ [Next]_vars => QueueInv'
<1> SUFFICES ASSUME TypeOK, QueueInv, [Next]_vars PROVE QueueInv'
  OBVIOUS
<1>1. \A i \in 1..Len(orders) : orders[i] \in Order
  BY DEF TypeOK
<1>2. CASE orders' = orders
  BY <1>1, <1>2, TerminalStays DEF QueueInv, SameMarket
<1>3. ASSUME NEW o \in Order, CreateOrder(o) PROVE QueueInv'
  <2> DEFINE n == Len(orders)
  <2>1. /\ n \in Nat /\ Len(orders') = n + 1 /\ orders'[n + 1] = o
        /\ \A i \in 1..n : orders'[i] = orders[i]
    BY <1>3, PlacedAppends DEF CreateOrder
  <2>2. \A i \in 1..n : orders[i] # o
    BY <1>3 DEF CreateOrder, Placed
  <2>3. ASSUME NEW i \in 1..n, SameMarket(orders[i], o) PROVE Terminal(orders[i])
    <3> SUFFICES ASSUME ~Terminal(orders[i]) PROVE FALSE
      OBVIOUS
    <3>1. {j \in (i + 1)..n : SameMarket(orders[j], o)} = {}
      <4> SUFFICES ASSUME NEW j \in (i + 1)..n, SameMarket(orders[j], o) PROVE FALSE
        OBVIOUS
      <4>1. j \in 1..n /\ i < j
        BY <2>1
      <4>2. SameMarket(orders[i], orders[j])
        BY <2>3 DEF SameMarket
      <4>3. \A k, l \in 1..Len(orders) :
              k < l /\ SameMarket(orders[k], orders[l]) => Terminal(orders[k])
        BY DEF QueueInv
      <4> QED
        BY <4>1, <4>2, <4>3
    <3>2. Cardinality({j \in (i + 1)..n : SameMarket(orders[j], o)}) < ListLimit
      <4>1. Cardinality({}) = 0
        BY FS_EmptySet
      <4>2. 0 < ListLimit
        BY ExecutionAssumption
      <4> QED
        BY <3>1, <4>1, <4>2
    <3>3. orders[i] \in Listed(o)
      BY <2>3, <3>2 DEF Listed
    <3> QED
      BY <1>3, <3>3 DEF CreateOrder
  <2>4. \A p \in Order : Terminal(p) => Terminal(p)'
    BY TerminalStays
  <2>5. ASSUME NEW i \in 1..(n + 1), NEW j \in 1..(n + 1), orders'[i] = orders'[j] PROVE i = j
    <3>1. (i \in 1..n \/ i = n + 1) /\ (j \in 1..n \/ j = n + 1)
      BY <2>1
    <3> QED
      BY <2>1, <2>2, <2>5, <3>1 DEF QueueInv
  <2>6. ASSUME NEW i \in 1..(n + 1), NEW j \in 1..(n + 1), i < j, SameMarket(orders'[i], orders'[j])
        PROVE  Terminal(orders[i])'
    <3>1. i \in 1..n /\ (j \in 1..n \/ j = n + 1)
      BY <2>1, <2>6
    <3>2. Terminal(orders[i])
      BY <2>1, <2>3, <2>6, <3>1 DEF QueueInv
    <3>3. PICK p \in Order : p = orders[i] /\ p = orders'[i]
      BY <1>1, <2>1, <3>1
    <3>4. Terminal(p)'
      BY <2>4, <3>2, <3>3
    <3> QED
      BY <3>3, <3>4
  <2> QED
    BY <2>1, <2>5, <2>6 DEF QueueInv, SameMarket
<1> QED
  BY <1>2, <1>3 DEF Next, CreateConverges, StepOrder, RejectAtBoundary, NoFill, RejectByRisk, Fill,
                    Commit, StepConverges, AccountMoves, vars

\* Two orders never work on one account, replay and session, although a new order
\* looks only at the newest ones of its market: the newest is the last to end.
THEOREM OneWorking == Spec => []OneWorkingOrder
<1>1. Init => QueueInv
  BY DEF Init, QueueInv
<1>2. Spec => []QueueInv
  BY <1>1, QueueInvInductive, Typing, PTL DEF Spec
<1>3. TypeOK /\ QueueInv => OneWorkingOrder
  <2> SUFFICES ASSUME TypeOK, QueueInv, NEW o \in Order, NEW p \in Order,
                      Working(o), Working(p), SameMarket(o, p)
               PROVE  o = p
    BY DEF OneWorkingOrder
  <2>1. PICK i \in 1..Len(orders) : orders[i] = o
    BY DEF Working, Placed
  <2>2. PICK j \in 1..Len(orders) : orders[j] = p
    BY DEF Working, Placed
  <2>3. Len(orders) \in Nat
    BY DEF TypeOK
  <2>4. ~(i < j) /\ ~(j < i)
    BY <2>1, <2>2 DEF QueueInv, Working, SameMarket
  <2> QED
    BY <2>1, <2>2, <2>3, <2>4
<1> QED
  BY <1>2, <1>3, Typing, PTL

-----------------------------------------------------------------------------
(* Settlements *)

\* The account event e, number n of a, is of a fill that is made, and links to it.
Settles(made, a, n, e) ==
  /\ AccountOf[e.order] = a
  /\ e.version \in 1..Len(made[e.order])
  /\ made[e.order][e.version].result = "fill"
  /\ made[e.order][e.version].head = n

\* An account event that settles names the attempt whose link names it.
SettledInv ==
  \A a \in Account : \A n \in 1..Len(ledger[a]) :
    ledger[a][n].order # NoOrder => Settles(attempts, a, n, ledger[a][n])

\* Settlements stay those of fills, each at the version its link names.
LEMMA SettledInvInductive == TypeOK /\ SettledInv /\ [Next]_vars => SettledInv'
<1> SUFFICES ASSUME TypeOK, SettledInv, [Next]_vars,
                    NEW a \in Account, NEW n \in 1..Len(ledger'[a]),
                    NEW e, e = ledger'[a][n], e.order # NoOrder
             PROVE  Settles(attempts', a, n, e)
  BY DEF SettledInv
<1>0. Grows
  BY Growing
<1>1. Len(ledger[a]) \in Nat /\ Len(ledger'[a]) \in Nat /\ TypeOK'
  BY TypingStep DEF TypeOK
<1>2. CASE n \in 1..Len(ledger[a])
  <2>1. e = ledger[a][n]
    BY <1>0, <1>2 DEF Grows
  <2>0. Settles(attempts, a, n, e)
    BY <1>2, <2>1 DEF SettledInv
  <2>2. /\ AccountOf[e.order] = a /\ e.version \in 1..Version(e.order)
        /\ attempts[e.order][e.version].result = "fill"
        /\ attempts[e.order][e.version].head = n
    BY <2>0 DEF Settles, Version
  <2>3. e \in Entry
    BY <1>2, <2>1 DEF TypeOK
  <2>4. e.order \in Order
    BY <2>3 DEF Entry
  <2>5. Version(e.order) <= Version(e.order)' /\ Version(e.order) \in Nat
        /\ attempts'[e.order][e.version] = attempts[e.order][e.version]
    BY <1>0, <2>2, <2>4, NowFacts DEF Grows
  <2>6. Version(e.order)' \in Nat
    BY <1>1, <2>4 DEF TypeOK, Version
  <2>7. e.version \in 1..Version(e.order)'
    <3>1. PICK v \in Nat, w \in Nat : v = Version(e.order) /\ w = Version(e.order)'
      BY <2>5, <2>6
    <3>2. v <= w /\ e.version \in 1..v
      BY <2>2, <2>5, <3>1
    <3>3. e.version \in 1..w
      BY <3>2
    <3> QED
      BY <3>1, <3>3
  <2> QED
    BY <2>2, <2>5, <2>7 DEF Settles, Version
<1>3. CASE n \notin 1..Len(ledger[a])
  <2>1. ASSUME NEW o \in Order, StepOrder(o) PROVE Settles(attempts', a, n, e)
    <3> PICK t \in Attempt : Makes(o, t)
      BY <2>1, StepMakes
    <3>1. CASE t.result # "fill"
      BY <1>3, <3>1 DEF Makes
    <3>2. CASE t.result = "fill"
      <4>1. a = AccountOf[o]
        BY <1>3, <3>2, FillSettled
      <4>2. n = AccountHead(o) + 1
        <5>1. Len(ledger'[a]) = Len(ledger[a]) + 1
          BY <3>2, <4>1, FillSettled DEF AccountHead
        <5> QED
          BY <1>1, <1>3, <4>1, <5>1 DEF AccountHead
      <4>3. e = [order |-> o, version |-> Version(o) + 1]
        BY <3>2, <4>1, <4>2, FillSettled
      <4>4. t.head = n
        BY <3>2, <4>2 DEF Makes
      <4>5. Version(o) \in Nat /\ Version(o)' = Version(o) + 1 /\ attempts'[o][Version(o) + 1] = t
        BY AttemptAdded, NowFacts
      <4>6. e.order = o /\ e.version = Version(o) + 1
        BY <4>3
      <4>7. e.version \in 1..Version(o)' /\ t.result = "fill"
        BY <3>2, <4>5, <4>6
      <4>8. attempts'[e.order][e.version] = t
        BY <4>5, <4>6
      <4> QED
        BY <4>1, <4>4, <4>6, <4>7, <4>8 DEF Settles, Version
    <3> QED
      BY <3>1, <3>2
  <2>2. ASSUME NEW b \in Account, AccountMoves(b) PROVE FALSE
    <3>1. NoSettlement \in Entry /\ ledger \in [Account -> Seq(Entry)]
      BY DEF NoSettlement, Entry, TypeOK
    <3>2. ledger' = [ledger EXCEPT ![b] = Append(@, NoSettlement)]
      BY <2>2 DEF AccountMoves
    <3>3. a = b
      BY <1>3, <3>1, <3>2, AppendKeeps
    <3>4. n = Len(ledger[b]) + 1
      BY <1>1, <1>3, <3>1, <3>2, <3>3, AppendKeeps
    <3>5. e = NoSettlement
      BY <3>1, <3>2, <3>3, <3>4, AppendKeeps
    <3> QED
      BY <3>5 DEF NoSettlement
  <2> QED
    BY <1>3, <2>1, <2>2 DEF Next, CreateOrder, CreateConverges, StepConverges, vars
<1> QED
  BY <1>2, <1>3

\* Each fill is settled by one account event, the one its link names, and every
\* settlement of an account is that of a fill.
THEOREM Settlements == Spec => []FillsSettledOnce
<1>1. Init => HistInv /\ SettledInv
  BY DEF Init, HistInv, HistoriesReplay, Placed, SettledInv, NoSettlement
<1>2. Spec => [](HistInv /\ SettledInv)
  BY <1>1, HistInvInductive, SettledInvInductive, Typing, PTL DEF Spec
<1>3. TypeOK /\ HistInv /\ SettledInv => FillsSettledOnce
  <2> SUFFICES ASSUME TypeOK, HistInv, SettledInv PROVE FillsSettledOnce
    OBVIOUS
  <2>1. ASSUME NEW o \in Order, NEW i \in 1..Version(o), attempts[o][i].result = "fill"
        PROVE  {n \in 1..AccountHead(o) : ledger[AccountOf[o]][n] = [order |-> o, version |-> i]}
                 = {attempts[o][i].head}
    <3> DEFINE e == [order |-> o, version |-> i]
    <3>1. Continues(o, i)
      <4>1. o \in Placed
        BY DEF HistInv, HistoriesReplay, Version
      <4> QED
        BY <4>1 DEF HistInv, HistoriesReplay, Replays
    <3>2. /\ attempts[o][i].head \in 1..AccountHead(o)
          /\ ledger[AccountOf[o]][attempts[o][i].head] = e
      <4>1. After(o, i - 1).head \in Nat /\ AccountHead(o) \in Nat
        <5>1. i - 1 \in 0..Version(o)
          BY NowFacts
        <5> QED
          BY <5>1, NowFacts
      <4> QED
        BY <2>1, <3>1, <4>1 DEF Continues
    <3>3. ASSUME NEW n \in 1..AccountHead(o), ledger[AccountOf[o]][n] = e
          PROVE  n = attempts[o][i].head
      <4>1. e.order = o /\ e.version = i /\ o # NoOrder
        BY ExecutionAssumption
      <4> HIDE DEF e
      <4>2. AccountOf[o] \in Account /\ n \in 1..Len(ledger[AccountOf[o]])
        BY <3>3, OrderFacts DEF AccountHead
      <4>3. e.order # NoOrder => attempts[e.order][e.version].head = n
        BY <3>3, <4>1, <4>2 DEF SettledInv, Settles
      <4> QED
        BY <4>1, <4>3
    <3> HIDE DEF e
    <3> QED
      BY <3>2, <3>3 DEF e
  <2>2. \A a \in Account : \A n \in 1..Len(ledger[a]) :
          LET e == ledger[a][n] IN
          e.order # NoOrder => /\ AccountOf[e.order] = a
                               /\ e.version \in 1..Version(e.order)
                               /\ attempts[e.order][e.version].result = "fill"
    <3> SUFFICES ASSUME NEW a \in Account, NEW n \in 1..Len(ledger[a]),
                        NEW e, e = ledger[a][n], e.order # NoOrder
                 PROVE  /\ AccountOf[e.order] = a
                        /\ e.version \in 1..Version(e.order)
                        /\ attempts[e.order][e.version].result = "fill"
      OBVIOUS
    <3>1. Settles(attempts, a, n, e)
      BY DEF SettledInv
    <3> QED
      BY <3>1 DEF Settles, Version
  <2> QED
    BY <2>1, <2>2 DEF FillsSettledOnce
<1> QED
  BY <1>2, <1>3, Typing, PTL

-----------------------------------------------------------------------------
(* The chain an order continues *)

\* Stored history changes by the creation of an order or by a Step.
LEMMA StepKinds ==
  ASSUME TypeOK, [Next]_vars
  PROVE  \/ \E o \in Order : CreateOrder(o)
         \/ \E o \in Order : StepOrder(o) /\ \E t \in Attempt : Makes(o, t)
         \/ UNCHANGED <<orders, handoff, attempts, cursor>>
BY StepMakes DEF Next, CreateConverges, StepConverges, AccountMoves, vars

\* What a Step leaves: the order has left the account and the replay where they are.
LEMMA StepLeaves ==
  ASSUME TypeOK, NEW o \in Order, StepOrder(o), NEW t \in Attempt, Makes(o, t)
  PROVE  /\ Version(o)' = Version(o) + 1
         /\ Now(o)' = [post |-> t.post, filled |-> t.filled, head |-> t.head]
         /\ Position(o)' = t.post /\ AccountHead(o)' = t.head
         /\ Terminal(o)' = Ends(o, t)
<1> PICK v \in Nat : v = Version(o)
  BY NowFacts
<1>1. Version(o)' = v + 1 /\ attempts'[o][v + 1] = t
  BY AttemptAdded
<1>2. Now(o)' = [post |-> t.post, filled |-> t.filled, head |-> t.head]
  BY <1>1 DEF Now, After
<1>3. Position(o)' = t.post
  BY OrderFacts DEF Makes, TypeOK, Position
<1>4. AccountHead(o)' = t.head
  <2>1. CASE t.result = "fill"
    BY <2>1, FillSettled DEF Makes, AccountHead
  <2>2. CASE t.result # "fill"
    BY <2>2 DEF Makes, AccountHead, StepOrder, Current
  <2> QED
    BY <2>1, <2>2
<1>5. Terminal(o)' = Ends(o, t)
  <2>1. Last(o)' = t
    BY <1>1 DEF Last
  <2> QED
    BY <1>1, <2>1 DEF Terminal, Ends
<1> QED
  BY <1>1, <1>2, <1>3, <1>4, <1>5

\* What is left alone of an order that nobody stepped.
LEMMA NowStays ==
  ASSUME TypeOK, Grows, NEW o \in Order, o \in Placed, attempts'[o] = attempts[o]
  PROVE  /\ Version(o)' = Version(o) /\ Now(o)' = Now(o) /\ Terminal(o)' = Terminal(o)
         /\ AccountHead(o) <= AccountHead(o)' /\ Position(o) <= Position(o)'
<1>1. Version(o)' = Version(o) /\ handoff'[o] = handoff[o]
  BY DEF Version, Grows
<1>2. Now(o)' = Now(o)
  BY <1>1 DEF Now, After, Handoff
<1>3. Terminal(o)' = Terminal(o)
  BY <1>1 DEF Terminal, Last, Ends
<1>4. AccountHead(o) <= AccountHead(o)' /\ Position(o) <= Position(o)'
  BY OrderFacts DEF Grows, AccountHead, Position
<1> QED
  BY <1>1, <1>2, <1>3, <1>4

\* Accounts and replays are never behind where an order left them, and an order
\* that works has consumed an event with each attempt, and not the last one.
ChainInv ==
  \A o \in Placed :
    /\ Now(o).head <= AccountHead(o) /\ Now(o).post <= Position(o)
    /\ Terminal(o) \/ /\ Now(o).post = handoff[o].position + Version(o)
                      /\ Now(o).post < Len(Events(o))

\* An order on its chain stays on it only by its own Steps.
LEMMA ChainInvInductive == TypeOK /\ HistInv /\ ChainInv /\ [Next]_vars => ChainInv'
<1> SUFFICES ASSUME TypeOK, HistInv, ChainInv, [Next]_vars PROVE ChainInv'
  OBVIOUS
<1>0. Grows /\ TypeOK' /\ Placed \subseteq Order
  <2>1. Placed \subseteq Order
    <3>1. orders \in Seq(Order)
      BY DEF TypeOK
    <3> QED
      BY ONLY <3>1 DEF Placed
  <2> QED
    BY <2>1, Growing, TypingStep
<1> DEFINE Good(o) == /\ Now(o).head <= AccountHead(o) /\ Now(o).post <= Position(o)
                      /\ Terminal(o) \/ /\ Now(o).post = handoff[o].position + Version(o)
                                        /\ Now(o).post < Len(Events(o))
<1>1. ASSUME NEW o \in Order, o \in Placed, attempts'[o] = attempts[o] PROVE Good(o)'
  <2>1. /\ Version(o)' = Version(o) /\ Now(o)' = Now(o) /\ Terminal(o)' = Terminal(o)
        /\ AccountHead(o) <= AccountHead(o)' /\ Position(o) <= Position(o)'
    BY <1>0, <1>1, NowStays
  <2>2. Good(o)
    BY <1>1 DEF ChainInv
  <2>3. /\ AccountHead(o) \in Nat /\ Position(o) \in Nat
        /\ Now(o) \in [post : Nat, filled : Nat, head : Nat]
    BY NowFacts
  <2>4. AccountHead(o)' \in Nat /\ Position(o)' \in Nat
    <3>1. ledger' \in [Account -> Seq(Entry)] /\ cursor' \in [Replay -> Nat]
      BY <1>0 DEF TypeOK
    <3>2. AccountOf[o] \in Account /\ ReplayOf[o] \in Replay
      BY OrderFacts
    <3>3. ledger'[AccountOf[o]] \in Seq(Entry) /\ cursor'[ReplayOf[o]] \in Nat
      BY ONLY <3>1, <3>2
    <3> QED
      BY <3>3 DEF AccountHead, Position
  <2>5. handoff'[o] = handoff[o]
    BY <1>0, <1>1 DEF Grows
  <2> QED
    <3> DEFINE a == Now(o)
               b == AccountHead(o)
               c == Position(o)
    <3>1. /\ a'.head <= b' /\ a'.post <= c'
          /\ a'.post = a.post
      <4>1. /\ a.head <= b /\ a.post <= c
            /\ a' = a /\ b <= b' /\ c <= c'
            /\ a.head \in Nat /\ a.post \in Nat
            /\ b \in Nat /\ c \in Nat /\ b' \in Nat /\ c' \in Nat
        BY <2>1, <2>2, <2>3, <2>4
      <4> QED
        BY ONLY <4>1
    <3> QED
      BY <2>1, <2>2, <2>5, <3>1 DEF Events
<1>2. ASSUME NEW o \in Order, CreateOrder(o) PROVE ChainInv'
  <2>1. Placed' = Placed \union {o} /\ attempts' = attempts /\ o \notin Placed
    BY <1>2, PlacedAppends DEF CreateOrder
  <2>2. Version(o)' = 0
    BY <2>1 DEF HistInv, HistoriesReplay, Version
  <2>3. /\ handoff'[o] = [head |-> AccountHead(o), position |-> Position(o)]
        /\ AccountHead(o)' = AccountHead(o) /\ Position(o)' = Position(o)
    BY <1>2 DEF CreateOrder, TypeOK, AccountHead, Position
  <2>4. Position(o) < Len(Events(o)) /\ AccountHead(o) \in Nat /\ Position(o) \in Nat
    BY <1>2, NowFacts, OrderFacts DEF CreateOrder, CanHandOff
  <2>5. Now(o)' = [post |-> Position(o), filled |-> 0, head |-> AccountHead(o)]
    BY <2>2, <2>3 DEF Now, After, Handoff
  <2>6. Good(o)'
    BY <2>2, <2>3, <2>4, <2>5 DEF Events
  <2> QED
    BY <1>0, <1>1, <2>1, <2>6 DEF ChainInv
<1>3. ASSUME NEW o \in Order, StepOrder(o), NEW t \in Attempt, Makes(o, t) PROVE ChainInv'
  <2>1. Placed' = Placed /\ o \in Placed /\ ~Terminal(o) /\ handoff' = handoff
    BY <1>3 DEF Makes, StepOrder, Working, Placed
  <2>2. \A p \in Order \ {o} : attempts'[p] = attempts[p]
    BY <1>3 DEF Makes, TypeOK
  <2>3. /\ Version(o)' = Version(o) + 1
        /\ Now(o)' = [post |-> t.post, filled |-> t.filled, head |-> t.head]
        /\ Position(o)' = t.post /\ AccountHead(o)' = t.head
        /\ Terminal(o)' = Ends(o, t)
    BY <1>3, StepLeaves
  <2>4. /\ Now(o).post = handoff[o].position + Version(o)
        /\ Now(o).post = Position(o) /\ Position(o) \in Nat /\ Version(o) \in Nat
        /\ handoff[o].position \in Nat /\ Len(Events(o)) \in Nat
    BY <1>3, <2>1, NowFacts, OrderFacts DEF ChainInv, StepOrder, Current, TypeOK
  <2>5. Ends(o, t) \/ (t.post = Position(o) + 1 /\ t.post < Len(Events(o)))
    <3>1. CASE t.result = "boundary_rejected"
      <4>1. t.reason # "none"
        BY <1>3, <3>1 DEF Makes
      <4> QED
        BY <4>1 DEF Ends
    <3>2. CASE t.result # "boundary_rejected"
      <4>1. /\ t.post = Position(o) + 1 /\ t.post <= Len(Events(o))
            /\ t.post = Len(Events(o)) => Ends(o, t)
        BY <1>3, <3>2 DEF Makes
      <4> QED
        BY <2>4, <4>1
    <3> QED
      BY <3>1, <3>2
  <2>6. t.post \in Nat /\ t.head \in Nat
    BY DEF Attempt
  <2>7. Good(o)'
    <3>1. /\ Now(o)'.head = t.head /\ Now(o)'.post = t.post
      BY <2>3
    <3>2. t.head <= AccountHead(o)' /\ t.post <= Position(o)'
      BY <2>3, <2>6
    <3>3. Terminal(o)' \/ /\ t.post = handoff'[o].position + Version(o)'
                          /\ t.post < Len(Events(o)')
      <4>1. CASE Ends(o, t)
        BY <2>3, <4>1
      <4>2. CASE ~Ends(o, t)
        <5>1. t.post = Position(o) + 1 /\ t.post < Len(Events(o))
          BY <2>5, <4>2
        <5>2. t.post = handoff[o].position + (Version(o) + 1)
          BY <2>4, <5>1
        <5> QED
          BY <2>1, <2>3, <5>1, <5>2 DEF Events
      <4> QED
        BY <4>1, <4>2
    <3> QED
      BY <3>1, <3>2, <3>3
  <2> QED
    BY <1>0, <1>1, <2>1, <2>2, <2>7 DEF ChainInv
<1>4. ASSUME UNCHANGED <<orders, handoff, attempts, cursor>> PROVE ChainInv'
  BY <1>0, <1>1, <1>4 DEF ChainInv, Placed
<1> QED
  BY <1>2, <1>3, <1>4, StepKinds

\* The chain invariant, with what it rests on, holds always.
LEMMA Chains == Spec => [](TypeOK /\ HistInv /\ ChainInv)
<1>1. Init => HistInv /\ ChainInv
  BY DEF Init, HistInv, HistoriesReplay, ChainInv, Placed
<1> QED
  BY <1>1, HistInvInductive, ChainInvInductive, Typing, PTL DEF Spec

\* A working order on an undisturbed chain has an event to consume.
THEOREM HasEvent == Spec => []WorkingHasEvent
<1>1. ChainInv => WorkingHasEvent
  BY DEF ChainInv, WorkingHasEvent, Working, Current
<1> QED
  BY <1>1, Chains, PTL

\* A chain that has been left is never found again.
LEMMA ChainMovesOn ==
  ASSUME TypeOK, TypeOK', Grows, ChainInv, NEW o \in Order, o \in Placed,
         attempts'[o] = attempts[o], Current(o)'
  PROVE  Current(o)
<1>1. /\ Now(o)' = Now(o) /\ AccountHead(o) <= AccountHead(o)' /\ Position(o) <= Position(o)'
  BY NowStays
<1>2. /\ AccountHead(o) \in Nat /\ Position(o) \in Nat
      /\ Now(o) \in [post : Nat, filled : Nat, head : Nat]
  BY NowFacts
<1>3. AccountHead(o)' \in Nat /\ Position(o)' \in Nat
  BY OrderFacts DEF AccountHead, Position, TypeOK
<1>4. Now(o).head <= AccountHead(o) /\ Now(o).post <= Position(o)
  BY DEF ChainInv
<1>5. AccountHead(o)' = Now(o).head /\ Position(o)' = Now(o).post
  BY <1>1 DEF Current
<1>6. AccountHead(o) = Now(o).head /\ Position(o) = Now(o).post
  <2>1. Now(o).head \in Nat /\ Now(o).post \in Nat
    BY <1>2
  <2> QED
    BY ONLY <1>1, <1>2, <1>3, <1>4, <1>5, <2>1
<1> QED
  BY <1>6 DEF Current

\* An order that works has made fewer attempts than its replay has other events.
LEMMA WorkLeft ==
  ASSUME TypeOK, HistInv, ChainInv, NEW o \in Order, o \in Placed, ~Terminal(o)
  PROVE  Version(o) < Len(Events(o)) - 1
<1>1. /\ Now(o).post = handoff[o].position + Version(o)
      /\ Now(o).post < Len(Events(o))
  BY DEF ChainInv
<1>2. handoff[o].position \in 1..(Len(Events(o)) - 1)
  BY DEF HistInv, HistoriesReplay, Replays, CanHandOff
<1>3. Len(Events(o)) \in Nat /\ Version(o) \in Nat
  BY NowFacts, OrderFacts
<1> QED
  BY <1>1, <1>2, <1>3

\* Every order keeps the contract of OrderAuthority, the one a runtime relies on.
THEOREM Contract == Spec => OrdersKeepContract
<1>1. ASSUME Init, NEW o \in Order PROVE Authority(o)!Init
  <2>1. Version(o) = 0 /\ o \notin Placed
    BY <1>1 DEF Init, Version, Placed
  <2>2. View(o) = [version |-> 0, status |-> "working", chain |-> "current"]
    BY <2>1 DEF View, Terminal
  <2> QED
    BY <2>2 DEF Authority!Init
<1>2. ASSUME TypeOK, HistInv, ChainInv, [Next]_vars, NEW o \in Order
      PROVE  [Authority(o)!Next]_(View(o))
  <2>0. Grows /\ TypeOK'
    BY <1>2, Growing, TypingStep
  <2>1. ASSUME attempts'[o] = attempts[o], o \in Placed
        PROVE  [Authority(o)!Next]_(View(o))
    <3>1. Version(o)' = Version(o) /\ Terminal(o)' = Terminal(o) /\ o \in Placed'
      BY <1>2, <2>0, <2>1, NowStays DEF Grows
    <3>2. Current(o)' => Current(o)
      BY <1>2, <2>0, <2>1, ChainMovesOn
    <3>3. \/ View(o)' = View(o)
          \/ /\ View(o).chain = "current"
             /\ View(o)' = [View(o) EXCEPT !.chain = "stale"]
      <4>1. CASE Current(o)' \/ ~Current(o)
        BY <2>1, <3>1, <3>2, <4>1 DEF View
      <4>2. CASE ~Current(o)' /\ Current(o)
        BY <2>1, <3>1, <4>2 DEF View
      <4> QED
        BY <4>1, <4>2
    <3> QED
      BY <3>3 DEF Authority!Next, Authority!Diverge
  <2>2. ASSUME attempts'[o] = attempts[o], o \notin Placed, o \notin Placed'
        PROVE  View(o)' = View(o)
    BY <2>2 DEF View, Version, Terminal, Last, Ends
  <2>3. ASSUME NEW q \in Order, CreateOrder(q) PROVE [Authority(o)!Next]_(View(o))
    <3>1. Placed' = Placed \union {q} /\ attempts' = attempts /\ q \notin Placed
      BY <1>2, <2>3, PlacedAppends DEF CreateOrder
    <3>2. CASE q # o
      BY <2>1, <2>2, <3>1, <3>2
    <3>3. CASE q = o
      <4>1. Version(o) = 0 /\ Version(o)' = 0
        BY <1>2, <3>1, <3>3 DEF HistInv, HistoriesReplay, Version
      <4>2. ~Terminal(o) /\ ~Terminal(o)'
        BY <4>1 DEF Terminal
      <4>3. Current(o)'
        <5>1. /\ handoff'[o] = [head |-> AccountHead(o), position |-> Position(o)]
              /\ AccountHead(o)' = AccountHead(o) /\ Position(o)' = Position(o)
          BY <1>2, <2>3, <3>3 DEF CreateOrder, TypeOK, AccountHead, Position
        <5>2. Now(o)' = [post |-> Position(o), filled |-> 0, head |-> AccountHead(o)]
          BY <4>1, <5>1 DEF Now, After, Handoff
        <5> QED
          BY <5>1, <5>2 DEF Current
      <4> QED
        BY <3>1, <3>3, <4>1, <4>2, <4>3 DEF View
    <3> QED
      BY <3>2, <3>3
  <2>4. ASSUME NEW q \in Order, StepOrder(q), NEW t \in Attempt, Makes(q, t)
        PROVE  [Authority(o)!Next]_(View(o))
    <3>1. Placed' = Placed /\ q \in Placed /\ ~Terminal(q) /\ Current(q)
      BY <2>4 DEF Makes, StepOrder, Working, Placed
    <3>2. CASE q # o
      <4>1. attempts'[o] = attempts[o]
        BY <1>2, <2>4, <3>2 DEF Makes, TypeOK
      <4> QED
        BY <2>1, <2>2, <3>1, <4>1
    <3>3. CASE q = o
      <4>1. Authority(o)!Attempt
        <5>1. Version(o)' = Version(o) + 1 /\ Current(o)'
          BY <1>2, <2>4, <3>3, StepLeaves DEF Current
        <5>2. Version(o) < Len(Events(o)) - 1
          BY <1>2, <3>1, <3>3, WorkLeft
        <5>3. Version(o) + 1 = Len(Events(o)) - 1 => Terminal(o)'
          <6>1. ~Terminal(o)' => Version(o)' < Len(Events(o)) - 1
            <7> SUFFICES ASSUME ~Terminal(o)' PROVE Version(o)' < Len(Events(o)) - 1
              OBVIOUS
            <7>1. HistInv' /\ ChainInv' /\ o \in Placed'
              BY <1>2, <3>1, <3>3, HistInvInductive, ChainInvInductive
            <7>2. Now(o)'.post = handoff'[o].position + Version(o)' /\ Now(o)'.post < Len(Events(o))
              BY <7>1 DEF ChainInv, Events
            <7>3. handoff'[o].position \in 1..(Len(Events(o)) - 1)
              BY <7>1 DEF HistInv, HistoriesReplay, Replays, CanHandOff, Events
            <7>4. Version(o) \in Nat /\ Version(o)' \in Nat /\ Len(Events(o)) \in Nat
              <8>1. Version(o) \in Nat
                BY <1>2, NowFacts
              <8>2. Len(Events(o)) \in Nat
                BY OrderFacts
              <8> QED
                BY ONLY <5>1, <8>1, <8>2
            <7>5. handoff'[o].position >= 1 /\ handoff'[o].position \in Nat
              BY <7>3, <7>4
            <7> QED
              BY ONLY <7>2, <7>4, <7>5
          <6> QED
            BY <1>2, <5>1, <6>1, NowFacts, OrderFacts
        <5>4. View(o) = [version |-> Version(o), status |-> "working", chain |-> "current"]
          BY <3>1, <3>3 DEF View
        <5>5. View(o)' = [version |-> Version(o) + 1,
                          status |-> IF Terminal(o)' THEN "terminal" ELSE "working",
                          chain |-> "current"]
          BY <5>1 DEF View
        <5> QED
          <6> DEFINE st == IF Terminal(o)' THEN "terminal" ELSE "working"
          <6>1. st \in {"working", "terminal"}
            OBVIOUS
          <6>2. View(o).version + 1 = Len(Events(o)) - 1 => st = "terminal"
            BY <5>3, <5>4
          <6>3. View(o)' = [version |-> View(o).version + 1, status |-> st, chain |-> View(o).chain]
            BY <5>4, <5>5
          <6>4. View(o).status = "working" /\ View(o).chain = "current"
                /\ View(o).version < Len(Events(o)) - 1
            BY <5>2, <5>4
          <6> HIDE DEF st
          <6> QED
            BY <6>1, <6>2, <6>3, <6>4 DEF Authority!Attempt
      <4> QED
        BY <4>1 DEF Authority!Next
    <3> QED
      BY <3>2, <3>3
  <2>5. ASSUME UNCHANGED <<orders, handoff, attempts, cursor>>
        PROVE  [Authority(o)!Next]_(View(o))
    BY <2>1, <2>2, <2>5 DEF Placed
  <2> QED
    BY <1>2, <2>3, <2>4, <2>5, StepKinds
<1>3. Init => \A o \in Order : Authority(o)!Init
  BY <1>1
<1>4. TypeOK /\ HistInv /\ ChainInv /\ [Next]_vars
        => [\A o \in Order : [Authority(o)!Next]_(View(o))]_vars
  BY <1>2
<1> QED
  BY <1>3, <1>4, Chains, PTL DEF Spec, OrdersKeepContract

-----------------------------------------------------------------------------
(* Events *)

\* No attempt has gone past the cursor of its replay.
ConsumedInv ==
  EventsConsumedOnce /\ \A o \in Order : \A i \in 1..Version(o) : attempts[o][i].post <= Position(o)

\* Only the attempt that moves the cursor consumes, and the cursor never moves back.
LEMMA ConsumedInvInductive == TypeOK /\ ConsumedInv /\ [Next]_vars => ConsumedInv'
<1> SUFFICES ASSUME TypeOK, ConsumedInv, [Next]_vars PROVE ConsumedInv'
  OBVIOUS
<1>1. CASE UNCHANGED <<attempts, cursor>>
  BY <1>1 DEF ConsumedInv, EventsConsumedOnce, Consumes, Version, Position
<1>2. ASSUME NEW o \in Order, StepOrder(o), NEW t \in Attempt, Makes(o, t) PROVE ConsumedInv'
  <2> PICK v \in Nat : v = Version(o)
    BY NowFacts
  <2> DEFINE r == ReplayOf[o]
  <2>1. /\ Version(o)' = v + 1 /\ attempts'[o][v + 1] = t
        /\ \A i \in 1..v : attempts'[o][i] = attempts[o][i]
        /\ \A q \in Order \ {o} : attempts'[q] = attempts[q]
    BY <1>2, AttemptAdded
  <2>2. /\ r \in Replay /\ cursor[r] \in Nat /\ cursor'[r] = t.post
        /\ \A s \in Replay \ {r} : cursor'[s] = cursor[s]
    BY <1>2, OrderFacts DEF Makes, TypeOK
  <2>3. IF t.result = "boundary_rejected" THEN t.post = cursor[r] ELSE t.post = cursor[r] + 1
    BY <1>2 DEF Makes, Position
  <2>4. \A q \in Order : \A i \in 1..Version(q) :
          attempts[q][i].post <= cursor[ReplayOf[q]] /\ attempts[q][i].post \in Nat
    <3> SUFFICES ASSUME NEW q \in Order, NEW i \in 1..Version(q)
                 PROVE  attempts[q][i].post <= cursor[ReplayOf[q]] /\ attempts[q][i].post \in Nat
      OBVIOUS
    <3>1. attempts[q] \in Seq(Attempt) /\ i \in 1..Len(attempts[q])
      BY DEF TypeOK, Version
    <3>2. attempts[q][i] \in Attempt
      BY <3>1
    <3> QED
      BY <3>2 DEF ConsumedInv, Position, Attempt
  <2>5. ASSUME NEW q \in Order, NEW i \in 1..Version(q)'
        PROVE  \/ i \in 1..Version(q) /\ attempts'[q][i] = attempts[q][i]
               \/ q = o /\ i = v + 1 /\ attempts'[q][i] = t
    <3>1. CASE q = o
      <4>1. i \in 1..(v + 1)
        BY <2>1, <3>1
      <4>2. i \in 1..v \/ i = v + 1
        BY <4>1
      <4> QED
        BY <2>1, <3>1, <4>2
    <3>2. CASE q # o
      BY <2>1, <3>2 DEF Version
    <3> QED
      BY <3>1, <3>2
  <2>6. \A q \in Order : \A i \in 1..Version(q)' : attempts'[q][i].post <= cursor'[ReplayOf[q]]
    <3> SUFFICES ASSUME NEW q \in Order, NEW i \in 1..Version(q)'
                 PROVE  attempts'[q][i].post <= cursor'[ReplayOf[q]]
      OBVIOUS
    <3>1. CASE q = o /\ i = v + 1 /\ attempts'[q][i] = t
      BY <2>2, <2>3, <3>1
    <3>2. CASE i \in 1..Version(q) /\ attempts'[q][i] = attempts[q][i]
      <4>1. attempts[q][i].post <= cursor[ReplayOf[q]] /\ attempts[q][i].post \in Nat
        BY <2>4, <3>2
      <4>2. CASE ReplayOf[q] = r
        BY <2>2, <2>3, <3>2, <4>1, <4>2
      <4>3. CASE ReplayOf[q] # r
        BY <2>2, <3>2, <4>1, <4>3, OrderFacts
      <4> QED
        BY <4>2, <4>3
    <3> QED
      BY <2>5, <3>1, <3>2
  <2>7. ASSUME NEW s \in Replay, NEW p \in (Seeded[s] + 1)..cursor'[s]
        PROVE  \E q \in Order : \E i \in 1..Version(q)' :
                 ReplayOf[q] = s /\ Consumes(q, i)' /\ attempts'[q][i].post = p
    <3>1. CASE p \in (Seeded[s] + 1)..cursor[s]
      <4>0. PICK q \in Order : \E i \in 1..Version(q) :
              ReplayOf[q] = s /\ Consumes(q, i) /\ attempts[q][i].post = p
        BY <3>1 DEF ConsumedInv, EventsConsumedOnce
      <4>1. PICK i \in 1..Version(q) :
              ReplayOf[q] = s /\ Consumes(q, i) /\ attempts[q][i].post = p
        BY <4>0
      <4>2. i \in 1..Version(q)' /\ attempts'[q][i] = attempts[q][i]
        <5>1. CASE q = o
          <6>1. i \in 1..v
            BY <5>1
          <6>2. i \in 1..(v + 1)
            BY <6>1
          <6> QED
            BY <2>1, <5>1, <6>1, <6>2
        <5>2. CASE q # o
          BY <2>1, <5>2 DEF Version
        <5> QED
          BY <5>1, <5>2
      <4> QED
        BY <4>1, <4>2 DEF Consumes
    <3>2. CASE p \notin (Seeded[s] + 1)..cursor[s]
      <4>1. s = r
        BY <2>2, <2>7, <3>2
      <4>2. t.result # "boundary_rejected" /\ p = t.post
        <5>1. Seeded[s] \in Nat
          BY <4>1, <2>2, ExecutionAssumption
        <5> QED
          BY <2>2, <2>3, <2>7, <3>2, <4>1, <5>1
      <4>3. v + 1 \in 1..Version(o)'
        BY <2>1
      <4> QED
        BY <2>1, <4>1, <4>2, <4>3 DEF Consumes
    <3> QED
      BY <3>1, <3>2
  <2>8. ASSUME NEW q \in Order, NEW s \in Order, NEW i \in 1..Version(q)', NEW j \in 1..Version(s)',
               Consumes(q, i)', Consumes(s, j)', ReplayOf[q] = ReplayOf[s],
               attempts'[q][i].post = attempts'[s][j].post
        PROVE  q = s /\ i = j
    <3>1. ASSUME NEW a \in Order, NEW b \in Order, NEW k \in 1..Version(a), NEW l \in Nat,
                 attempts'[a][k] = attempts[a][k], b = o, l = v + 1, attempts'[b][l] = t,
                 Consumes(b, l)', ReplayOf[a] = ReplayOf[b],
                 attempts'[a][k].post = attempts'[b][l].post
          PROVE  FALSE
      <4>1. t.post = cursor[r] + 1
        BY <2>3, <3>1 DEF Consumes
      <4>2. attempts[a][k].post <= cursor[r] /\ attempts[a][k].post \in Nat
        BY <2>4, <3>1
      <4> QED
        BY <2>2, <3>1, <4>1, <4>2
    <3>2. \/ i \in 1..Version(q) /\ attempts'[q][i] = attempts[q][i]
          \/ q = o /\ i = v + 1 /\ attempts'[q][i] = t
      BY <2>5
    <3>3. \/ j \in 1..Version(s) /\ attempts'[s][j] = attempts[s][j]
          \/ s = o /\ j = v + 1 /\ attempts'[s][j] = t
      BY <2>5
    <3>4. CASE i \in 1..Version(q) /\ attempts'[q][i] = attempts[q][i]
               /\ j \in 1..Version(s) /\ attempts'[s][j] = attempts[s][j]
      BY <2>8, <3>4 DEF ConsumedInv, EventsConsumedOnce, Consumes
    <3> QED
      BY <2>8, <3>1, <3>2, <3>3, <3>4
  <2> QED
    BY <2>6, <2>7, <2>8 DEF ConsumedInv, EventsConsumedOnce, Position
<1> QED
  BY <1>1, <1>2, StepKinds DEF CreateOrder

\* Orders that share a replay consume each of its events once.
THEOREM Consumption == Spec => []EventsConsumedOnce
<1>1. Init => ConsumedInv
  <2> SUFFICES ASSUME Init PROVE ConsumedInv
    OBVIOUS
  <2>1. \A o \in Order : Version(o) = 0
    BY DEF Init, Version
  <2>2. \A r \in Replay : Seeded[r] \in Nat /\ cursor[r] = Seeded[r]
    BY ExecutionAssumption DEF Init
  <2>3. \A r \in Replay : (Seeded[r] + 1)..cursor[r] = {}
    BY <2>2
  <2> QED
    BY <2>1, <2>3 DEF ConsumedInv, EventsConsumedOnce
<1>2. ConsumedInv => EventsConsumedOnce
  BY DEF ConsumedInv
<1> QED
  BY <1>1, <1>2, ConsumedInvInductive, Typing, PTL DEF Spec

\* No event is consumed twice or left out, no fill is settled twice or left unsettled.
THEOREM NothingIsDoneTwice == Spec => []NothingTwice
<1>1. EventsConsumedOnce /\ FillsSettledOnce => NothingTwice
  BY DEF NothingTwice
<1> QED
  BY <1>1, Settlements, Consumption, PTL

-----------------------------------------------------------------------------
(* Answers *)

\* Counting at one place keeps the other places and the length.
LEMMA RaiseKeeps ==
  ASSUME NEW s \in Seq(Nat), NEW i, NEW u, u = [s EXCEPT ![i] = @ + 1]
  PROVE  /\ Len(u) = Len(s) /\ Len(s) \in Nat
         /\ \A j \in 1..Len(s) : u[j] >= s[j] /\ u[j] \in Nat /\ s[j] \in Nat
<1>1. Len(s) \in Nat /\ s \in [1..Len(s) -> Nat]
  BY LenProperties
<1>2. u \in Seq(Nat)
  BY RaiseAt
<1>3. Len(u) \in Nat /\ DOMAIN u = 1..Len(u) /\ DOMAIN s = 1..Len(s)
  BY <1>2, LenProperties
<1>4. DOMAIN u = DOMAIN s
  OBVIOUS
<1>5. Len(u) = Len(s)
  BY <1>1, <1>3, <1>4
<1>6. \A j \in 1..Len(s) : u[j] >= s[j] /\ u[j] \in Nat /\ s[j] \in Nat
  BY <1>1
<1> QED
  BY <1>1, <1>5, <1>6

\* A Step answered again adds to the receipts of one attempt and to nothing else.
LEMMA StepRaises ==
  ASSUME TypeOK, NEW o \in Order, NEW i \in 1..Version(o), StepConverges(o, i), NEW p \in Order
  PROVE  /\ Len(stepReceipts'[p]) = Len(stepReceipts[p])
         /\ \A j \in 1..Len(stepReceipts[p]) :
              /\ stepReceipts'[p][j] >= stepReceipts[p][j]
              /\ stepReceipts'[p][j] \in Nat /\ stepReceipts[p][j] \in Nat
<1>1. stepReceipts \in [Order -> Seq(Nat)]
  BY DEF TypeOK
<1>2. stepReceipts' = [stepReceipts EXCEPT ![o] = [stepReceipts[o] EXCEPT ![i] = @ + 1]]
  BY DEF StepConverges
<1>3. CASE p = o
  <2>1. stepReceipts'[o] = [stepReceipts[o] EXCEPT ![i] = @ + 1] /\ stepReceipts[o] \in Seq(Nat)
    BY <1>1, <1>2
  <2> QED
    BY <1>3, <2>1, RaiseKeeps
<1>4. CASE p # o
  <2>1. stepReceipts'[p] = stepReceipts[p] /\ stepReceipts[p] \in Seq(Nat)
    BY <1>1, <1>2, <1>4
  <2> QED
    BY <2>1
<1> QED
  BY <1>3, <1>4

\* Every order and every attempt has the receipt of the command that made it.
ReceiptsInv ==
  /\ \A o \in Placed : createReceipts[o] > 0
  /\ \A o \in Order : Len(stepReceipts[o]) = Version(o)
                      /\ \A i \in 1..Version(o) : stepReceipts[o][i] > 0

\* Whatever was answered has a receipt, one sequence of counts for each order's attempts.
LEMMA ReceiptsInvInductive == TypeOK /\ ReceiptsInv /\ [Next]_vars => ReceiptsInv'
<1> SUFFICES ASSUME TypeOK, ReceiptsInv, [Next]_vars PROVE ReceiptsInv'
  OBVIOUS
<1>0. Placed \subseteq Order
  BY DEF TypeOK, Placed
<1>1. ASSUME NEW o \in Order, CreateOrder(o) PROVE ReceiptsInv'
  <2>1. Placed' = Placed \union {o}
    BY <1>1, PlacedAppends DEF CreateOrder
  <2>2. \A p \in Placed' : createReceipts'[p] > 0
    BY <1>0, <1>1, <2>1 DEF CreateOrder, ReceiptsInv, TypeOK
  <2> QED
    BY <1>1, <2>2 DEF CreateOrder, ReceiptsInv, Version
<1>2. ASSUME NEW o \in Order, CreateConverges(o) PROVE ReceiptsInv'
  <2>1. Placed' = Placed /\ UNCHANGED <<attempts, stepReceipts>>
    BY <1>2 DEF CreateConverges, Placed
  <2>2. \A p \in Placed' : createReceipts'[p] > 0
    BY <1>0, <1>2, <2>1 DEF CreateConverges, ReceiptsInv, TypeOK
  <2> QED
    BY <2>1, <2>2 DEF ReceiptsInv, Version
<1>3. ASSUME NEW o \in Order, StepOrder(o), NEW t \in Attempt, Makes(o, t) PROVE ReceiptsInv'
  <2>1. Placed' = Placed /\ createReceipts' = createReceipts
    BY <1>3 DEF Makes, Placed
  <2>2. stepReceipts \in [Order -> Seq(Nat)] /\ 1 \in Nat
    BY DEF TypeOK
  <2>3. stepReceipts' = [stepReceipts EXCEPT ![o] = Append(@, 1)]
    BY <1>3 DEF Makes
  <2>4. ASSUME NEW p \in Order
        PROVE  Len(stepReceipts'[p]) = Version(p)' /\ \A i \in 1..Version(p)' : stepReceipts'[p][i] > 0
    <3>1. CASE p # o
      <4>1. stepReceipts'[p] = stepReceipts[p] /\ attempts'[p] = attempts[p]
        BY <1>3, <2>2, <2>3, <3>1 DEF Makes, TypeOK
      <4> QED
        BY <4>1 DEF ReceiptsInv, Version
    <3>2. CASE p = o
      <4> PICK v \in Nat : v = Version(o)
        BY NowFacts
      <4>1. Len(stepReceipts[o]) = v /\ \A i \in 1..v : stepReceipts[o][i] > 0
        BY DEF ReceiptsInv
      <4>2. /\ Len(stepReceipts'[o]) = v + 1 /\ stepReceipts'[o][v + 1] = 1
            /\ \A i \in 1..v : stepReceipts'[o][i] = stepReceipts[o][i]
        BY <2>2, <2>3, <4>1, AppendKeeps
      <4>3. Version(o)' = v + 1
        BY <1>3, AttemptAdded
      <4>4. \A i \in 1..(v + 1) : i \in 1..v \/ i = v + 1
        OBVIOUS
      <4> QED
        BY <3>2, <4>1, <4>2, <4>3, <4>4
    <3> QED
      BY <3>1, <3>2
  <2> QED
    BY <2>1, <2>4 DEF ReceiptsInv
<1>4. ASSUME NEW o \in Order, NEW i \in 1..Version(o), StepConverges(o, i) PROVE ReceiptsInv'
  <2>1. Placed' = Placed /\ UNCHANGED <<attempts, createReceipts>>
    BY <1>4 DEF StepConverges, Placed
  <2>2. \A p \in Order : Len(stepReceipts'[p]) = Len(stepReceipts[p])
          /\ \A j \in 1..Len(stepReceipts[p]) :
               /\ stepReceipts'[p][j] >= stepReceipts[p][j]
               /\ stepReceipts'[p][j] \in Nat /\ stepReceipts[p][j] \in Nat
    BY <1>4, StepRaises
  <2>3. \A p \in Order : Len(stepReceipts'[p]) = Version(p)
          /\ \A j \in 1..Version(p) : stepReceipts'[p][j] > 0
    BY <2>2 DEF ReceiptsInv
  <2> QED
    BY <2>1, <2>3 DEF ReceiptsInv, Version
<1>5. CASE UNCHANGED <<orders, attempts, receipts>>
  BY <1>5 DEF ReceiptsInv, Version, Placed, receipts
<1> QED
  BY <1>1, <1>2, <1>3, <1>4, <1>5, StepMakes DEF Next, AccountMoves, vars

\* What a command was answered with stays what it is, and keeps its receipt.
THEOREM Answers == Spec => AnswersKept
<1>1. Init => ReceiptsInv
  BY DEF Init, ReceiptsInv, Placed, Version
<1>2. TypeOK /\ ReceiptsInv /\ [Next]_vars =>
        [\A o \in Placed :
           /\ o \in Placed' /\ handoff'[o] = handoff[o]
           /\ createReceipts'[o] >= createReceipts[o] /\ createReceipts[o] > 0
           /\ \A i \in 1..Version(o) :
                /\ i \in DOMAIN attempts'[o] /\ attempts'[o][i] = attempts[o][i]
                /\ stepReceipts'[o][i] >= stepReceipts[o][i] /\ stepReceipts[o][i] > 0]_vars
  <2> SUFFICES ASSUME TypeOK, ReceiptsInv, [Next]_vars, NEW o \in Placed
               PROVE  /\ o \in Placed' /\ handoff'[o] = handoff[o]
                      /\ createReceipts'[o] >= createReceipts[o] /\ createReceipts[o] > 0
                      /\ \A i \in 1..Version(o) :
                           /\ i \in DOMAIN attempts'[o] /\ attempts'[o][i] = attempts[o][i]
                           /\ stepReceipts'[o][i] >= stepReceipts[o][i] /\ stepReceipts[o][i] > 0
    OBVIOUS
  <2>0. Grows /\ TypeOK' /\ o \in Order
    <3>1. o \in Order
      BY DEF TypeOK, Placed
    <3> QED
      BY <3>1, Growing, TypingStep
  <2>1. o \in Placed' /\ handoff'[o] = handoff[o]
    BY <2>0 DEF Grows
  <2>2. \A i \in 1..Version(o) : i \in DOMAIN attempts'[o] /\ attempts'[o][i] = attempts[o][i]
    <3>1. attempts'[o] \in Seq(Attempt)
      BY <2>0 DEF TypeOK
    <3>2. DOMAIN attempts'[o] = 1..Version(o)' /\ Version(o)' \in Nat
      BY <3>1 DEF Version
    <3>3. Version(o) \in Nat /\ Version(o) <= Version(o)'
      BY <2>0, NowFacts DEF Grows
    <3> QED
      BY <2>0, <3>2, <3>3 DEF Grows
  <2>3. createReceipts[o] > 0 /\ createReceipts'[o] >= createReceipts[o]
    <3>1. createReceipts[o] > 0 /\ createReceipts[o] \in Nat
      BY <2>0 DEF ReceiptsInv, TypeOK
    <3>2. ASSUME NEW q \in Order, CreateOrder(q) PROVE createReceipts'[o] = createReceipts[o]
      BY <2>0, <3>2 DEF CreateOrder, TypeOK
    <3>3. ASSUME NEW q \in Order, CreateConverges(q) PROVE createReceipts'[o] >= createReceipts[o]
      BY <2>0, <3>1, <3>3 DEF CreateConverges, TypeOK
    <3>4. ASSUME NEW q \in Order, StepOrder(q) PROVE createReceipts' = createReceipts
      BY <3>4, StepMakes DEF Makes
    <3>5. \/ \E q \in Order : CreateOrder(q) \/ CreateConverges(q) \/ StepOrder(q)
          \/ createReceipts' = createReceipts
      BY DEF Next, StepConverges, AccountMoves, receipts, vars
    <3>6. createReceipts' = createReceipts => createReceipts'[o] >= createReceipts[o]
      BY <3>1
    <3>7. createReceipts'[o] = createReceipts[o] => createReceipts'[o] >= createReceipts[o]
      BY <3>1
    <3> QED
      BY <3>1, <3>2, <3>3, <3>4, <3>5, <3>6, <3>7
  <2>4. \A i \in 1..Version(o) : stepReceipts[o][i] > 0 /\ stepReceipts'[o][i] >= stepReceipts[o][i]
    <3>1. stepReceipts \in [Order -> Seq(Nat)] /\ 1 \in Nat
      BY DEF TypeOK
    <3>2. /\ Len(stepReceipts[o]) = Version(o)
          /\ \A i \in 1..Version(o) : stepReceipts[o][i] > 0 /\ stepReceipts[o][i] \in Nat
      <4>1. stepReceipts[o] \in Seq(Nat)
        BY <2>0, <3>1
      <4>2. Len(stepReceipts[o]) = Version(o) /\ \A i \in 1..Version(o) : stepReceipts[o][i] > 0
        BY <2>0 DEF ReceiptsInv
      <4> QED
        BY <4>1, <4>2
    <3>3. ASSUME NEW q \in Order, StepOrder(q)
          PROVE  \A i \in 1..Version(o) : stepReceipts'[o][i] = stepReceipts[o][i]
      <4>1. stepReceipts' = [stepReceipts EXCEPT ![q] = Append(@, 1)]
        BY <3>3, StepMakes DEF Makes
      <4> QED
        BY <2>0, <3>1, <3>2, <4>1, AppendKeeps
    <3>4. ASSUME NEW q \in Order, NEW j \in 1..Version(q), StepConverges(q, j)
          PROVE  \A i \in 1..Version(o) : stepReceipts'[o][i] >= stepReceipts[o][i]
      BY <2>0, <3>2, <3>4, StepRaises
    <3>5. ASSUME stepReceipts' = stepReceipts
          PROVE  \A i \in 1..Version(o) : stepReceipts'[o][i] >= stepReceipts[o][i]
      BY <3>2, <3>5
    <3>6. \A i \in 1..Version(o) : stepReceipts'[o][i] >= stepReceipts[o][i]
      <4>1. \/ \E q \in Order : StepOrder(q) \/ \E j \in 1..Version(q) : StepConverges(q, j)
            \/ stepReceipts' = stepReceipts
        BY DEF Next, CreateOrder, CreateConverges, AccountMoves, receipts, vars
      <4>2. (\A i \in 1..Version(o) : stepReceipts'[o][i] = stepReceipts[o][i])
              => \A i \in 1..Version(o) : stepReceipts'[o][i] >= stepReceipts[o][i]
        BY <3>2
      <4> QED
        BY <3>3, <3>4, <3>5, <4>1, <4>2
    <3> QED
      BY <3>2, <3>6
  <2> QED
    BY <2>1, <2>2, <2>3, <2>4
<1> QED
  BY <1>1, <1>2, ReceiptsInvInductive, Typing, PTL DEF Spec, AnswersKept
=============================================================================
