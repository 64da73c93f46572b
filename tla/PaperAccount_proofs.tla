------------------------ MODULE PaperAccount_proofs ------------------------
(***************************************************************************)
(* Proofs about paper accounts, for any accounts, commands, keys, readers  *)
(* and bounds: every ledger that is written replays, the cache follows it, *)
(* and answers, evidence and reads are about the version they name.  And   *)
(* about what orders leave in an account, for any orders, prices and       *)
(* policies: the account and the fills agree, a history loads again, and   *)
(* what the risk allows is settled.                                        *)
(*                                                                         *)
(* The argument: what a ledger holds is determined event by event, each    *)
(* being what its command posts in the state the one before it left.  A    *)
(* ledger is only appended to, so whatever was once said of its first n    *)
(* events stays true; answers, evidence and reads all say such things.     *)
(* The same carries the trades: what an order's rows were derived from is  *)
(* a beginning of the replay and of the ledger, and stays there.           *)
(***************************************************************************)
EXTENDS PaperTrades, SequenceTheorems, WellFoundedInduction, TLAPS

-----------------------------------------------------------------------------
(* Arithmetic of a sale *)

\* The quotient that is rounded half to even is off by half a divisor at most.
LEMMA HalfEvenIsClose ==
  ASSUME NEW n \in Int, NEW d \in Nat \ {0}
  PROVE  /\ HalfEven(n, d) \in Int
         /\ 2 * (HalfEven(n, d) * d - n) <= d /\ -2 * (HalfEven(n, d) * d - n) <= d
<1> DEFINE q == n \div d
           r == n % d
<1>1. q \in Int /\ r \in 0..d - 1 /\ n = d * q + r
  OBVIOUS
<1>2. q % 2 \in {0, 1}
  BY <1>1
<1>3. HalfEven(n, d) = CASE 2 * r < d -> q [] 2 * r > d -> q + 1 [] OTHER -> q + (q % 2)
  BY DEF HalfEven
<1> HIDE DEF q, r
<1>4. PICK m \in Int : m = d * q /\ q * d = m /\ (q + 1) * d = m + d
  BY <1>1
<1>5. CASE 2 * r < d
  <2>1. HalfEven(n, d) = q
    BY <1>1, <1>3, <1>5
  <2> QED
    BY <1>1, <1>4, <1>5, <2>1, SMT
<1>6. CASE 2 * r > d
  <2>1. HalfEven(n, d) = q + 1
    BY <1>1, <1>3, <1>6
  <2> QED
    BY <1>1, <1>4, <1>6, <2>1
<1>7. CASE 2 * r = d
  <2>1. HalfEven(n, d) = q + (q % 2)
    BY <1>1, <1>3, <1>7
  <2>2. HalfEven(n, d) = q \/ HalfEven(n, d) = q + 1
    BY <1>1, <1>2, <2>1
  <2> QED
    BY <1>1, <1>4, <1>7, <2>2
<1> QED
  BY <1>1, <1>5, <1>6, <1>7

\* A sale takes away its share of the cost basis, off by half a unit at most.
LEMMA ShareOfCost ==
  ASSUME NEW p, p.quantity \in Nat \ {0}, p.cost \in Int, NEW quantity \in Nat \ {0}
  PROVE  /\ RemovedCost(p, quantity) \in Int
         /\ 2 * (RemovedCost(p, quantity) * p.quantity - p.cost * quantity) <= p.quantity
         /\ -2 * (RemovedCost(p, quantity) * p.quantity - p.cost * quantity) <= p.quantity
<1>1. CASE quantity = p.quantity
  <2>1. RemovedCost(p, quantity) = p.cost
    BY <1>1 DEF RemovedCost
  <2>2. p.cost * p.quantity - p.cost * quantity = 0
    BY <1>1
  <2> QED
    BY <2>1, <2>2
<1>2. CASE quantity # p.quantity
  <2>1. RemovedCost(p, quantity) = HalfEven(p.cost * quantity, p.quantity)
    BY <1>2 DEF RemovedCost
  <2>2. p.cost * quantity \in Int
    OBVIOUS
  <2> QED
    BY <2>1, <2>2, HalfEvenIsClose
<1> QED
  BY <1>1, <1>2

-----------------------------------------------------------------------------
(* Events *)

Amounts == [cash : Int, quantity : Int, cost : Int]
Event   == [key : Key, expected : Nat, command : Command, effect : Amounts, state : State]

Type == {"create", "cash", "position", "fill", "link", "freeze", "reactivate", "close"}

LEMMA CommandFacts ==
  ASSUME NEW c \in Command
  PROVE  /\ c.type \in Type
         /\ c.type = "create" => c.cash \in Int
         /\ c.type = "cash" => c.amount \in Int
         /\ c.type = "position" => c.symbol \in Symbol /\ c.quantity \in Int /\ c.cost \in Int
         /\ c.type = "fill" => /\ c.symbol \in Symbol /\ c.side \in {"buy", "sell"}
                               /\ c.quantity \in Nat \ {0} /\ c.gross \in Nat /\ c.charges \in Nat
         /\ c.type = "link" => c.decision \in Decision
BY AccountAssumption DEF AccountAssumption, CommandAssumption, Type

LEMMA StateFacts ==
  ASSUME NEW s \in State
  PROVE  /\ s.status \in Status /\ s.cash \in Int /\ s.links \in SUBSET Decision
         /\ s.positions \in [Symbol -> [quantity : Int, cost : Int]]
         /\ \A y \in Symbol : s.positions[y].quantity \in Int /\ s.positions[y].cost \in Int
BY DEF State

LEMMA GenesisType == Genesis \in State
<1>1. Flat \in [quantity : Int, cost : Int]
  BY DEF Flat
<1> QED
  BY <1>1 DEF Genesis, State, Status

LEMMA EffectType ==
  ASSUME NEW s \in State, NEW c \in Command, Allowed(s, c)
  PROVE  Effect(s, c) \in Amounts
<1>1. Nothing \in Amounts
  BY DEF Nothing, Amounts
<1>2. CASE c.type = "create"
  BY <1>2, CommandFacts DEF Effect, Nothing, Amounts
<1>3. CASE c.type = "cash"
  <2>1. Signed(c) \in Int
    BY <1>3, CommandFacts DEF Signed
  <2> QED
    BY <1>3, <2>1 DEF Effect, Nothing, Amounts
<1>4. CASE c.type = "position"
  BY <1>4, CommandFacts DEF Effect, Amounts
<1>5. CASE c.type = "fill"
  <2>1. Effect(s, c) = FillEffect(s, c)
    BY <1>5 DEF Effect
  <2>2. CASE c.side = "buy"
    <3>1. c.gross + c.charges \in Int /\ -(c.gross + c.charges) \in Int /\ c.quantity \in Int
      BY <1>5, CommandFacts
    <3> QED
      BY <2>1, <2>2, <3>1 DEF FillEffect, Amounts
  <2>3. CASE c.side = "sell"
    <3> DEFINE p == s.positions[c.symbol]
    <3>1. p.quantity >= c.quantity /\ p.quantity \in Int /\ p.cost \in Int /\ c.quantity \in Nat \ {0}
      BY <1>5, <2>3, CommandFacts, StateFacts DEF Allowed, FillAllowed
    <3> HIDE DEF p
    <3>2. p.quantity \in Nat \ {0}
      BY <3>1
    <3>3. -RemovedCost(p, c.quantity) \in Int
      BY <3>1, <3>2, ShareOfCost
    <3>4. c.gross - c.charges \in Int /\ -c.quantity \in Int
      BY <1>5, CommandFacts
    <3>5. FillEffect(s, c) = [cash |-> c.gross - c.charges, quantity |-> -c.quantity,
                              cost |-> -RemovedCost(p, c.quantity)]
      BY <2>3 DEF FillEffect, p
    <3> QED
      BY <2>1, <3>3, <3>4, <3>5 DEF Amounts
  <2> QED
    BY <1>5, <2>2, <2>3, CommandFacts
<1>6. CASE c.type \notin {"create", "cash", "position", "fill"}
  <2>1. Effect(s, c) = Nothing
    BY <1>6 DEF Effect
  <2> QED
    BY <1>1, <2>1
<1> QED
  BY <1>2, <1>3, <1>4, <1>5, <1>6

LEMMA PostedType ==
  ASSUME NEW s \in State, NEW c \in Command, NEW e \in Amounts
  PROVE  Posted(s, c, e) \in State
<1> DEFINE status == CASE c.type \in {"create", "reactivate"} -> "active"
                       [] c.type = "freeze" -> "frozen"
                       [] c.type = "close"  -> "closed"
                       [] OTHER             -> s.status
           positions == IF Moves(c)
                        THEN [s.positions EXCEPT ![c.symbol] =
                                [quantity |-> @.quantity + e.quantity, cost |-> @.cost + e.cost]]
                        ELSE s.positions
           linked == IF c.type = "link" THEN s.links \union {c.decision} ELSE s.links
<1>1. status \in Status
  BY StateFacts DEF Status
<1>2. s.cash + e.cash \in Int
  BY StateFacts DEF Amounts
<1>3. positions \in [Symbol -> [quantity : Int, cost : Int]]
  <2>1. CASE Moves(c)
    <3>1. c.symbol \in Symbol
      BY <2>1, CommandFacts DEF Moves
    <3>2. /\ s.positions[c.symbol].quantity + e.quantity \in Int
          /\ s.positions[c.symbol].cost + e.cost \in Int
      BY <3>1, StateFacts DEF Amounts
    <3> QED
      BY <2>1, <3>2, StateFacts
  <2>2. CASE ~Moves(c)
    BY <2>2, StateFacts
  <2> QED
    BY <2>1, <2>2
<1>4. linked \in SUBSET Decision
  BY CommandFacts, StateFacts
<1> HIDE DEF status, positions, linked
<1>5. Posted(s, c, e) = [status |-> status, cash |-> s.cash + e.cash, positions |-> positions, links |-> linked]
  BY DEF Posted, status, positions, linked
<1> QED
  BY <1>1, <1>2, <1>3, <1>4, <1>5 DEF State

LEMMA NewEventIs ==
  ASSUME NEW s \in State, NEW c \in Command, NEW k \in Key, NEW expected \in Nat, Applicable(s, c)
  PROVE  /\ NewEvent(s, c, k, expected) =
              [key |-> k, expected |-> expected, command |-> c, effect |-> Effect(s, c),
               state |-> Posted(s, c, Effect(s, c))]
         /\ NewEvent(s, c, k, expected) \in Event
<1> DEFINE event == [key |-> k, expected |-> expected, command |-> c, effect |-> Effect(s, c)]
<1>1. Effect(s, c) \in Amounts /\ Posted(s, c, Effect(s, c)) \in State
  BY EffectType, PostedType DEF Applicable
<1>2. s # Corrupt
  BY CorruptAssumption
<1>3. event.command = c /\ event.effect = Effect(s, c)
  OBVIOUS
<1> HIDE DEF event
<1>4. Replayed(s, event) = Posted(s, c, Effect(s, c))
  BY <1>2, <1>3 DEF Replayed, Applicable
<1>5. NewEvent(s, c, k, expected) =
        [key |-> k, expected |-> expected, command |-> c, effect |-> Effect(s, c),
         state |-> Posted(s, c, Effect(s, c))]
  BY <1>3, <1>4 DEF NewEvent, event
<1> QED
  BY <1>1, <1>5 DEF Event

-----------------------------------------------------------------------------
(* Ledgers, and what their first events say for good *)

\* The state after the first n events, and the projection of them.
After(events, n) == IF n = 0 THEN Genesis ELSE events[n].state

Stood(events, n) == [version |-> n, state |-> After(events, n)]

\* Every event is what its command posts in the state the one before it left.
EventRight(events, n) ==
  LET e == events[n]
      s == After(events, n - 1)
  IN /\ e.command \in Command /\ Applicable(s, e.command)
     /\ e.effect = Effect(s, e.command)
     /\ e.state = Posted(s, e.command, e.effect)
     /\ e.expected = n - 1

KeysDiffer(events) ==
  \A m, n \in 1..Len(events) : events[m].key = events[n].key => m = n

Unused(events, k) == \A n \in 1..Len(events) : events[n].key # k

LedgerRight(events) ==
  /\ events \in Seq(Event)
  /\ \A n \in 1..Len(events) : EventRight(events, n)
  /\ KeysDiffer(events)

\* The second ledger goes on where the first ends.
Extends(events, more) ==
  Len(events) <= Len(more) /\ \A n \in 1..Len(events) : more[n] = events[n]

LEMMA AfterType ==
  ASSUME NEW events \in Seq(Event), NEW n \in 0..Len(events)
  PROVE  /\ After(events, n) \in State /\ Stood(events, n) \in Projection
         /\ Stood(events, n).version = n
<1>1. After(events, n) \in State
  <2>1. CASE n = 0
    BY <2>1, GenesisType DEF After
  <2>2. CASE n # 0
    <3>1. events[n] \in Event
      BY <2>2
    <3> QED
      BY <2>2, <3>1 DEF After, Event
  <2> QED
    BY <2>1, <2>2
<1>2. n \in Nat
  OBVIOUS
<1> QED
  BY <1>1, <1>2 DEF Stood, Projection

\* What the replay of a ledger gives is the state its last event left.
LEMMA Latest ==
  ASSUME NEW events \in Seq(Event)
  PROVE  /\ Rebuild(events) = After(events, Len(events))
         /\ Project(events) = Stood(events, Len(events))
<1>1. events = <<>> <=> Len(events) = 0
  OBVIOUS
<1> QED
  BY <1>1 DEF Rebuild, Project, Stood, After

LEMMA HeadOfPrefix ==
  ASSUME NEW events \in Seq(Event), NEW n \in 0..Len(events)
  PROVE  Project(SubSeq(events, 1, n)) = Stood(events, n)
<1>1. /\ SubSeq(events, 1, n) \in Seq(Event) /\ Len(SubSeq(events, 1, n)) = n
      /\ \A i \in 1..n : SubSeq(events, 1, n)[i] = events[i]
  OBVIOUS
<1>2. After(SubSeq(events, 1, n), n) = After(events, n)
  BY <1>1 DEF After
<1> QED
  BY <1>1, <1>2, Latest DEF Stood

LEMMA StoodStays ==
  ASSUME NEW events \in Seq(Event), NEW more \in Seq(Event), Extends(events, more),
         NEW n \in 0..Len(events)
  PROVE  n \in 0..Len(more) /\ After(more, n) = After(events, n) /\ Stood(more, n) = Stood(events, n)
BY DEF Extends, After, Stood

\* The event is of this command and leads from this state.
Carries(event, c, k, expected, s) ==
  /\ event.command = c /\ event.key = k /\ event.expected = expected
  /\ event.state = Posted(s, c, event.effect)

IsOneMore(events, next, event) == Len(next) = Len(events) + 1 /\ next[Len(next)] = event

\* A command that is applicable at the head makes a ledger that is right again.
LEMMA AppendIsRight ==
  ASSUME NEW events, LedgerRight(events), NEW c \in Command, NEW k \in Key,
         Applicable(Rebuild(events), c), Unused(events, k),
         NEW event, event = NewEvent(Rebuild(events), c, k, Len(events)),
         NEW next, next = Append(events, event)
  PROVE  /\ LedgerRight(next) /\ Extends(events, next) /\ IsOneMore(events, next, event)
         /\ Carries(event, c, k, Len(events), Rebuild(events))
<1> DEFINE s == After(events, Len(events))
<1>1. events \in Seq(Event) /\ Len(events) \in Nat
  BY DEF LedgerRight
<1>2. s \in State /\ Rebuild(events) = s
  BY <1>1, AfterType, Latest
<1>3. /\ event = [key |-> k, expected |-> Len(events), command |-> c, effect |-> Effect(s, c),
                  state |-> Posted(s, c, Effect(s, c))]
      /\ event \in Event
  BY <1>1, <1>2, NewEventIs
<1>4. /\ next \in Seq(Event) /\ Len(next) = Len(events) + 1
      /\ next[Len(events) + 1] = event
      /\ \A n \in 1..Len(events) : next[n] = events[n]
  BY <1>1, <1>3
<1>5. Extends(events, next)
  BY <1>1, <1>4 DEF Extends
<1>6. \A n \in 0..Len(events) : After(next, n) = After(events, n)
  BY <1>1, <1>4, <1>5, StoodStays
<1>7. EventRight(next, Len(events) + 1)
  <2>1. After(next, Len(events)) = s
    BY <1>1, <1>6
  <2>2. Applicable(s, c)
    BY <1>2
  <2> HIDE DEF s
  <2> QED
    BY <1>1, <1>3, <1>4, <2>1, <2>2 DEF EventRight
<1>8. \A n \in 1..Len(events) : EventRight(next, n)
  <2> SUFFICES ASSUME NEW n \in 1..Len(events) PROVE EventRight(next, n)
    OBVIOUS
  <2>1. EventRight(events, n)
    BY DEF LedgerRight
  <2>2. After(next, n - 1) = After(events, n - 1) /\ next[n] = events[n]
    BY <1>1, <1>4, <1>6
  <2> QED
    BY <2>1, <2>2 DEF EventRight
<1>9. KeysDiffer(next)
  <2>1. \A n \in 1..Len(next) : n \in 1..Len(events) \/ n = Len(events) + 1
    BY <1>1, <1>4
  <2>2. event.key = k
    BY <1>3
  <2>3. KeysDiffer(events)
    BY DEF LedgerRight
  <2> QED
    BY <1>4, <2>1, <2>2, <2>3 DEF KeysDiffer, Unused
<1>10. \A n \in 1..Len(next) : EventRight(next, n)
  BY <1>1, <1>4, <1>7, <1>8
<1>11. Carries(event, c, k, Len(events), Rebuild(events))
  BY <1>2, <1>3 DEF Carries
<1>12. IsOneMore(events, next, event)
  BY <1>1, <1>4 DEF IsOneMore
<1> HIDE DEF s
<1> QED
  BY <1>4, <1>5, <1>9, <1>10, <1>11, <1>12 DEF LedgerRight

-----------------------------------------------------------------------------
(* What a right ledger shows *)

LEMMA RightRests ==
  ASSUME NEW events, LedgerRight(events), NEW n \in 1..Len(events)
  PROVE  LET s == events[n].state IN
         /\ s.status = "closed" => n = Len(events) /\ Empty(s)
         /\ s.status = "frozen" /\ n < Len(events) =>
              events[n + 1].command.type \in {"reactivate", "close"}
<1> DEFINE s == events[n].state
           b == After(events, n - 1)
           e == events[n]
<1>1. events \in Seq(Event) /\ n \in Nat \ {0} /\ Len(events) \in Nat
  BY DEF LedgerRight
<1>2. After(events, n) = s
  BY <1>1 DEF After
<1>3. ASSUME n < Len(events)
      PROVE  /\ s.status # "closed"
             /\ s.status = "frozen" => events[n + 1].command.type \in {"reactivate", "close"}
  <2>1. n + 1 \in 1..Len(events) /\ (n + 1) - 1 = n
    BY <1>1, <1>3
  <2>2. EventRight(events, n + 1)
    BY <2>1 DEF LedgerRight
  <2> DEFINE c == events[n + 1].command
  <2>3. c \in Command /\ Allowed(s, c)
    BY <1>2, <2>1, <2>2 DEF EventRight, Applicable
  <2>4. c.type \in Type
    BY <2>3, CommandFacts
  <2> HIDE DEF s, c
  <2>5. s.status # "closed" /\ (s.status = "frozen" => c.type \in {"reactivate", "close"})
    BY <2>3, <2>4 DEF Allowed, Type, FillAllowed, LifecycleAllowed, Transitions
  <2> QED
    BY <2>5 DEF c
<1>4. ASSUME s.status = "closed" PROVE Empty(s)
  <2>1. /\ e.command \in Command /\ Applicable(b, e.command) /\ e.effect = Effect(b, e.command)
        /\ s = Posted(b, e.command, e.effect)
    BY DEF LedgerRight, EventRight
  <2>2. e.command.type \in Type /\ Allowed(b, e.command)
    BY <2>1, CommandFacts DEF Applicable
  <2>3. b \in State
    BY <1>1, AfterType
  <2> DEFINE c == e.command
  <2>4. s = Posted(b, c, Effect(b, c)) /\ c.type \in Type /\ Allowed(b, c)
    BY <2>1, <2>2
  <2> HIDE DEF s, b, c
  <2>5. c.type = "close"
    <3>1. s.status = CASE c.type \in {"create", "reactivate"} -> "active"
                       [] c.type = "freeze" -> "frozen"
                       [] c.type = "close"  -> "closed"
                       [] OTHER             -> b.status
      BY <2>4 DEF Posted
    <3>2. c.type \in {"cash", "position", "fill", "link"} => b.status = "active"
      BY <2>4 DEF Allowed, FillAllowed
    <3> QED
      BY <1>4, <2>4, <3>1, <3>2 DEF Type
  <2>6. Empty(b) /\ Effect(b, c) = Nothing
    BY <2>4, <2>5 DEF Allowed, LifecycleAllowed, Effect
  <2>7. s.cash = b.cash + 0 /\ s.positions = b.positions
    BY <2>4, <2>5, <2>6 DEF Posted, Nothing, Moves
  <2>8. b.cash \in Int
    BY <2>3, StateFacts
  <2> QED
    BY <2>6, <2>7, <2>8 DEF Empty
<1> HIDE DEF s
<1>5. /\ s.status = "closed" => n = Len(events) /\ Empty(s)
      /\ s.status = "frozen" /\ n < Len(events) =>
           events[n + 1].command.type \in {"reactivate", "close"}
  BY <1>1, <1>3, <1>4
<1> QED
  BY <1>5 DEF s

LEMMA RightSells ==
  ASSUME NEW events, LedgerRight(events), NEW n \in 2..Len(events),
         events[n].command.type = "fill", events[n].command.side = "sell"
  PROVE  LET e == events[n]
             p == events[n - 1].state.positions[e.command.symbol]
             off == -e.effect.cost * p.quantity - p.cost * e.command.quantity
         IN 2 * off <= p.quantity /\ -2 * off <= p.quantity
<1> DEFINE c == events[n].command
           b == events[n - 1].state
           p == b.positions[c.symbol]
           cost == events[n].effect.cost
<1>1. events \in Seq(Event) /\ n \in Nat /\ Len(events) \in Nat /\ n - 1 \in 0..Len(events)
      /\ n \in 1..Len(events)
  BY DEF LedgerRight
<1>2. After(events, n - 1) = b
  BY <1>1 DEF After
<1>3. /\ c \in Command /\ Allowed(b, c) /\ events[n].effect = Effect(b, c)
      /\ b \in State
  BY <1>1, <1>2, AfterType DEF LedgerRight, EventRight, Applicable
<1> DEFINE f == Effect(b, c)
<1>4. c.type = "fill" /\ c.side = "sell"
  OBVIOUS
<1> HIDE DEF c, b, f
<1>5. /\ c.symbol \in Symbol /\ c.quantity \in Nat \ {0}
      /\ p.quantity >= c.quantity
  BY <1>3, <1>4, CommandFacts DEF Allowed, FillAllowed
<1>6. p.quantity \in Int /\ p.cost \in Int
  BY <1>3, <1>5, StateFacts
<1>7. f.cost = -RemovedCost(p, c.quantity)
  BY <1>4 DEF Effect, FillEffect, f
<1>8. cost = f.cost
  BY <1>3 DEF f, cost
<1> HIDE DEF p, cost
<1>9. p.quantity \in Nat \ {0}
  BY <1>5, <1>6
<1> DEFINE x == RemovedCost(p, c.quantity)
<1>10. /\ x \in Int
       /\ 2 * (x * p.quantity - p.cost * c.quantity) <= p.quantity
       /\ -2 * (x * p.quantity - p.cost * c.quantity) <= p.quantity
  BY <1>5, <1>6, <1>9, ShareOfCost
<1> HIDE DEF x
<1>11. cost = -x /\ -cost = x /\ cost \in Int
  <2>1. cost = -x
    BY <1>7, <1>8 DEF x
  <2> QED
    BY <1>10, <2>1
<1>12. /\ 2 * ((-cost) * p.quantity - p.cost * c.quantity) <= p.quantity
       /\ -2 * ((-cost) * p.quantity - p.cost * c.quantity) <= p.quantity
  BY <1>10, <1>11
<1>13. -cost * p.quantity = (-cost) * p.quantity
  <2>1. \A i, j \in Int : -i * j = (-i) * j
    OBVIOUS
  <2> QED
    BY <1>6, <1>11, <2>1
<1> QED
  BY <1>12, <1>13, Zenon DEF c, b, p, cost

-----------------------------------------------------------------------------
(* The inductive invariant *)

\* What an answer, a snapshot, a reconciliation and a read say, as ledgers stand.
ToldIs(ledgers, t) ==
  /\ t.account \in Account /\ t.version \in 1..Len(ledgers[t.account])
  /\ t.projection = Stood(ledgers[t.account], t.version)

SnapshotIs(events, s) ==
  s # NoReceipt => s.version \in 0..Len(events) /\ s = Stood(events, s.version)

FindingIs(events, x) ==
  x # NoReceipt =>
    /\ x.version \in 0..Len(events)
    /\ (x.outcome = "matched") <=> (x.candidate = Stood(events, x.version))

ReadIs(ledgers, x) ==
  /\ x.at \in {"events", "cash", "positions"} => Extends(x.events, ledgers[x.account])
  /\ x.at = "positions" => x.row.version = Len(x.events)
  /\ x.at = "done" /\ x.result \notin {Corrupt, NoProjection} =>
       /\ x.row.version \in 0..Len(ledgers[x.account])
       /\ x.result = Stood(ledgers[x.account], x.row.version)

AtRow  == [at : {"row"}, account : Account, row : Row]
AtRest == [at : {"events", "cash", "positions"}, account : Account, row : Row \union {Corrupt},
           events : Seq(Event)]
AtDone == [at : {"done"}, account : Account, row : Row \union {Corrupt},
           result : Projection \union {Corrupt, NoProjection}]
Sight  == {Idle} \union AtRow \union AtRest \union AtDone

Typed ==
  /\ accounts \in [Account -> Row \union {NoAccount}]
  /\ ledger \in [Account -> Seq(Event)]
  /\ projections \in [Account -> Projection \union {NoProjection}]
  /\ creations \in [Key -> Receipt \union {NoReceipt}]
  /\ snapshots \in [Account -> [OpKey -> Projection \union {NoReceipt}]]
  /\ reconciliations \in [Account -> [OpKey -> Finding \union {NoReceipt}]]
  /\ reads \in [Reader -> Sight]
  /\ damaged \subseteq Account /\ damages \in 0..MaxDamage

RowsRight ==
  \A a \in Account :
    IF Exists(a)
    THEN accounts[a].version = Len(ledger[a]) /\ accounts[a].status = Rebuild(ledger[a]).status
    ELSE ledger[a] = <<>> /\ projections[a] = NoProjection

LedgersRight == \A a \in Account : LedgerRight(ledger[a])

CreationsRight == \A k \in Key : creations[k] # NoReceipt => Exists(creations[k].answer)

SayingsRight ==
  /\ \A t \in told : ToldIs(ledger, t)
  /\ \A a \in Account, o \in OpKey :
       SnapshotIs(ledger[a], snapshots[a][o]) /\ FindingIs(ledger[a], reconciliations[a][o])
  /\ \A r \in Reader : ReadIs(ledger, reads[r])

IInv ==
  /\ Typed /\ RowsRight /\ LedgersRight /\ CreationsRight /\ SayingsRight
  /\ CacheFollowsLedger /\ MismatchHolds

LEMMA LedgerFacts ==
  ASSUME IInv, NEW a \in Account
  PROVE  /\ ledger[a] \in Seq(Event) /\ Len(ledger[a]) \in Nat /\ LedgerRight(ledger[a])
         /\ Rebuild(ledger[a]) \in State /\ Rebuild(ledger[a]) # Corrupt
         /\ Project(ledger[a]) \in Projection /\ Project(ledger[a]) # NoProjection
         /\ Project(ledger[a]) = Stood(ledger[a], Len(ledger[a]))
         /\ ledger[a] = <<>> => Rebuild(ledger[a]) = Genesis
<1>1. ledger[a] \in Seq(Event) /\ LedgerRight(ledger[a])
  BY DEF IInv, Typed, LedgersRight
<1>2. Len(ledger[a]) \in Nat /\ Len(ledger[a]) \in 0..Len(ledger[a])
  BY <1>1
<1>3. /\ Rebuild(ledger[a]) \in State /\ Project(ledger[a]) \in Projection
      /\ Project(ledger[a]) = Stood(ledger[a], Len(ledger[a]))
  BY <1>1, <1>2, AfterType, Latest
<1>4. ledger[a] = <<>> => Rebuild(ledger[a]) = Genesis
  BY DEF Rebuild
<1> QED
  BY <1>1, <1>2, <1>3, <1>4, CorruptAssumption, AccountAssumption DEF AccountAssumption

\* As ledgers only grow, whatever was said of them stays true.
LEMMA SayingsStay ==
  ASSUME NEW events \in Seq(Event), NEW more \in Seq(Event), Extends(events, more)
  PROVE  /\ \A s : SnapshotIs(events, s) => SnapshotIs(more, s)
         /\ \A x : FindingIs(events, x) => FindingIs(more, x)
<1>1. \A n \in 0..Len(events) : n \in 0..Len(more) /\ Stood(more, n) = Stood(events, n)
  BY StoodStays
<1> QED
  BY <1>1 DEF SnapshotIs, FindingIs

LEMMA ToldStays ==
  ASSUME NEW l \in [Account -> Seq(Event)], NEW m \in [Account -> Seq(Event)],
         \A a \in Account : Extends(l[a], m[a]), NEW t, ToldIs(l, t)
  PROVE  ToldIs(m, t)
<1> DEFINE a == t.account
<1>1. a \in Account /\ t.version \in 1..Len(l[a]) /\ t.projection = Stood(l[a], t.version)
  BY DEF ToldIs
<1>2. l[a] \in Seq(Event) /\ m[a] \in Seq(Event) /\ Extends(l[a], m[a])
  BY <1>1
<1> HIDE DEF a
<1>3. t.version \in 0..Len(l[a])
  BY <1>1, <1>2
<1>4. t.version \in 0..Len(m[a]) /\ Stood(m[a], t.version) = Stood(l[a], t.version)
  BY <1>2, <1>3, StoodStays
<1>5. t.version \in 1..Len(m[a])
  BY <1>1, <1>2, <1>4
<1> QED
  BY <1>1, <1>4, <1>5 DEF ToldIs, a

LEMMA ReadStays ==
  ASSUME NEW l \in [Account -> Seq(Event)], NEW m \in [Account -> Seq(Event)],
         \A a \in Account : Extends(l[a], m[a]), NEW x \in Sight, ReadIs(l, x)
  PROVE  ReadIs(m, x)
<1>1. CASE x = Idle
  BY <1>1 DEF Idle, ReadIs
<1>2. CASE x \in AtRow
  BY <1>2 DEF AtRow, ReadIs
<1>3. CASE x \in AtRest
  <2>1. x.account \in Account /\ x.events \in Seq(Event) /\ x.at # "done"
        /\ x.at \in {"events", "cash", "positions"}
    BY <1>3 DEF AtRest
  <2>2. l[x.account] \in Seq(Event) /\ m[x.account] \in Seq(Event) /\ Extends(l[x.account], m[x.account])
    BY <2>1
  <2>3. Extends(x.events, l[x.account])
    BY <2>1 DEF ReadIs
  <2>4. Extends(x.events, m[x.account])
    BY <2>1, <2>2, <2>3 DEF Extends
  <2> QED
    BY <2>1, <2>4 DEF ReadIs
<1>4. CASE x \in AtDone
  <2>1. x.account \in Account /\ x.at = "done"
    BY <1>4 DEF AtDone
  <2>2. l[x.account] \in Seq(Event) /\ m[x.account] \in Seq(Event) /\ Extends(l[x.account], m[x.account])
    BY <2>1
  <2>3. \A n \in 0..Len(l[x.account]) :
          n \in 0..Len(m[x.account]) /\ Stood(m[x.account], n) = Stood(l[x.account], n)
    BY <2>2, StoodStays
  <2> QED
    BY <2>1, <2>3 DEF ReadIs
<1> QED
  BY <1>1, <1>2, <1>3, <1>4 DEF Sight

-----------------------------------------------------------------------------
(* Appending an event *)

LEMMA AppendKeeps ==
  ASSUME IInv, NEW a \in Account, NEW c \in Command, NEW k \in Key,
         EventOf(a, k) = {}, Applicable(Rebuild(ledger[a]), c),
         AppendMutation(a, NewEvent(Rebuild(ledger[a]), c, k, Len(ledger[a])))
  PROVE  /\ accounts' \in [Account -> Row \union {NoAccount}]
         /\ ledger' \in [Account -> Seq(Event)]
         /\ projections' \in [Account -> Projection \union {NoProjection}]
         /\ damaged' \subseteq Account
         /\ RowsRight' /\ LedgersRight' /\ CacheFollowsLedger' /\ MismatchHolds'
         /\ \A b \in Account : Extends(ledger[b], ledger'[b]) /\ (Exists(b) => Exists(b)')
         /\ Exists(a)' /\ Len(ledger'[a]) = Len(ledger[a]) + 1
         /\ LET e == ledger'[a][Len(ledger[a]) + 1]
            IN e.command = c /\ e.key = k /\ e.expected = Len(ledger[a])
         /\ \A b \in Account : b # a => ledger'[b] = ledger[b]
<1>0. PICK events, event, next :
        /\ events = ledger[a]
        /\ event = NewEvent(Rebuild(events), c, k, Len(events))
        /\ next = Append(events, event)
  OBVIOUS
<1> DEFINE row == [version |-> Len(next), projection |-> "current",
                   status |-> Posted(Rebuild(events), event.command, event.effect).status]
<1>1. events \in Seq(Event) /\ Len(events) \in Nat /\ LedgerRight(events)
  BY <1>0, LedgerFacts
<1>2. Unused(events, k)
  BY <1>0 DEF EventOf, Unused
<1>3. /\ LedgerRight(next) /\ Extends(events, next) /\ Len(next) = Len(events) + 1
      /\ next[Len(next)] = event
      /\ event.state = Posted(Rebuild(events), c, event.effect)
      /\ event.command = c /\ event.key = k /\ event.expected = Len(events)
  <2>1. Applicable(Rebuild(events), c)
    BY <1>0
  <2>2. /\ LedgerRight(next) /\ Extends(events, next) /\ IsOneMore(events, next, event)
        /\ Carries(event, c, k, Len(events), Rebuild(events))
    BY <1>0, <1>1, <1>2, <2>1, AppendIsRight
  <2> QED
    BY <2>2 DEF Carries, IsOneMore
<1>4. next \in Seq(Event) /\ Len(next) \in Nat /\ Len(next) \in 0..Len(next)
  BY <1>1, <1>3 DEF LedgerRight
<1>5. Rebuild(next) \in State /\ Project(next) \in Projection /\ Rebuild(next) = event.state
  <2>1. next # <<>>
    BY <1>1, <1>3, <1>4
  <2>2. Rebuild(next) = event.state
    BY <1>3, <2>1 DEF Rebuild
  <2> QED
    BY <1>4, <2>2, AfterType, Latest
<1>6. PICK l, p, w :
        /\ l = next /\ p = Project(next) /\ w = row
        /\ ledger' = [ledger EXCEPT ![a] = l]
        /\ projections' = [projections EXCEPT ![a] = p]
        /\ accounts' = [accounts EXCEPT ![a] = w]
        /\ damaged' = damaged \ {a}
  BY <1>0 DEF AppendMutation
<1>7. w \in Row /\ w # NoAccount /\ w.version = Len(l) /\ w.status = Rebuild(l).status
      /\ w.projection = "current"
  <2>1. w = [version |-> Len(l), projection |-> "current", status |-> Rebuild(l).status]
    BY <1>3, <1>5, <1>6
  <2>2. Rebuild(l).status \in Status
    BY <1>5, <1>6, StateFacts
  <2>3. Len(l) \in Nat
    BY <1>4, <1>6
  <2>4. w \in Row
    BY <2>1, <2>2, <2>3 DEF Row
  <2> QED
    BY <2>1, <2>4, AccountAssumption DEF AccountAssumption
<1>8. /\ l \in Seq(Event) /\ p \in Projection /\ p = Project(l) /\ LedgerRight(l) /\ Extends(events, l)
      /\ Len(l) = Len(events) + 1
      /\ l[Len(events) + 1].command = c /\ l[Len(events) + 1].key = k
      /\ l[Len(events) + 1].expected = Len(events)
  BY <1>3, <1>4, <1>5, <1>6
<1> HIDE DEF row
<1>9. events = ledger[a]
  BY <1>0
<1>10. /\ ledger \in [Account -> Seq(Event)] /\ accounts \in [Account -> Row \union {NoAccount}]
       /\ projections \in [Account -> Projection \union {NoProjection}] /\ damaged \subseteq Account
  BY DEF IInv, Typed
<1>11. /\ ledger'[a] = l /\ projections'[a] = p /\ accounts'[a] = w
       /\ \A b \in Account : b # a =>
            ledger'[b] = ledger[b] /\ projections'[b] = projections[b] /\ accounts'[b] = accounts[b]
  BY <1>6, <1>10
<1>12. /\ accounts' \in [Account -> Row \union {NoAccount}] /\ ledger' \in [Account -> Seq(Event)]
       /\ projections' \in [Account -> Projection \union {NoProjection}] /\ damaged' \subseteq Account
  BY <1>6, <1>7, <1>8, <1>10
<1>13. \A b \in Account : Extends(ledger[b], ledger'[b]) /\ (Exists(b) => Exists(b)')
  <2>1. \A b \in Account : Extends(ledger[b], ledger[b])
    BY <1>10 DEF Extends
  <2> QED
    BY <1>7, <1>8, <1>9, <1>11, <2>1 DEF Exists
<1>14. RowsRight'
  BY <1>7, <1>11 DEF IInv, RowsRight, Exists
<1>15. LedgersRight'
  BY <1>8, <1>11 DEF IInv, LedgersRight
<1>16. CacheFollowsLedger'
  BY <1>6, <1>8, <1>11 DEF IInv, CacheFollowsLedger, Exists
<1>17. MismatchHolds'
  BY <1>6, <1>7, <1>11 DEF IInv, MismatchHolds, Exists
<1>18. Exists(a)'
  BY <1>7, <1>11 DEF Exists
<1> QED
  BY <1>8, <1>9, <1>11, <1>12, <1>13, <1>14, <1>15, <1>16, <1>17, <1>18

LEMMA SayingsKept ==
  ASSUME IInv, ledger' \in [Account -> Seq(Event)],
         \A a \in Account : Extends(ledger[a], ledger'[a]),
         UNCHANGED <<snapshots, reconciliations, reads>>,
         \A t \in told' : t \in told \/ ToldIs(ledger', t)
  PROVE  SayingsRight'
<1>1. ledger \in [Account -> Seq(Event)] /\ reads \in [Reader -> Sight]
  BY DEF IInv, Typed
<1>2. \A t \in told' : ToldIs(ledger', t)
  <2>1. \A t \in told : ToldIs(ledger, t)
    BY DEF IInv, SayingsRight
  <2>2. \A t : ToldIs(ledger, t) => ToldIs(ledger', t)
    BY <1>1, ToldStays
  <2> QED
    BY <2>1, <2>2
<1>3. \A a \in Account, o \in OpKey :
        SnapshotIs(ledger'[a], snapshots[a][o]) /\ FindingIs(ledger'[a], reconciliations[a][o])
  <2> SUFFICES ASSUME NEW a \in Account, NEW o \in OpKey
               PROVE  SnapshotIs(ledger'[a], snapshots[a][o]) /\ FindingIs(ledger'[a], reconciliations[a][o])
    OBVIOUS
  <2>1. SnapshotIs(ledger[a], snapshots[a][o]) /\ FindingIs(ledger[a], reconciliations[a][o])
    BY DEF IInv, SayingsRight
  <2>2. ledger[a] \in Seq(Event) /\ ledger'[a] \in Seq(Event) /\ Extends(ledger[a], ledger'[a])
    BY <1>1
  <2> QED
    BY <2>1, <2>2, SayingsStay
<1>4. \A r \in Reader : ReadIs(ledger', reads[r])
  <2> SUFFICES ASSUME NEW r \in Reader PROVE ReadIs(ledger', reads[r])
    OBVIOUS
  <2>1. reads[r] \in Sight /\ ReadIs(ledger, reads[r])
    BY <1>1 DEF IInv, SayingsRight
  <2> QED
    BY <1>1, <2>1, ReadStays
<1> QED
  BY <1>2, <1>3, <1>4 DEF SayingsRight

LEMMA CreationsStay ==
  ASSUME IInv, \A b \in Account : Exists(b) => Exists(b)'
  PROVE  \A j \in Key : creations[j] # NoReceipt => accounts'[creations[j].answer] # NoAccount
<1> SUFFICES ASSUME NEW j \in Key, creations[j] # NoReceipt
             PROVE  accounts'[creations[j].answer] # NoAccount
  OBVIOUS
<1>1. Exists(creations[j].answer) /\ creations[j] \in Receipt
  BY DEF IInv, CreationsRight, Typed
<1>2. creations[j].answer \in Account
  BY <1>1 DEF Receipt
<1> QED
  BY <1>1, <1>2 DEF Exists

LEMMA CreateKeeps ==
  ASSUME IInv, NEW a \in Account, NEW c \in Command, NEW k \in Key, Create(a, c, k)
  PROVE  IInv'
<1>1. /\ creations[k] = NoReceipt /\ ~Exists(a) /\ Applicable(Genesis, c)
      /\ AppendMutation(a, NewEvent(Genesis, c, k, 0))
      /\ creations' = [creations EXCEPT ![k] = [command |-> c, answer |-> a]]
      /\ UNCHANGED <<snapshots, reconciliations, told, reads, damages>>
  BY DEF Create
<1>2. ledger[a] = <<>> /\ Rebuild(ledger[a]) = Genesis /\ Len(ledger[a]) = 0 /\ EventOf(a, k) = {}
  <2>1. ledger[a] = <<>>
    BY <1>1 DEF IInv, RowsRight
  <2> QED
    BY <2>1 DEF Rebuild, EventOf
<1>3. /\ accounts' \in [Account -> Row \union {NoAccount}]
      /\ ledger' \in [Account -> Seq(Event)]
      /\ projections' \in [Account -> Projection \union {NoProjection}]
      /\ damaged' \subseteq Account
      /\ RowsRight' /\ LedgersRight' /\ CacheFollowsLedger' /\ MismatchHolds'
      /\ \A b \in Account : Extends(ledger[b], ledger'[b]) /\ (Exists(b) => Exists(b)')
      /\ Exists(a)'
  BY <1>1, <1>2, AppendKeeps
<1>4. SayingsRight'
  BY <1>1, <1>3, SayingsKept
<1>5. [command |-> c, answer |-> a] \in Receipt
  BY DEF Receipt
<1>6. /\ creations' \in [Key -> Receipt \union {NoReceipt}]
      /\ \A j \in Key : creations'[j] = IF j = k THEN [command |-> c, answer |-> a] ELSE creations[j]
  BY <1>1, <1>5 DEF IInv, Typed
<1>7. CreationsRight'
  BY <1>3, <1>6, CreationsStay DEF CreationsRight, Exists
<1>8. Typed'
  BY <1>1, <1>3, <1>6 DEF IInv, Typed
<1> QED
  BY <1>3, <1>4, <1>7, <1>8 DEF IInv

LEMMA MutateKeeps ==
  ASSUME IInv, NEW a \in Account, NEW c \in Command, NEW k \in Key, NEW v \in Version,
         Mutate(a, c, k, v)
  PROVE  IInv'
<1>1. /\ EventOf(a, k) = {} /\ Exists(a) /\ v = accounts[a].version
      /\ Applicable(Rebuild(ledger[a]), c)
      /\ AppendMutation(a, NewEvent(Rebuild(ledger[a]), c, k, v))
      /\ told' \in {told, told \union {AnswerOf(a, k, v + 1)'}}
      /\ UNCHANGED <<creations, snapshots, reconciliations, toldCreations, reads, damages>>
  BY DEF Mutate
<1>2. v = Len(ledger[a]) /\ v \in Nat
  BY <1>1, LedgerFacts DEF IInv, RowsRight
<1>3. /\ accounts' \in [Account -> Row \union {NoAccount}]
      /\ ledger' \in [Account -> Seq(Event)]
      /\ projections' \in [Account -> Projection \union {NoProjection}]
      /\ damaged' \subseteq Account
      /\ RowsRight' /\ LedgersRight' /\ CacheFollowsLedger' /\ MismatchHolds'
      /\ \A b \in Account : Extends(ledger[b], ledger'[b]) /\ (Exists(b) => Exists(b)')
      /\ Len(ledger'[a]) = v + 1
  BY <1>1, <1>2, AppendKeeps
<1>4. PICK t : t = AnswerOf(a, k, v + 1)'
  OBVIOUS
<1>5. t.account = a /\ t.version = v + 1 /\ t.projection = Project(SubSeq(ledger'[a], 1, v + 1))
  BY <1>4 DEF AnswerOf, Prefix
<1>6. ToldIs(ledger', t)
  <2>1. ledger'[a] \in Seq(Event) /\ v + 1 \in 1..Len(ledger'[a]) /\ v + 1 \in 0..Len(ledger'[a])
    BY <1>2, <1>3
  <2>2. Project(SubSeq(ledger'[a], 1, v + 1)) = Stood(ledger'[a], v + 1)
    BY <2>1, HeadOfPrefix
  <2> QED
    BY <1>5, <2>1, <2>2 DEF ToldIs
<1>7. \A x \in told' : x \in told \/ ToldIs(ledger', x)
  BY <1>1, <1>4, <1>6
<1>8. SayingsRight'
  BY <1>1, <1>3, <1>7, SayingsKept
<1>9. CreationsRight'
  BY <1>1, <1>3, CreationsStay DEF CreationsRight, Exists
<1>10. Typed'
  BY <1>1, <1>3 DEF IInv, Typed
<1> QED
  BY <1>3, <1>8, <1>9, <1>10 DEF IInv

-----------------------------------------------------------------------------
(* Commands that are sent again *)

LEMMA AgainKeeps ==
  ASSUME IInv, UNCHANGED <<stored, reads, outside>>,
         \A t \in told' : t \in told \/ ToldIs(ledger', t)
  PROVE  IInv'
<1>1. UNCHANGED <<accounts, ledger, projections, creations, snapshots, reconciliations, reads,
                  damaged, damages>>
  BY DEF stored, outside
<1>2. SayingsRight'
  BY <1>1 DEF IInv, SayingsRight
<1> QED
  BY <1>1, <1>2 DEF IInv, Typed, RowsRight, LedgersRight, CreationsRight, CacheFollowsLedger,
    MismatchHolds, Exists

LEMMA RepeatKeeps ==
  ASSUME IInv, NEW a \in Account, NEW c \in Command, NEW k \in Key, NEW v \in Version,
         Repeat(a, c, k, v)
  PROVE  IInv'
<1>1. PICK n \in EventOf(a, k) : told' = told \union {AnswerOf(a, k, n)}
  BY DEF Repeat
<1>2. UNCHANGED <<stored, reads, outside>> /\ ledger' = ledger
  BY DEF Repeat, stored
<1>3. PICK t : t = AnswerOf(a, k, n)
  OBVIOUS
<1>4. n \in 1..Len(ledger[a]) /\ n \in 0..Len(ledger[a]) /\ ledger[a] \in Seq(Event)
  BY LedgerFacts DEF EventOf
<1>5. ToldIs(ledger', t)
  <2>1. t.account = a /\ t.version = n /\ t.projection = Project(SubSeq(ledger[a], 1, n))
    BY <1>3 DEF AnswerOf, Prefix
  <2>2. Project(SubSeq(ledger[a], 1, n)) = Stood(ledger[a], n)
    BY <1>4, HeadOfPrefix
  <2> QED
    BY <1>2, <1>4, <2>1, <2>2 DEF ToldIs
<1> QED
  BY <1>1, <1>2, <1>3, <1>5, AgainKeeps

-----------------------------------------------------------------------------
(* The projection: repair, evidence, damage *)

LEMMA RebuildKeeps ==
  ASSUME IInv, NEW a \in Account, NEW v \in Version, RebuildProjection(a, v)
  PROVE  IInv'
<1>1. PICK p, w :
        /\ p = Project(ledger[a]) /\ w = [accounts[a] EXCEPT !.projection = "current"]
        /\ projections' = [projections EXCEPT ![a] = p]
        /\ accounts' = [accounts EXCEPT ![a] = w]
        /\ damaged' = damaged \ {a} /\ Exists(a)
        /\ UNCHANGED <<ledger, creations, snapshots, reconciliations, told, reads, damages>>
  BY DEF RebuildProjection, history
<1>2. p \in Projection
  BY <1>1, LedgerFacts
<1>3. accounts[a] \in Row
  BY <1>1 DEF IInv, Typed, Exists
<1>4. /\ w \in Row /\ w # NoAccount /\ w.projection = "current"
      /\ w.version = accounts[a].version /\ w.status = accounts[a].status
  <2>1. w = [version |-> accounts[a].version, status |-> accounts[a].status, projection |-> "current"]
    BY <1>1, <1>3 DEF Row
  <2> QED
    BY <1>3, <2>1, AccountAssumption DEF Row, AccountAssumption
<1>5. /\ projections'[a] = p /\ accounts'[a] = w
      /\ \A b \in Account : b # a => projections'[b] = projections[b] /\ accounts'[b] = accounts[b]
  BY <1>1 DEF IInv, Typed
<1>6. Typed'
  BY <1>1, <1>2, <1>4 DEF IInv, Typed
<1>7. \A b \in Account : Exists(b)' <=> Exists(b)
  BY <1>1, <1>4, <1>5 DEF Exists
<1>8. RowsRight'
  BY <1>1, <1>4, <1>5, <1>7 DEF IInv, RowsRight
<1>9. LedgersRight'
  BY <1>1 DEF IInv, LedgersRight
<1>10. CreationsRight'
  BY <1>1, <1>7, CreationsStay DEF CreationsRight, Exists
<1>11. SayingsRight'
  BY <1>1 DEF IInv, SayingsRight
<1>12. CacheFollowsLedger'
  BY <1>1, <1>5, <1>7 DEF IInv, CacheFollowsLedger
<1>13. MismatchHolds'
  BY <1>1, <1>4, <1>5, <1>7 DEF IInv, MismatchHolds
<1> QED
  BY <1>6, <1>8, <1>9, <1>10, <1>11, <1>12, <1>13 DEF IInv

LEMMA SnapshotKeeps ==
  ASSUME IInv, NEW a \in Account, NEW o \in OpKey, NEW v \in Version, CreateSnapshot(a, o, v)
  PROVE  IInv'
<1>1. PICK p :
        /\ p = Project(ledger[a])
        /\ snapshots' = [snapshots EXCEPT ![a] = [@ EXCEPT ![o] = p]]
        /\ UNCHANGED <<accounts, ledger, projections, creations, reconciliations, told, reads,
                       damaged, damages>>
  BY DEF CreateSnapshot, history, outside
<1>2. p \in Projection /\ SnapshotIs(ledger[a], p)
  <2>1. p = Stood(ledger[a], Len(ledger[a])) /\ Len(ledger[a]) \in 0..Len(ledger[a])
    BY <1>1, LedgerFacts
  <2>2. p.version = Len(ledger[a])
    BY <2>1 DEF Stood
  <2> QED
    BY <1>1, <2>1, <2>2, LedgerFacts DEF SnapshotIs
<1>3. Typed'
  BY <1>1, <1>2 DEF IInv, Typed
<1>4. SayingsRight'
  <2>1. \A b \in Account, q \in OpKey :
          snapshots'[b][q] = IF b = a /\ q = o THEN p ELSE snapshots[b][q]
    BY <1>1 DEF IInv, Typed
  <2> QED
    BY <1>1, <1>2, <2>1 DEF IInv, SayingsRight
<1> QED
  BY <1>1, <1>3, <1>4 DEF IInv, RowsRight, LedgersRight, CreationsRight, CacheFollowsLedger,
    MismatchHolds, Exists

LEMMA ReconcileKeeps ==
  ASSUME IInv, NEW a \in Account, NEW o \in OpKey, NEW v \in Version, ReconcileProjection(a, o, v)
  PROVE  IInv'
<1>1. PICK x, w :
        /\ x = [version |-> v, candidate |-> projections[a], outcome |-> Outcome(a)]
        /\ w = [accounts[a] EXCEPT !.projection =
                 IF Outcome(a) = "matched" THEN "current" ELSE "reconciliation_required"]
        /\ reconciliations' = [reconciliations EXCEPT ![a] = [@ EXCEPT ![o] = x]]
        /\ accounts' = [accounts EXCEPT ![a] = w]
        /\ Exists(a) /\ projections[a] # NoProjection /\ v = Len(ledger[a])
        /\ UNCHANGED <<ledger, projections, creations, snapshots, told, reads, damaged, damages>>
  BY DEF ReconcileProjection, history, outside
<1>2. /\ accounts[a] \in Row /\ projections[a] \in Projection
      /\ Outcome(a) \in {"matched", "mismatched"}
      /\ Outcome(a) = "matched" <=> projections[a] = Project(ledger[a])
  BY <1>1 DEF IInv, Typed, Exists, Outcome
<1>3. /\ w \in Row /\ w # NoAccount
      /\ w.version = accounts[a].version /\ w.status = accounts[a].status
      /\ w.projection = "reconciliation_required" => projections[a] # Project(ledger[a])
  <2>1. w = [version |-> accounts[a].version, status |-> accounts[a].status,
             projection |-> IF Outcome(a) = "matched" THEN "current" ELSE "reconciliation_required"]
    BY <1>1, <1>2 DEF Row
  <2>2. w \in Row
    BY <1>2, <2>1 DEF Row
  <2>3. w.projection = "reconciliation_required" => Outcome(a) # "matched"
    BY <2>1
  <2> QED
    BY <1>2, <2>1, <2>2, <2>3, AccountAssumption DEF AccountAssumption
<1>4. x \in Finding /\ FindingIs(ledger[a], x)
  <2>1. v \in Nat /\ v \in 0..Len(ledger[a]) /\ Project(ledger[a]) = Stood(ledger[a], v)
    BY <1>1, LedgerFacts
  <2>2. x.version = v /\ x.candidate = projections[a] /\ x.outcome = Outcome(a)
    BY <1>1
  <2> QED
    BY <1>1, <1>2, <2>1, <2>2 DEF Finding, FindingIs
<1>5. /\ accounts'[a] = w /\ \A b \in Account : b # a => accounts'[b] = accounts[b]
      /\ \A b \in Account : Exists(b)' <=> Exists(b)
  BY <1>1, <1>3 DEF IInv, Typed, Exists
<1>6. Typed'
  BY <1>1, <1>3, <1>4 DEF IInv, Typed
<1>7. SayingsRight'
  <2>1. \A b \in Account, q \in OpKey :
          reconciliations'[b][q] = IF b = a /\ q = o THEN x ELSE reconciliations[b][q]
    BY <1>1 DEF IInv, Typed
  <2> QED
    BY <1>1, <1>4, <2>1 DEF IInv, SayingsRight
<1>8. RowsRight' /\ LedgersRight' /\ CacheFollowsLedger'
  BY <1>1, <1>3, <1>5 DEF IInv, RowsRight, LedgersRight, CacheFollowsLedger
<1>9. CreationsRight'
  BY <1>1, <1>5, CreationsStay DEF CreationsRight, Exists
<1>10. MismatchHolds'
  <2> SUFFICES ASSUME NEW b \in Account, Exists(b)', accounts'[b].projection = "reconciliation_required"
               PROVE  b \in damaged
    BY <1>1 DEF MismatchHolds
  <2>1. CASE b = a
    BY <1>1, <1>3, <1>5, <2>1 DEF IInv, CacheFollowsLedger
  <2>2. CASE b # a
    BY <1>5, <2>2 DEF IInv, MismatchHolds
  <2> QED
    BY <2>1, <2>2
<1> QED
  BY <1>6, <1>7, <1>8, <1>9, <1>10 DEF IInv

LEMMA DamageKeeps ==
  ASSUME IInv, NEW a \in Account, Damage(a)
  PROVE  IInv'
<1>1. PICK p \in {NoProjection, [projections[a] EXCEPT !.state.cash = @ + 1]} \union
                 {Project(Prefix(a, n)) : n \in 1..Len(ledger[a]) - 1} :
        projections' = [projections EXCEPT ![a] = p]
  BY DEF Damage
<1>2. /\ Exists(a) /\ projections[a] # NoProjection
      /\ damages < MaxDamage /\ damaged' = damaged \union {a} /\ damages' = damages + 1
      /\ UNCHANGED <<accounts, ledger, creations, snapshots, reconciliations, told, reads>>
  BY DEF Damage, history
<1>3. p \in Projection \union {NoProjection}
  <2>1. CASE p = [projections[a] EXCEPT !.state.cash = @ + 1]
    <3> DEFINE q == projections[a]
    <3>1. q \in Projection
      BY <1>2 DEF IInv, Typed
    <3> HIDE DEF q
    <3>2. q.version \in Nat /\ q.state \in State
      BY <3>1 DEF Projection
    <3>3. PICK s : s = [q.state EXCEPT !.cash = @ + 1]
      OBVIOUS
    <3>4. q.state = [status |-> q.state.status, cash |-> q.state.cash,
                     positions |-> q.state.positions, links |-> q.state.links]
      BY <3>2 DEF State
    <3>5. s = [status |-> q.state.status, cash |-> q.state.cash + 1,
               positions |-> q.state.positions, links |-> q.state.links]
      BY <3>3, <3>4
    <3>6. s \in State
      BY <3>2, <3>5, StateFacts DEF State
    <3>7. p = [version |-> q.version, state |-> s]
      BY <2>1, <3>1, <3>3 DEF Projection, q
    <3> QED
      BY <3>2, <3>6, <3>7 DEF Projection
  <2>2. ASSUME NEW n \in 1..Len(ledger[a]) - 1, p = Project(Prefix(a, n)) PROVE p \in Projection
    <3>1. n \in 0..Len(ledger[a]) /\ ledger[a] \in Seq(Event)
      BY LedgerFacts
    <3>2. p = Stood(ledger[a], n)
      BY <2>2, <3>1, HeadOfPrefix DEF Prefix
    <3> QED
      BY <3>1, <3>2, AfterType
  <2> QED
    BY <1>1, <2>1, <2>2
<1>4. Typed'
  <2>1. damages' \in 0..MaxDamage
    BY <1>2, AccountAssumption DEF IInv, Typed, AccountAssumption
  <2> QED
    BY <1>1, <1>2, <1>3, <2>1 DEF IInv, Typed
<1>5. \A b \in Account : b # a => projections'[b] = projections[b]
  BY <1>1 DEF IInv, Typed
<1>6. RowsRight' /\ CacheFollowsLedger' /\ MismatchHolds'
  BY <1>2, <1>5 DEF IInv, RowsRight, CacheFollowsLedger, MismatchHolds, Exists
<1> QED
  BY <1>2, <1>4, <1>6 DEF IInv, LedgersRight, CreationsRight, SayingsRight, Exists

-----------------------------------------------------------------------------
(* Reads *)

LEMMA ReadKeeps ==
  ASSUME IInv, NEW r \in Reader, NEW x \in Sight, ReadIs(ledger, x), Read(r, x)
  PROVE  IInv'
<1>1. /\ reads' = [reads EXCEPT ![r] = x]
      /\ UNCHANGED <<accounts, ledger, projections, creations, snapshots, reconciliations, told,
                     damaged, damages>>
  BY DEF Read, stored, history, outside
<1>2. Typed'
  BY <1>1 DEF IInv, Typed
<1>3. \A q \in Reader : reads'[q] = IF q = r THEN x ELSE reads[q]
  BY <1>1 DEF IInv, Typed
<1>4. SayingsRight'
  BY <1>1, <1>3 DEF IInv, SayingsRight
<1> QED
  BY <1>1, <1>2, <1>4 DEF IInv, RowsRight, LedgersRight, CreationsRight, CacheFollowsLedger,
    MismatchHolds, Exists

LEMMA FinishKeeps ==
  ASSUME IInv, NEW r \in Reader, NEW result \in Projection \union {Corrupt, NoProjection},
         Seen(r) \in AtRest, Finish(r, result),
         result \notin {Corrupt, NoProjection} =>
           /\ Seen(r).row.version \in 0..Len(ledger[Seen(r).account])
           /\ result = Stood(ledger[Seen(r).account], Seen(r).row.version)
  PROVE  IInv'
<1>1. PICK x : x = [at |-> "done", account |-> Seen(r).account, row |-> Seen(r).row, result |-> result]
  OBVIOUS
<1>2. x \in AtDone
  BY <1>1 DEF AtRest, AtDone
<1>3. x \in Sight /\ ReadIs(ledger, x)
  BY <1>1, <1>2 DEF Sight, ReadIs
<1> QED
  BY <1>1, <1>3, ReadKeeps DEF Finish

LEMMA ReadRowKeeps ==
  ASSUME IInv, NEW r \in Reader, NEW a \in Account, ReadRow(r, a)
  PROVE  IInv'
<1>1. PICK x : x = [at |-> "row", account |-> a, row |-> accounts[a]]
  OBVIOUS
<1>2. x \in AtRow
  BY <1>1 DEF ReadRow, Exists, AtRow, IInv, Typed
<1>3. x \in Sight /\ ReadIs(ledger, x)
  BY <1>1, <1>2 DEF Sight, ReadIs
<1> QED
  BY <1>1, <1>3, ReadKeeps DEF ReadRow

LEMMA ReadEventsKeeps ==
  ASSUME IInv, NEW r \in Reader, ReadEvents(r)
  PROVE  IInv'
<1>1. PICK x : x = [at |-> "events", account |-> Seen(r).account, row |-> Seen(r).row,
                    events |-> ledger[Seen(r).account]]
  OBVIOUS
<1>2. Seen(r) \in AtRow
  <2>1. Seen(r) \in Sight /\ Seen(r).at = "row"
    BY DEF ReadEvents, Seen, IInv, Typed
  <2> QED
    BY <2>1 DEF Sight, Idle, AtRest, AtDone
<1>3. Seen(r).account \in Account /\ Seen(r).row \in Row
  BY <1>2 DEF AtRow
<1>4. ledger[Seen(r).account] \in Seq(Event)
  BY <1>3, LedgerFacts
<1>5. x \in AtRest
  BY <1>1, <1>3, <1>4 DEF AtRest
<1>6. Extends(ledger[Seen(r).account], ledger[Seen(r).account])
  BY <1>4 DEF Extends
<1>7. x \in Sight /\ ReadIs(ledger, x)
  BY <1>1, <1>5, <1>6 DEF Sight, ReadIs
<1> QED
  BY <1>1, <1>7, ReadKeeps DEF ReadEvents

LEMMA SeenAtRest ==
  ASSUME IInv, NEW r \in Reader, Seen(r).at \in {"events", "cash", "positions"}
  PROVE  /\ Seen(r) \in AtRest /\ Seen(r).account \in Account /\ Seen(r).events \in Seq(Event)
         /\ Seen(r).row \in Row \union {Corrupt}
         /\ Extends(Seen(r).events, ledger[Seen(r).account]) /\ ReadIs(ledger, Seen(r))
         /\ Seen(r) = [at |-> Seen(r).at, account |-> Seen(r).account, row |-> Seen(r).row,
                       events |-> Seen(r).events]
<1>1. Seen(r) \in AtRest
  BY DEF Seen, IInv, Typed, Sight, Idle, AtRow, AtDone
<1>2. ReadIs(ledger, Seen(r))
  BY DEF Seen, IInv, SayingsRight
<1> QED
  BY <1>1, <1>2 DEF AtRest, ReadIs

LEMMA ReadCashKeeps ==
  ASSUME IInv, NEW r \in Reader, ReadCash(r)
  PROVE  IInv'
<1> DEFINE orphan == \E n \in Newer(r) : HasCash(ledger[Seen(r).account][n])
<1>1. PICK x : x = [Seen(r) EXCEPT !.at = "cash", !.row = IF orphan THEN Corrupt ELSE @]
  OBVIOUS
<1>2. Read(r, x) /\ Seen(r).at = "events"
  BY <1>1 DEF ReadCash
<1> HIDE DEF orphan
<1>3. PICK row \in Row \union {Corrupt} :
        x = [at |-> "cash", account |-> Seen(r).account, row |-> row, events |-> Seen(r).events]
  <2>1. PICK row : row = IF orphan THEN Corrupt ELSE Seen(r).row
    OBVIOUS
  <2>2. row \in Row \union {Corrupt}
    BY <1>2, <2>1, SeenAtRest
  <2>3. PICK y : y = Seen(r)
    OBVIOUS
  <2>4. y = [at |-> y.at, account |-> y.account, row |-> y.row, events |-> y.events]
    BY <1>2, <2>3, SeenAtRest
  <2>5. x = [y EXCEPT !.at = "cash", !.row = row]
    BY <1>1, <2>1, <2>3
  <2>6. x = [at |-> "cash", account |-> y.account, row |-> row, events |-> y.events]
    BY <2>4, <2>5
  <2> QED
    BY <2>2, <2>3, <2>6
<1>4. x \in AtRest
  BY <1>2, <1>3, SeenAtRest DEF AtRest
<1>5. x \in Sight /\ ReadIs(ledger, x)
  BY <1>2, <1>3, <1>4, SeenAtRest DEF Sight, ReadIs
<1> QED
  BY <1>2, <1>5, ReadKeeps

LEMMA ReadPositionsKeeps ==
  ASSUME IInv, NEW r \in Reader, ReadPositions(r)
  PROVE  IInv'
<1>1. Seen(r).at = "cash"
  BY DEF ReadPositions
<1>2. CASE Finish(r, Corrupt) \/ Finish(r, NoProjection)
  BY <1>1, <1>2, SeenAtRest, FinishKeeps
<1>3. CASE Read(r, [Seen(r) EXCEPT !.at = "positions"]) /\ HistoryValid(r)
  <2>1. PICK x : x = [Seen(r) EXCEPT !.at = "positions"] /\ Read(r, x)
    BY <1>3
  <2>2. x = [at |-> "positions", account |-> Seen(r).account, row |-> Seen(r).row,
             events |-> Seen(r).events]
    BY <1>1, <2>1, SeenAtRest
  <2>3. x \in AtRest
    BY <1>1, <2>2, SeenAtRest DEF AtRest
  <2>4. Seen(r).row.version = Len(Seen(r).events)
    BY <1>3 DEF HistoryValid
  <2>5. x \in Sight /\ ReadIs(ledger, x)
    BY <1>1, <2>2, <2>3, <2>4, SeenAtRest DEF Sight, ReadIs
  <2> QED
    BY <2>1, <2>5, ReadKeeps
<1> QED
  BY <1>2, <1>3 DEF ReadPositions

LEMMA ReadProjectionKeeps ==
  ASSUME IInv, NEW r \in Reader, ReadProjection(r)
  PROVE  IInv'
<1>1. Seen(r).at = "positions"
  BY DEF ReadProjection
<1> DEFINE account == Seen(r).account
           events == Seen(r).events
<1>2. /\ account \in Account /\ events \in Seq(Event) /\ Extends(events, ledger[account])
      /\ Seen(r).row.version = Len(events) /\ ledger[account] \in Seq(Event)
      /\ projections[account] \in Projection \union {NoProjection}
  BY <1>1, SeenAtRest, LedgerFacts DEF ReadIs, IInv, Typed
<1>3. PICK result :
        /\ result = IF projections[account] = Project(events) THEN projections[account] ELSE NoProjection
        /\ Finish(r, result)
  BY DEF ReadProjection
<1> HIDE DEF account, events
<1>4. Len(events) \in 0..Len(events) /\ Project(events) = Stood(events, Len(events))
  BY <1>2, Latest
<1>5. Len(events) \in 0..Len(ledger[account]) /\ Stood(ledger[account], Len(events)) = Stood(events, Len(events))
  BY <1>2, <1>4, StoodStays
<1>6. result \in Projection \union {Corrupt, NoProjection}
  BY <1>2, <1>3
<1>7. result \notin {Corrupt, NoProjection} =>
        /\ Seen(r).row.version \in 0..Len(ledger[account])
        /\ result = Stood(ledger[account], Seen(r).row.version)
  BY <1>2, <1>3, <1>4, <1>5
<1> QED
  BY <1>1, <1>3, <1>6, <1>7, SeenAtRest, FinishKeeps DEF account

-----------------------------------------------------------------------------
(* The invariant of the specification *)

LEMMA Initially == Init => IInv
<1> SUFFICES ASSUME Init PROVE IInv
  OBVIOUS
<1>1. Idle \in Sight /\ ReadIs(ledger, Idle)
  BY DEF Sight, Idle, ReadIs
<1>2. <<>> \in Seq(Event) /\ LedgerRight(<<>>)
  BY DEF LedgerRight, KeysDiffer
<1>3. Typed
  BY <1>1, <1>2, AccountAssumption DEF Init, Typed, AccountAssumption
<1>4. SayingsRight
  BY <1>1 DEF Init, SayingsRight, SnapshotIs, FindingIs
<1> QED
  BY <1>2, <1>3, <1>4
  DEF Init, IInv, RowsRight, LedgersRight, CreationsRight, CacheFollowsLedger, MismatchHolds, Exists

LEMMA Steps == IInv /\ [Next]_vars => IInv'
<1> SUFFICES ASSUME IInv, [Next]_vars PROVE IInv'
  OBVIOUS
<1>1. ASSUME NEW k \in Key, NEW c \in Command, CreateAgain(c, k)
      PROVE  IInv'
  BY <1>1, AgainKeeps DEF CreateAgain
<1>2. ASSUME NEW a \in Account, NEW k \in Key, NEW c \in Command, NEW v \in Version,
             Mutate(a, c, k, v) \/ Repeat(a, c, k, v)
      PROVE  IInv'
  BY <1>2, MutateKeeps, RepeatKeeps
<1>3. ASSUME NEW a \in Account, NEW v \in Version,
             \/ RebuildProjection(a, v)
             \/ \E o \in OpKey : CreateSnapshot(a, o, v) \/ ReconcileProjection(a, o, v)
      PROVE  IInv'
  BY <1>3, RebuildKeeps, SnapshotKeeps, ReconcileKeeps
<1>4. ASSUME NEW r \in Reader,
             \/ \E a \in Account : ReadRow(r, a)
             \/ ReadEvents(r) \/ ReadCash(r) \/ ReadPositions(r) \/ ReadProjection(r) \/ Answered(r)
      PROVE  IInv'
  <2>1. CASE Answered(r)
    <3>1. Idle \in Sight /\ ReadIs(ledger, Idle)
      BY DEF Sight, Idle, ReadIs
    <3> QED
      BY <2>1, <3>1, ReadKeeps DEF Answered
  <2> QED
    BY <1>4, <2>1, ReadRowKeeps, ReadEventsKeeps, ReadCashKeeps, ReadPositionsKeeps, ReadProjectionKeeps
<1>5. CASE UNCHANGED vars
  BY <1>5, AgainKeeps DEF vars, history
<1> QED
  BY <1>1, <1>2, <1>3, <1>4, <1>5, CreateKeeps, DamageKeeps DEF Next

LEMMA Invariant == Spec => []IInv
BY Initially, Steps, PTL DEF Spec

LEMMA SoundTypes == IInv => TypeOK
<1> SUFFICES ASSUME IInv PROVE TypeOK
  OBVIOUS
<1>1. \A a \in Account :
        /\ Exists(a) => /\ accounts[a].version = Len(ledger[a])
                        /\ accounts[a].projection \in {"current", "reconciliation_required"}
        /\ ~Exists(a) => ledger[a] = <<>> /\ projections[a] = NoProjection
  <2>1. \A a \in Account : Exists(a) => accounts[a] \in Row
    BY DEF IInv, Typed, Exists
  <2> QED
    BY <2>1 DEF IInv, RowsRight, Row
<1>2. \A t \in told : t.version \in 1..Len(ledger[t.account])
  BY DEF IInv, SayingsRight, ToldIs
<1>3. \A r \in Reader : reads[r].at \in {"idle", "row", "events", "cash", "positions", "done"}
  BY DEF IInv, Typed, Sight, Idle, AtRow, AtRest, AtDone
<1> QED
  BY <1>1, <1>2, <1>3 DEF IInv, Typed, CreationsRight, TypeOK

LEMMA SoundLedgers == IInv => LedgersAreSound
<1> SUFFICES ASSUME IInv PROVE LedgersAreSound
  OBVIOUS
<1>1. LedgersReplay
  BY LedgerFacts DEF LedgersReplay, IInv, RowsRight
<1>2. RestsAtEmpty
  BY LedgerFacts, RightRests DEF RestsAtEmpty
<1>3. EachOnItsVersion
  <2> SUFFICES ASSUME NEW a \in Account, NEW n \in 1..Len(ledger[a])
               PROVE  ledger[a][n].expected = n - 1 /\ EventOf(a, ledger[a][n].key) = {n}
    BY DEF EachOnItsVersion
  <2>1. LedgerRight(ledger[a])
    BY LedgerFacts
  <2>2. ledger[a][n].expected = n - 1
    BY <2>1 DEF LedgerRight, EventRight
  <2>3. \A m \in 1..Len(ledger[a]) : ledger[a][m].key = ledger[a][n].key <=> m = n
    BY <2>1 DEF LedgerRight, KeysDiffer
  <2> QED
    BY <2>2, <2>3 DEF EventOf
<1>4. SalesAreProportional
  BY LedgerFacts, RightSells, Zenon DEF SalesAreProportional
<1> QED
  BY <1>1, <1>2, <1>3, <1>4, SoundTypes DEF LedgersAreSound

LEMMA HonestProjections == IInv => ProjectionsAreHonest
<1> SUFFICES ASSUME IInv PROVE ProjectionsAreHonest
  OBVIOUS
<1>1. \A a \in Account : \A n \in 0..Len(ledger[a]) : Project(Prefix(a, n)) = Stood(ledger[a], n)
  BY LedgerFacts, HeadOfPrefix DEF Prefix
<1>2. EvidenceIsTrue
  <2> SUFFICES ASSUME NEW a \in Account, NEW o \in OpKey
               PROVE  /\ snapshots[a][o] # NoReceipt =>
                           snapshots[a][o] = Project(Prefix(a, snapshots[a][o].version))
                      /\ reconciliations[a][o] # NoReceipt =>
                           LET x == reconciliations[a][o]
                           IN (x.outcome = "matched") <=> (x.candidate = Project(Prefix(a, x.version)))
    BY DEF EvidenceIsTrue
  <2>1. SnapshotIs(ledger[a], snapshots[a][o]) /\ FindingIs(ledger[a], reconciliations[a][o])
    BY DEF IInv, SayingsRight
  <2> QED
    BY <1>1, <2>1 DEF SnapshotIs, FindingIs
<1>3. AnswersAreOfTheirEvent
  <2> SUFFICES ASSUME NEW t \in told PROVE t.projection = Project(Prefix(t.account, t.version))
    BY DEF AnswersAreOfTheirEvent
  <2>1. ToldIs(ledger, t)
    BY DEF IInv, SayingsRight
  <2>2. t.account \in Account /\ t.version \in 0..Len(ledger[t.account])
    BY <2>1, LedgerFacts DEF ToldIs
  <2> QED
    BY <1>1, <2>1, <2>2 DEF ToldIs
<1>4. ReadsAreOfOneVersion
  <2> SUFFICES ASSUME NEW r \in Reader, reads[r].at = "done", reads[r].result \notin {Corrupt, NoProjection}
               PROVE  reads[r].result = Project(Prefix(reads[r].account, reads[r].row.version))
    BY DEF ReadsAreOfOneVersion
  <2>1. reads[r] \in Sight /\ ReadIs(ledger, reads[r])
    BY DEF IInv, Typed, SayingsRight
  <2>2. reads[r].account \in Account
    BY <2>1 DEF Sight, Idle, AtRow, AtRest, AtDone
  <2> QED
    BY <1>1, <2>1, <2>2 DEF ReadIs
<1> QED
  BY <1>2, <1>3, <1>4 DEF IInv, ProjectionsAreHonest

-----------------------------------------------------------------------------
(* Growth *)

LEMMA PrefixOfMore ==
  ASSUME NEW events \in Seq(Event), NEW more \in Seq(Event), Extends(events, more)
  PROVE  IsPrefix(events, more)
<1> DEFINE n == Len(events)
           x == SubSeq(events, 1, n)
           y == SubSeq(more, 1, n)
<1>1. n \in Nat /\ n <= Len(more) /\ \A i \in 1..n : more[i] = events[i]
  BY DEF Extends
<1>2. x \in Seq(Event) /\ Len(x) = n /\ \A i \in 1..n : x[i] = events[i]
  BY <1>1
<1>3. y \in Seq(Event) /\ Len(y) = n /\ \A i \in 1..n : y[i] = more[i]
  BY <1>1
<1> HIDE DEF x, y
<1>4. x = y
  BY <1>1, <1>2, <1>3, SeqEqual
<1> QED
  BY <1>1, <1>4 DEF IsPrefix, x, y

Grown(a) ==
  /\ IsPrefix(ledger[a], ledger'[a])
  /\ Exists(a) /\ ledger'[a] # ledger[a] =>
       projections[a] = Project(ledger[a]) /\ accounts[a].projection = "current"

LEMMA Grows ==
  ASSUME IInv, [Next]_vars, NEW a \in Account
  PROVE  Grown(a)
<1>1. CASE ledger' = ledger
  <2>1. Extends(ledger[a], ledger[a]) /\ ledger[a] \in Seq(Event)
    BY LedgerFacts DEF Extends
  <2> QED
    BY <1>1, <2>1, PrefixOfMore DEF Grown
<1>2. ASSUME NEW b \in Account, NEW k \in Key, NEW c \in Command, NEW n \in Nat,
             EventOf(b, k) = {}, Applicable(Rebuild(ledger[b]), c), n = Len(ledger[b]),
             AppendMutation(b, NewEvent(Rebuild(ledger[b]), c, k, n)),
             Exists(b) => VerifiedCurrent(b)
      PROVE  Grown(a)
  <2>1. /\ ledger' \in [Account -> Seq(Event)] /\ Extends(ledger[a], ledger'[a])
        /\ b # a => ledger'[a] = ledger[a]
    BY <1>2, AppendKeeps
  <2>2. IsPrefix(ledger[a], ledger'[a])
    BY <2>1, LedgerFacts, PrefixOfMore
  <2> QED
    BY <1>2, <2>1, <2>2 DEF Grown, VerifiedCurrent
<1>3. ASSUME NEW b \in Account, NEW k \in Key, NEW c \in Command, Create(b, c, k)
      PROVE  Grown(a)
  <2>1. /\ ~Exists(b) /\ Applicable(Genesis, c)
        /\ AppendMutation(b, NewEvent(Genesis, c, k, 0))
    BY <1>3 DEF Create
  <2>2. ledger[b] = <<>>
    BY <2>1 DEF IInv, RowsRight
  <2>3. Rebuild(ledger[b]) = Genesis /\ Len(ledger[b]) = 0 /\ EventOf(b, k) = {}
    BY <2>2 DEF Rebuild, EventOf
  <2> QED
    BY <1>2, <2>1, <2>3
<1>4. ASSUME NEW b \in Account, NEW k \in Key, NEW c \in Command, NEW v \in Version, Mutate(b, c, k, v)
      PROVE  Grown(a)
  <2>1. /\ EventOf(b, k) = {} /\ Exists(b) /\ VerifiedCurrent(b) /\ v = accounts[b].version
        /\ Applicable(Rebuild(ledger[b]), c)
        /\ AppendMutation(b, NewEvent(Rebuild(ledger[b]), c, k, v))
    BY <1>4 DEF Mutate
  <2>2. v = Len(ledger[b]) /\ v \in Nat
    BY <2>1, LedgerFacts DEF IInv, RowsRight
  <2> QED
    BY <1>2, <2>1, <2>2
<1>5. CASE UNCHANGED vars
  BY <1>1, <1>5 DEF vars, stored
<1>6. ASSUME NEW r \in Reader, NEW b \in Account,
             ReadRow(r, b) \/ ReadEvents(r) \/ ReadCash(r) \/ ReadPositions(r) \/ ReadProjection(r) \/ Answered(r)
      PROVE  Grown(a)
  BY <1>1, <1>6 DEF ReadRow, ReadEvents, ReadCash, ReadPositions, ReadProjection, Answered, Finish,
    Read, stored
<1> QED
  BY <1>1, <1>3, <1>4, <1>5, <1>6
  DEF Next, CreateAgain, Repeat, RebuildProjection, CreateSnapshot, ReconcileProjection, Damage, stored

-----------------------------------------------------------------------------
(* Theorems *)

\* For any accounts, commands and keys: whatever _mutate and the creation append, the replay
\* accepts; a closed account is empty and stays so; each event was asked for by a caller who
\* had seen the one before it; a sale takes its share of the cost basis off by half a unit.
THEOREM Sound == Spec => []LedgersAreSound
BY SoundLedgers, Invariant, PTL

\* For any accounts, commands, keys and readers: only the outside makes the cache differ from
\* the ledger, a mismatch that was found holds, snapshots, reconciliations and answers stay
\* true, and a read over several statements answers with one version of the account.
THEOREM Honest == Spec => []ProjectionsAreHonest
BY HonestProjections, Invariant, PTL

\* A ledger only grows, and never on a projection that is wrong or awaits its reconciliation.
THEOREM Growth == Spec => GrowsOnSoundProjection
<1>1. IInv /\ [Next]_vars => [\A a \in Account : Grown(a)]_vars
  BY Grows
<1> QED
  BY <1>1, Invariant, PTL DEF Spec, GrowsOnSoundProjection, Grown

-----------------------------------------------------------------------------
(* Commands keep the promise of idempotent commands *)

\* What is stored under a key, and the answers, as KeyedCommands sees them.
ReceiptOf(events, k) ==
  LET found == {n \in 1..Len(events) : events[n].key = k} IN
  IF found = {} THEN NoReceipt
  ELSE LET n == CHOOSE i \in found : TRUE
       IN [command |-> Digest(events[n].command, events[n].expected), answer |-> n]

Receipts == [x \in Account \X Key |-> ReceiptOf(ledger[x[1]], x[2])]

Answers == {<<<<t.account, t.key>>, t.digest, t.version>> : t \in told}

Kept(events, n) ==
  [command |-> Digest(events[n].command, events[n].expected), answer |-> n]

Asked == [command : Command, expected : 0..MaxVersion]

LEMMA ReceiptIs ==
  ASSUME NEW events, LedgerRight(events), NEW k
  PROVE  /\ Unused(events, k) => ReceiptOf(events, k) = NoReceipt
         /\ \A n \in 1..Len(events) : events[n].key = k => ReceiptOf(events, k) = Kept(events, n)
<1> DEFINE found == {n \in 1..Len(events) : events[n].key = k}
<1>1. ASSUME Unused(events, k) PROVE ReceiptOf(events, k) = NoReceipt
  <2>1. found = {}
    BY <1>1 DEF Unused
  <2> QED
    BY <2>1 DEF ReceiptOf
<1>2. ASSUME NEW n \in 1..Len(events), events[n].key = k PROVE ReceiptOf(events, k) = Kept(events, n)
  <2>1. found = {n}
    BY <1>2 DEF LedgerRight, KeysDiffer
  <2>2. (CHOOSE i \in found : TRUE) = n
    BY <2>1
  <2> QED
    BY <2>1, <2>2 DEF ReceiptOf, Kept
<1> QED
  BY <1>1, <1>2

LEMMA ReceiptsAppended ==
  ASSUME NEW events, NEW next, LedgerRight(events), LedgerRight(next), Extends(events, next),
         Len(next) = Len(events) + 1, NEW j, next[Len(events) + 1].key # j
  PROVE  ReceiptOf(next, j) = ReceiptOf(events, j)
<1>1. Len(events) \in Nat /\ \A n \in 1..Len(events) : n \in 1..Len(next) /\ next[n] = events[n]
  BY DEF LedgerRight, Extends
<1>2. CASE Unused(events, j)
  <2>1. Unused(next, j)
    <3>1. \A n \in 1..Len(next) : n \in 1..Len(events) \/ n = Len(events) + 1
      BY <1>1
    <3> QED
      BY <1>1, <1>2, <3>1 DEF Unused
  <2> QED
    BY <1>2, <2>1, ReceiptIs
<1>3. CASE ~Unused(events, j)
  <2>1. PICK n \in 1..Len(events) : events[n].key = j
    BY <1>3 DEF Unused
  <2>2. n \in 1..Len(next) /\ next[n] = events[n] /\ next[n].key = j
    BY <1>1, <2>1
  <2>3. ReceiptOf(events, j) = Kept(events, n)
    BY <2>1, ReceiptIs
  <2>4. ReceiptOf(next, j) = Kept(next, n)
    BY <2>2, ReceiptIs
  <2>5. Kept(next, n) = Kept(events, n)
    BY <2>2 DEF Kept
  <2> QED
    BY <2>3, <2>4, <2>5
<1> QED
  BY <1>2, <1>3

\* An appended event stores one receipt, under a key of its account that had none.
LEMMA AppendStores ==
  ASSUME IInv, NEW a \in Account, NEW c \in Command, NEW k \in Key,
         EventOf(a, k) = {}, Applicable(Rebuild(ledger[a]), c),
         AppendMutation(a, NewEvent(Rebuild(ledger[a]), c, k, Len(ledger[a])))
  PROVE  /\ Receipts[<<a, k>>] = NoReceipt
         /\ Receipts' = [Receipts EXCEPT ![<<a, k>>] =
              [command |-> Digest(c, Len(ledger[a])), answer |-> Len(ledger[a]) + 1]]
<1> DEFINE kept == [command |-> Digest(c, Len(ledger[a])), answer |-> Len(ledger[a]) + 1]
<1>1. PICK n : n = Len(ledger[a])
  OBVIOUS
<1>2. /\ LedgersRight' /\ \A b \in Account : Extends(ledger[b], ledger'[b])
      /\ Len(ledger'[a]) = n + 1
      /\ LET e == ledger'[a][n + 1]
         IN e.command = c /\ e.key = k /\ e.expected = n
      /\ \A b \in Account : b # a => ledger'[b] = ledger[b]
  BY <1>1, AppendKeeps
<1>3. n \in Nat /\ LedgerRight(ledger[a]) /\ LedgerRight(ledger'[a])
  BY <1>1, <1>2, LedgerFacts DEF LedgersRight
<1>4. ReceiptOf(ledger[a], k) = NoReceipt
  <2>1. Unused(ledger[a], k)
    BY DEF EventOf, Unused
  <2> QED
    BY <1>3, <2>1, ReceiptIs
<1>5. ReceiptOf(ledger'[a], k) = kept
  <2>1. n + 1 \in 1..Len(ledger'[a])
    BY <1>2, <1>3
  <2>2. ReceiptOf(ledger'[a], k) = Kept(ledger'[a], n + 1)
    BY <1>2, <1>3, <2>1, ReceiptIs
  <2> QED
    BY <1>1, <1>2, <2>2 DEF Kept
<1>6. \A b \in Account, j \in Key :
        ReceiptOf(ledger'[b], j) = IF b = a /\ j = k THEN kept ELSE ReceiptOf(ledger[b], j)
  <2> SUFFICES ASSUME NEW b \in Account, NEW j \in Key
               PROVE  ReceiptOf(ledger'[b], j) = IF b = a /\ j = k THEN kept ELSE ReceiptOf(ledger[b], j)
    OBVIOUS
  <2>1. CASE b = a /\ j = k
    BY <1>5, <2>1
  <2>2. CASE b = a /\ j # k
    BY <1>1, <1>2, <1>3, <2>2, ReceiptsAppended
  <2>3. CASE b # a
    BY <1>2, <2>3
  <2> QED
    BY <2>1, <2>2, <2>3
<1> HIDE DEF kept
<1>7. Receipts' = [x \in Account \X Key |-> ReceiptOf(ledger'[x[1]], x[2])]
  BY DEF Receipts
<1>8. \A x \in Account \X Key :
        ReceiptOf(ledger'[x[1]], x[2]) = IF x = <<a, k>> THEN kept ELSE ReceiptOf(ledger[x[1]], x[2])
  BY <1>6
<1>9. Receipts' = [Receipts EXCEPT ![<<a, k>>] = kept]
  BY <1>7, <1>8 DEF Receipts
<1>10. Receipts[<<a, k>>] = NoReceipt
  BY <1>4 DEF Receipts
<1> QED
  BY <1>9, <1>10 DEF kept

\* KeyedCommands under the mapping of Commands.
LEMMA MappedAbstract ==
  /\ Commands!Init <=> (Receipts = [x \in Account \X Key |-> NoReceipt] /\ Answers = {})
  /\ \A x, c, v :
       Commands!First(x, c, v) <=>
         /\ Receipts[x] = NoReceipt
         /\ Receipts' = [Receipts EXCEPT ![x] = [command |-> c, answer |-> v]]
         /\ Answers' \in {Answers, Answers \union {<<x, c, v>>}}
  /\ \A x :
       Commands!Again(x) <=>
         /\ Receipts[x] # NoReceipt
         /\ Answers' = Answers \union {<<x, Receipts[x].command, Receipts[x].answer>>}
         /\ Receipts' = Receipts
BY DEF Commands!Init, Commands!First, Commands!Again, Receipts, ReceiptOf, Answers, EventOf

\* An answer that is added to those told is added to the abstract ones.
LEMMA AnswersAdd ==
  ASSUME NEW t, told' = told \union {t}
  PROVE  Answers' = Answers \union {<<<<t.account, t.key>>, t.digest, t.version>>}
BY DEF Answers

\* Each step is a first execution, a repeated answer or nothing to KeyedCommands.
LEMMA CommandSteps ==
  ASSUME IInv, [Next]_vars
  PROVE  [Commands!Next]_(Commands!vars)
<1>1. ASSUME NEW a \in Account, NEW k \in Key, NEW c \in Command, Create(a, c, k)
      PROVE  Commands!Next
  <2>1. /\ ~Exists(a) /\ Applicable(Genesis, c)
        /\ AppendMutation(a, NewEvent(Genesis, c, k, 0)) /\ told' = told
    BY <1>1 DEF Create
  <2>2. ledger[a] = <<>>
    BY <2>1 DEF IInv, RowsRight
  <2>3. Rebuild(ledger[a]) = Genesis /\ Len(ledger[a]) = 0 /\ EventOf(a, k) = {}
    BY <2>2 DEF Rebuild, EventOf
  <2>4. /\ Receipts[<<a, k>>] = NoReceipt
        /\ Receipts' = [Receipts EXCEPT ![<<a, k>>] = [command |-> Digest(c, 0), answer |-> 1]]
    BY <2>1, <2>3, AppendStores
  <2>5. Answers' = Answers
    BY <2>1 DEF Answers
  <2>6. Commands!First(<<a, k>>, Digest(c, 0), 1)
    BY <2>4, <2>5, MappedAbstract
  <2>7. Digest(c, 0) \in Asked /\ 1 \in Version /\ <<a, k>> \in Account \X Key
    BY AccountAssumption DEF Digest, Asked, Version, AccountAssumption
  <2> QED
    BY <2>6, <2>7 DEF Commands!Next, Asked
<1>2. ASSUME NEW a \in Account, NEW k \in Key, NEW c \in Command, NEW v \in Version, Mutate(a, c, k, v)
      PROVE  Commands!Next
  <2>1. /\ EventOf(a, k) = {} /\ Exists(a) /\ v = accounts[a].version /\ v < MaxVersion
        /\ Applicable(Rebuild(ledger[a]), c)
        /\ AppendMutation(a, NewEvent(Rebuild(ledger[a]), c, k, v))
        /\ told' \in {told, told \union {AnswerOf(a, k, v + 1)'}}
    BY <1>2 DEF Mutate
  <2>2. v = Len(ledger[a]) /\ v \in Nat
    BY <2>1, LedgerFacts DEF IInv, RowsRight
  <2>3. /\ Receipts[<<a, k>>] = NoReceipt
        /\ Receipts' = [Receipts EXCEPT ![<<a, k>>] = [command |-> Digest(c, v), answer |-> v + 1]]
    BY <2>1, <2>2, AppendStores
  <2>4. LET e == ledger'[a][v + 1] IN e.command = c /\ e.expected = v
    BY <2>1, <2>2, AppendKeeps
  <2>5. PICK t : t = AnswerOf(a, k, v + 1)'
    OBVIOUS
  <2>6. t.account = a /\ t.key = k /\ t.version = v + 1 /\ t.digest = Digest(c, v)
    BY <2>4, <2>5 DEF AnswerOf
  <2>7. Answers' \in {Answers, Answers \union {<<<<a, k>>, Digest(c, v), v + 1>>}}
    <3>1. CASE told' = told
      BY <3>1 DEF Answers
    <3>2. CASE told' = told \union {t}
      BY <2>6, <3>2, AnswersAdd
    <3> QED
      BY <2>1, <2>5, <3>1, <3>2
  <2>8. Commands!First(<<a, k>>, Digest(c, v), v + 1)
    BY <2>3, <2>7, MappedAbstract
  <2>9. v \in 0..MaxVersion /\ v + 1 \in Version
    BY <2>1, <2>2, AccountAssumption DEF Version, AccountAssumption
  <2>10. Digest(c, v) \in Asked /\ <<a, k>> \in Account \X Key
    BY <2>9 DEF Digest, Asked
  <2> QED
    BY <2>8, <2>9, <2>10 DEF Commands!Next, Asked
<1>3. ASSUME NEW a \in Account, NEW k \in Key, NEW c \in Command, NEW v \in Version, Repeat(a, c, k, v)
      PROVE  Commands!Next
  <2>1. PICK n \in EventOf(a, k) : told' = told \union {AnswerOf(a, k, n)}
    BY <1>3 DEF Repeat
  <2>2. ledger' = ledger
    BY <1>3 DEF Repeat, stored
  <2>3. n \in 1..Len(ledger[a]) /\ ledger[a][n].key = k /\ LedgerRight(ledger[a])
    BY LedgerFacts DEF EventOf
  <2>4. ReceiptOf(ledger[a], k) = Kept(ledger[a], n)
    BY <2>3, ReceiptIs
  <2>5. <<a, k>> \in Account \X Key /\ Receipts[<<a, k>>] = Kept(ledger[a], n)
    BY <2>4 DEF Receipts
  <2>6. PICK t : t = AnswerOf(a, k, n)
    OBVIOUS
  <2>7. /\ t.account = a /\ t.key = k /\ t.version = n
        /\ t.digest = Receipts[<<a, k>>].command /\ n = Receipts[<<a, k>>].answer
    BY <2>5, <2>6 DEF AnswerOf, Kept
  <2>8. Receipts[<<a, k>>] # NoReceipt
    <3>1. n \in Nat /\ ledger[a][n] \in Event
      BY <2>3 DEF LedgerRight
    <3>2. Kept(ledger[a], n) \in Repeatable
      BY <3>1 DEF Kept, Digest, Repeatable, Event
    <3> QED
      BY <2>5, <3>2, AccountAssumption DEF AccountAssumption
  <2>9. Answers' = Answers \union {<<<<a, k>>, Receipts[<<a, k>>].command, Receipts[<<a, k>>].answer>>}
    BY <2>1, <2>6, <2>7, AnswersAdd
  <2>10. Receipts' = Receipts
    BY <2>2 DEF Receipts
  <2>11. Commands!Again(<<a, k>>)
    BY <2>8, <2>9, <2>10, MappedAbstract
  <2> QED
    BY <2>5, <2>11 DEF Commands!Next
<1>4. CASE UNCHANGED <<ledger, told>>
  BY <1>4 DEF Commands!vars, EventOf
<1>5. ASSUME NEW r \in Reader, NEW b \in Account,
             ReadRow(r, b) \/ ReadEvents(r) \/ ReadCash(r) \/ ReadPositions(r) \/ ReadProjection(r) \/ Answered(r)
      PROVE  UNCHANGED <<ledger, told>>
  BY <1>5 DEF ReadRow, ReadEvents, ReadCash, ReadPositions, ReadProjection, Answered, Finish,
    Read, stored, history
<1>6. ASSUME NEW r \in Reader, ReadEvents(r) \/ ReadCash(r) \/ ReadPositions(r) \/ ReadProjection(r) \/ Answered(r)
      PROVE  UNCHANGED <<ledger, told>>
  BY <1>6 DEF ReadEvents, ReadCash, ReadPositions, ReadProjection, Answered, Finish,
    Read, stored, history
<1> QED
  BY <1>1, <1>2, <1>3, <1>4, <1>5, <1>6
  DEF Next, vars, CreateAgain, RebuildProjection, CreateSnapshot, ReconcileProjection, Damage, stored, history

\* A creation stores its account under its key, and a repeated one is told what is stored.
LEMMA CreationSteps ==
  ASSUME IInv, [Next]_vars
  PROVE  [Creations!Next]_(Creations!vars)
<1>1. ASSUME NEW a \in Account, NEW k \in Key, NEW c \in Command, Create(a, c, k)
      PROVE  Creations!Next
  BY <1>1 DEF Create, Creations!Next, Creations!First
<1>2. ASSUME NEW k \in Key, NEW c \in Command, CreateAgain(c, k)
      PROVE  Creations!Next
  BY <1>2 DEF CreateAgain, stored, Creations!Next, Creations!Again
<1>3. CASE UNCHANGED <<creations, toldCreations>>
  BY <1>3 DEF Creations!vars
<1>4. ASSUME NEW r \in Reader, \/ \E b \in Account : ReadRow(r, b)
                               \/ ReadEvents(r) \/ ReadCash(r) \/ ReadPositions(r) \/ ReadProjection(r) \/ Answered(r)
      PROVE  UNCHANGED <<creations, toldCreations>>
  BY <1>4 DEF ReadRow, ReadEvents, ReadCash, ReadPositions, ReadProjection, Answered, Finish,
    Read, stored, history
<1> QED
  BY <1>1, <1>2, <1>3, <1>4
  DEF Next, vars, Mutate, Repeat, RebuildProjection, CreateSnapshot, ReconcileProjection, Damage,
    stored, history

-----------------------------------------------------------------------------
(* Refinement *)

\* Whatever is lost and sent again, the commands on accounts are carried out once per account
\* and key, and answered as KeyedCommands promises (_command_replay, _mutate).
THEOREM Promise == Spec => Commands!Spec
<1>1. Init => Commands!Init
  <2>1. ASSUME Init PROVE Receipts = [x \in Account \X Key |-> NoReceipt] /\ Answers = {}
    BY <2>1 DEF Init, Receipts, ReceiptOf, Answers
  <2> QED
    BY <2>1, MappedAbstract
<1>2. IInv /\ [Next]_vars => [Commands!Next]_(Commands!vars)
  BY CommandSteps
<1> QED
  BY <1>1, <1>2, Invariant, PTL DEF Spec, Commands!Spec

\* The same of creations: one account per creation key (create_account).
THEOREM CreationPromise == Spec => Creations!Spec
<1>1. Init => Creations!Init
  BY DEF Init, Creations!Init
<1>2. IInv /\ [Next]_vars => [Creations!Next]_(Creations!vars)
  BY CreationSteps
<1> QED
  BY <1>1, <1>2, Invariant, PTL DEF Spec, Creations!Spec

-----------------------------------------------------------------------------
(* The arithmetic that trades share with the account *)

\* Trades round as the account does, and take the same cost off a position sold.
LEMMA TradeHalfEven == ASSUME NEW n, NEW d PROVE Trades!M31!HalfEven(n, d) = HalfEven(n, d)
BY Zenon DEF Trades!M31!HalfEven, HalfEven

LEMMA TradeRemoved == ASSUME NEW p, NEW q PROVE Trades!M31!RemovedCost(p, q) = RemovedCost(p, q)
BY TradeHalfEven DEF Trades!M31!RemovedCost, RemovedCost

\* Rounding keeps the order of what it rounds.
LEMMA HalfEvenRises ==
  ASSUME NEW n \in Nat, NEW m \in Nat, n <= m, NEW d \in Nat \ {0}
  PROVE  /\ HalfEven(n, d) \in Nat /\ HalfEven(n, d) <= HalfEven(m, d)
<1> DEFINE q == n \div d
           r == n % d
           u == m \div d
           v == m % d
<1>1. /\ q \in Int /\ r \in 0..d - 1 /\ n = d * q + r
      /\ u \in Int /\ v \in 0..d - 1 /\ m = d * u + v
  OBVIOUS
<1>2. HalfEven(n, d) = CASE 2 * r < d -> q [] 2 * r > d -> q + 1 [] OTHER -> q + (q % 2)
  BY DEF HalfEven
<1>3. HalfEven(m, d) = CASE 2 * v < d -> u [] 2 * v > d -> u + 1 [] OTHER -> u + (u % 2)
  BY DEF HalfEven
<1>4. q >= 0 /\ q <= u /\ (q = u => r <= v)
  <2> HIDE DEF q, r, u, v
  <2>1. q >= 0
    <3>1. CASE q <= -1
      <4>1. d * q <= d * (-1)
        BY <1>1, <3>1
      <4> QED
        BY <1>1, <4>1
    <3> QED
      BY <1>1, <3>1
  <2>2. q <= u
    <3>1. CASE u + 1 <= q
      <4>1. d * (u + 1) <= d * q
        BY <1>1, <3>1
      <4>2. d * (u + 1) = d * u + d
        BY <1>1
      <4> QED
        BY <1>1, <4>1, <4>2
    <3> QED
      BY <1>1, <3>1
  <2> QED
    BY <1>1, <2>1, <2>2
<1> HIDE DEF q, r, u, v
<1>5. HalfEven(n, d) \in {q, q + 1} /\ HalfEven(m, d) \in {u, u + 1}
  <2>1. q % 2 \in {0, 1} /\ u % 2 \in {0, 1}
    BY <1>1
  <2>2. HalfEven(n, d) = q \/ HalfEven(n, d) = q + 1 \/ HalfEven(n, d) = q + (q % 2)
    BY <1>2, Zenon
  <2>3. HalfEven(m, d) = u \/ HalfEven(m, d) = u + 1 \/ HalfEven(m, d) = u + (u % 2)
    BY <1>3, Zenon
  <2> QED
    BY <1>1, <2>1, <2>2, <2>3
<1>6. CASE q < u
  BY <1>1, <1>4, <1>5, <1>6
<1>7. CASE q = u
  <2>1. CASE 2 * r < d
    <3>1. HalfEven(n, d) = q
      BY <1>1, <1>2, <2>1
    <3> QED
      BY <1>1, <1>4, <1>5, <1>7, <3>1
  <2>2. CASE 2 * v > d
    <3>1. HalfEven(m, d) = u + 1
      <4>1. ~(2 * v < d)
        BY <1>1, <2>2
      <4> QED
        BY <1>3, <2>2, <4>1, Zenon
    <3> QED
      BY <1>1, <1>4, <1>5, <1>7, <3>1
  <2>3. CASE ~(2 * r < d) /\ ~(2 * v > d)
    <3>1. 2 * r = d /\ 2 * v = d
      BY <1>1, <1>4, <1>7, <2>3
    <3>2. r = v
      BY <1>1, <3>1
    <3>3. HalfEven(n, d) = HalfEven(m, d)
      BY <1>2, <1>3, <1>7, <3>2, Zenon
    <3> QED
      BY <1>1, <1>4, <1>5, <3>3
  <2> QED
    BY <2>1, <2>2, <2>3
<1> QED
  BY <1>1, <1>4, <1>6, <1>7

\* A sale never takes away more cost than there is.
LEMMA RemovedWithin ==
  ASSUME NEW p, p.quantity \in Nat, p.cost \in Nat, NEW k \in Nat \ {0}, k <= p.quantity
  PROVE  /\ RemovedCost(p, k) \in 0..p.cost
         /\ k = p.quantity => RemovedCost(p, k) = p.cost
<1>1. PICK q, c, R : q = p.quantity /\ c = p.cost /\ R = RemovedCost(p, k)
  OBVIOUS
<1>2. CASE k = q
  BY <1>1, <1>2 DEF RemovedCost
<1>3. CASE k # q
  <2>1. q \in Nat \ {0} /\ c \in Nat /\ k <= q - 1
    BY <1>1, <1>3
  <2>2. R = HalfEven(c * k, q)
    BY <1>1, <1>3 DEF RemovedCost
  <2>3. R \in Nat
    <3>1. c * k \in Nat
      BY <2>1
    <3> QED
      BY <2>1, <2>2, <3>1, HalfEvenRises
  <2>4. 2 * (R * q - c * k) <= q
    BY <1>1, <2>1, ShareOfCost
  <2>5. c * k <= c * (q - 1)
    BY <2>1
  <2>6. c * (q - 1) = c * q - c
    BY <2>1
  <2>7. CASE c + 1 <= R
    <3>1. (c + 1) * q <= R * q
      BY <2>1, <2>3, <2>7
    <3>2. (c + 1) * q = c * q + q
      BY <2>1
    <3>3. c * q \in Nat /\ R * q \in Nat /\ c * k \in Nat
      BY <2>1, <2>3
    <3> QED
      BY <2>1, <2>4, <2>5, <2>6, <3>1, <3>2, <3>3
  <2> QED
    BY <1>1, <1>3, <2>1, <2>3, <2>7
<1> QED
  BY <1>2, <1>3

\* A set of numbers that is not empty has a least one, by induction along <.
LEMMA Least ==
  ASSUME NEW T \in SUBSET Nat, T # {}
  PROVE \E x \in T : \A y \in T : x <= y
<1> DEFINE R == {ss \in Nat \X Nat : ss[1] < ss[2]}
<1>1. IsWellFoundedOn(R, Nat)
  BY NatLessThanWellFounded DEF OpToRel
<1>2. PICK x \in T : \A y \in T : ~ (<<y, x>> \in R)
  <2> HIDE DEF R
  <2> QED BY <1>1, WFMin
<1>3. \A y \in T : <<y, x>> \in Nat \X Nat /\ <<y,x>>[1] = y /\ <<y,x>>[2] = x
  OBVIOUS
<1>4. \A y \in T : ~(y < x)
  BY <1>2, <1>3
<1> QED BY <1>4

LEMMA Upto ==
  ASSUME NEW m \in Nat, NEW T, 0 \in T, \A k \in 1..m : k - 1 \in T => k \in T
  PROVE  0..m \subseteq T
<1> DEFINE Out == {k \in 0..m : k \notin T}
<1>1. SUFFICES ASSUME Out # {} PROVE FALSE
  OBVIOUS
<1>2. Out \in SUBSET Nat
  OBVIOUS
<1>3. PICK k \in Out : \A y \in Out : k <= y
  <2> HIDE DEF Out
  <2> QED
    BY <1>1, <1>2, Least
<1>4. k \in 1..m /\ k - 1 \in 0..m
  OBVIOUS
<1>5. k - 1 \in T
  BY <1>3, <1>4
<1> QED
  BY <1>4, <1>5

\* What the running sums are: each adds an amount to the one before.
LEMMA RunningIs ==
  ASSUME NEW w \in Seq(Int)
  PROVE  /\ Trades!Running(w) \in [0..Len(w) -> Int] /\ Trades!Running(w)[0] = 0
         /\ \A n \in 1..Len(w) : Trades!Running(w)[n] = Trades!Running(w)[n - 1] + w[n]
<1> DEFINE Sums(g, k) == /\ g \in [0..k -> Int] /\ g[0] = 0
                         /\ \A n \in 1..k : g[n] = g[n - 1] + w[n]
           Good == {k \in Nat : \E g : Sums(g, k)}
<1>1. Len(w) \in Nat /\ \A n \in 1..Len(w) : w[n] \in Int
  OBVIOUS
<1>2. PICK g : Sums(g, Len(w))
  <2>1. 0 \in Good
    <3>1. Sums([n \in 0..0 |-> 0], 0)
      OBVIOUS
    <3> HIDE DEF Sums
    <3> QED
      BY <3>1
  <2>2. ASSUME NEW k \in 1..Len(w), k - 1 \in Good PROVE k \in Good
    <3>1. PICK g : Sums(g, k - 1)
      BY <2>2
    <3>2. Sums([n \in 0..k |-> IF n < k THEN g[n] ELSE g[k - 1] + w[k]], k)
      BY <1>1, <3>1
    <3> HIDE DEF Sums
    <3> QED
      BY <3>2, <1>1
  <2>3. Len(w) \in Good
    <3> HIDE DEF Good
    <3>1. 0..Len(w) \subseteq Good
      BY <1>1, <2>1, <2>2, Upto
    <3> QED
      BY <1>1, <3>1
  <2> HIDE DEF Sums
  <2> QED
    BY <2>3
<1> DEFINE r == Trades!Running(w)
<1>3. r = [n \in 0..Len(w) |-> IF n = 0 THEN 0 ELSE r[n - 1] + w[n]]
  <2>1. g = [n \in 0..Len(w) |-> IF n = 0 THEN 0 ELSE g[n - 1] + w[n]]
    BY <1>1, <1>2
  <2>2. r = CHOOSE t : t = [n \in 0..Len(w) |-> IF n = 0 THEN 0 ELSE t[n - 1] + w[n]]
    BY DEF Trades!Running
  <2> HIDE DEF r
  <2> QED
    BY <2>1, <2>2
<1> HIDE DEF r
<1>4. r[0] = 0 /\ \A n \in 1..Len(w) : r[n] = r[n - 1] + w[n]
  <2>1. PICK m : m = Len(w)
    OBVIOUS
  <2>2. m \in Nat /\ r = [n \in 0..m |-> IF n = 0 THEN 0 ELSE r[n - 1] + w[n]]
    BY ONLY <1>1, <1>3, <2>1
  <2>3. 0 \in 0..m /\ \A n \in 1..m : n \in 0..m /\ n # 0
    BY ONLY <2>2
  <2>4. r[0] = 0 /\ \A n \in 1..m : r[n] = r[n - 1] + w[n]
    BY ONLY <2>2, <2>3
  <2> QED
    BY ONLY <2>1, <2>4
<1>5. \A n \in 0..Len(w) : r[n] \in Int
  <2> DEFINE T == {n \in Nat : r[n] \in Int}
  <2>1. 0 \in T
    BY <1>4
  <2>2. \A k \in 1..Len(w) : k - 1 \in T => k \in T
    BY <1>1, <1>4
  <2>3. 0..Len(w) \subseteq T
    <3> HIDE DEF T
    <3> QED
      BY <1>1, <2>1, <2>2, Upto
  <2> QED
    BY <2>3
<1>6. r \in [0..Len(w) -> Int]
  BY <1>3, <1>5
<1> QED
  BY <1>4, <1>6 DEF r
LEMMA SumType ==
  ASSUME NEW w \in Seq(Int)
  PROVE  Trades!SumOf(w) \in Int /\ \A n \in 0..Len(w) : Trades!Running(w)[n] \in Int
<1>1. Len(w) \in Nat /\ Trades!Running(w) \in [0..Len(w) -> Int]
  BY RunningIs
<1> QED
  BY <1>1 DEF Trades!SumOf

\* Sums agree as long as the amounts do.
LEMMA SumsAgree ==
  ASSUME NEW w \in Seq(Int), NEW x \in Seq(Int), NEW k \in Nat, k <= Len(w), k <= Len(x),
         \A n \in 1..k : w[n] = x[n]
  PROVE  Trades!Running(w)[k] = Trades!Running(x)[k]
<1> DEFINE T == {n \in Nat : Trades!Running(w)[n] = Trades!Running(x)[n]}
<1>0. Len(w) \in Nat /\ Len(x) \in Nat
  OBVIOUS
<1>1. 0 \in T
  BY RunningIs
<1>2. ASSUME NEW n \in 1..k, n - 1 \in T PROVE n \in T
  <2>1. Trades!Running(w)[n] = Trades!Running(w)[n - 1] + w[n]
    BY <1>0, RunningIs
  <2>2. Trades!Running(x)[n] = Trades!Running(x)[n - 1] + x[n]
    BY <1>0, RunningIs
  <2> QED
    BY <1>2, <2>1, <2>2
<1>3. 0..k \subseteq T
  <2> HIDE DEF T
  <2> QED
    BY <1>1, <1>2, Upto
<1> QED
  BY <1>3

LEMMA SumNone == Trades!SumOf(<<>>) = 0
<1>1. <<>> \in Seq(Int) /\ Len(<<>>) = 0
  OBVIOUS
<1>2. Trades!Running(<<>>)[0] = 0
  BY <1>1, RunningIs
<1> QED
  BY <1>1, <1>2 DEF Trades!SumOf

\* An amount appended is added.
LEMMA SumAppend ==
  ASSUME NEW w \in Seq(Int), NEW d \in Int
  PROVE  Trades!SumOf(Append(w, d)) = Trades!SumOf(w) + d
<1>1. PICK x : x = Append(w, d)
  OBVIOUS
<1>a. PICK m : m = Len(w)
  OBVIOUS
<1>2. /\ x \in Seq(Int) /\ Len(x) = m + 1 /\ m \in Nat
      /\ x[m + 1] = d /\ \A n \in 1..m : w[n] = x[n]
  BY <1>1, <1>a
<1>3. Trades!Running(w)[m] = Trades!Running(x)[m]
  <2>1. m <= Len(w) /\ m <= Len(x)
    BY <1>2, <1>a
  <2> QED
    BY ONLY <1>2, <2>1, w \in Seq(Int), SumsAgree
<1>4. Trades!Running(x)[m + 1] = Trades!Running(x)[m] + x[m + 1]
  <2>1. m + 1 \in 1..Len(x) /\ (m + 1) - 1 = m
    BY <1>2
  <2>2. \A n \in 1..Len(x) : Trades!Running(x)[n] = Trades!Running(x)[n - 1] + x[n]
    BY <1>2, RunningIs
  <2> QED
    BY <2>1, <2>2
<1> QED
  BY <1>1, <1>2, <1>3, <1>4, <1>a DEF Trades!SumOf

\* One amount more changes the sum by as much.
LEMMA SumBump ==
  ASSUME NEW w \in Seq(Int), NEW x \in Seq(Int), Len(x) = Len(w), NEW k \in 1..Len(w), NEW d \in Int,
         x[k] = w[k] + d, \A n \in 1..Len(w) : n # k => x[n] = w[n]
  PROVE  Trades!SumOf(x) = Trades!SumOf(w) + d
<1> DEFINE T == {n \in Nat : Trades!Running(x)[n] = Trades!Running(w)[n] + (IF n < k THEN 0 ELSE d)}
<1>0. Len(w) \in Nat /\ k \in Nat /\ 1 <= k
  OBVIOUS
<1>1. 0 \in T
  BY <1>0, RunningIs
<1>2. ASSUME NEW n \in 1..Len(w), n - 1 \in T PROVE n \in T
  <2>1. Trades!Running(w)[n] = Trades!Running(w)[n - 1] + w[n]
    BY <1>0, RunningIs
  <2>2. Trades!Running(x)[n] = Trades!Running(x)[n - 1] + x[n]
    BY <1>0, RunningIs
  <2>3. w[n] \in Int /\ Trades!Running(w)[n - 1] \in Int
    BY <1>0, SumType
  <2>4. Trades!Running(x)[n - 1] = Trades!Running(w)[n - 1] + (IF n - 1 < k THEN 0 ELSE d)
    BY <1>2
  <2>5. PICK p, q, r, s : /\ p = Trades!Running(w)[n - 1] /\ q = Trades!Running(x)[n - 1]
                          /\ r = w[n] /\ s = x[n]
    OBVIOUS
  <2>6. p \in Int /\ r \in Int /\ d \in Int /\ k \in Int /\ n \in Int
    BY <1>0, <2>3, <2>5
  <2>7. q = p + (IF n - 1 < k THEN 0 ELSE d) /\ s = (IF n = k THEN r + d ELSE r)
    BY <1>0, <2>4, <2>5
  <2>8. q + s = (p + r) + (IF n < k THEN 0 ELSE d)
    <3>1. CASE n < k
      BY ONLY <2>6, <2>7, <3>1
    <3>2. CASE n = k
      BY ONLY <2>6, <2>7, <3>2
    <3>3. CASE k < n
      BY ONLY <2>6, <2>7, <3>3
    <3> QED
      BY ONLY <2>6, <3>1, <3>2, <3>3
  <2> QED
    <3>1. Trades!Running(x)[n] = Trades!Running(w)[n] + (IF n < k THEN 0 ELSE d)
      BY ONLY <2>1, <2>2, <2>5, <2>8
    <3>2. n \in Nat
      BY <1>0
    <3> QED
      BY ONLY <3>1, <3>2
<1>3. 0..Len(w) \subseteq T
  <2> HIDE DEF T
  <2>1. PICK m : m = Len(w)
    OBVIOUS
  <2>2. m \in Nat /\ \A n \in 1..m : n - 1 \in T => n \in T
    BY ONLY <1>0, <1>2, <2>1
  <2>3. 0..m \subseteq T
    BY ONLY <1>1, <2>2, Upto
  <2> QED
    BY ONLY <2>1, <2>3
<1>4. Len(w) \in T /\ ~(Len(w) < k)
  <2> HIDE DEF T
  <2>1. k \in 1..Len(w)
    OBVIOUS
  <2>2. PICK m : m = Len(w)
    OBVIOUS
  <2>3. m \in T /\ ~(m < k)
    BY ONLY <1>0, <1>3, <2>1, <2>2
  <2> QED
    BY ONLY <2>2, <2>3
<1>5. Trades!Running(x)[Len(w)] = Trades!Running(w)[Len(w)] + d
  BY ONLY <1>4
<1>6. Len(x) = Len(w)
  OBVIOUS
<1> QED
  BY ONLY <1>5, <1>6, Zenon DEF Trades!SumOf

\* One amount more adds itself.
LEMMA SumMore ==
  ASSUME NEW m \in Nat, NEW w \in [1..m -> Int], NEW y \in [1..m + 1 -> Int], \A n \in 1..m : y[n] = w[n]
  PROVE  Trades!SumOf(y) = Trades!SumOf(w) + y[m + 1]
<1>1. w \in Seq(Int) /\ Len(w) = m
  OBVIOUS
<1>2. y[m + 1] \in Int /\ m + 1 \in Nat
  OBVIOUS
<1>3. PICK x : x = Append(w, y[m + 1])
  OBVIOUS
<1>4. DOMAIN x = 1..m + 1 /\ x = [n \in 1..m + 1 |-> x[n]] /\ x[m + 1] = y[m + 1] /\ \A n \in 1..m : x[n] = w[n]
  BY <1>1, <1>2, <1>3
<1>5. ASSUME NEW n \in 1..m + 1 PROVE x[n] = y[n]
  <2>1. CASE n = m + 1
    BY <1>4, <2>1
  <2>2. CASE n # m + 1
    <3>1. n \in 1..m
      BY <2>2
    <3> QED
      BY <1>4, <3>1
  <2> QED
    BY <2>1, <2>2
<1>6. x = y
  BY <1>4, <1>5
<1> QED
  BY <1>1, <1>2, <1>3, <1>6, SumAppend

LEMMA SumNat ==
  ASSUME NEW w \in Seq(Nat) PROVE Trades!SumOf(w) \in Nat
<1> DEFINE T == {n \in Nat : Trades!Running(w)[n] \in Nat}
<1>0. Len(w) \in Nat /\ w \in Seq(Int) /\ \A n \in 1..Len(w) : w[n] \in Nat
  OBVIOUS
<1>1. 0 \in T
  BY <1>0, RunningIs
<1>2. ASSUME NEW n \in 1..Len(w), n - 1 \in T PROVE n \in T
  <2>1. Trades!Running(w)[n] = Trades!Running(w)[n - 1] + w[n]
    BY <1>0, RunningIs
  <2> QED
    BY <1>0, <1>2, <2>1
<1>3. 0..Len(w) \subseteq T
  <2> HIDE DEF T
  <2> QED
    BY <1>0, <1>1, <1>2, Upto
<1> QED
  BY <1>0, <1>3 DEF Trades!SumOf

-----------------------------------------------------------------------------
(* What rows come to *)

\* What is summed over the rows of an order.
Sums == {"quantity", "gross", "charges"}

LEMMA RowFacts ==
  ASSUME NEW rows \in Seq(Trades!FillRecord)
  PROVE  /\ Len(rows) \in Nat
         /\ \A n \in 1..Len(rows) : rows[n].version \in Nat /\ \A a \in Sums : rows[n].costs[a] \in Nat
<1>1. Len(rows) \in Nat /\ \A n \in 1..Len(rows) : rows[n] \in Trades!FillRecord
  OBVIOUS
<1>2. ASSUME NEW f \in Trades!FillRecord
      PROVE  f.version \in Nat /\ f.costs \in Trades!CostRecord
  BY DEF Trades!FillRecord
<1>3. ASSUME NEW c \in Trades!CostRecord, NEW a \in Sums
      PROVE  c[a] \in Nat
  BY DEF Trades!CostRecord, Sums
<1> QED
  BY <1>1, <1>2, <1>3

\* One row more adds what it comes to, if it counts.
LEMMA RowMore ==
  ASSUME NEW rows \in Seq(Trades!FillRecord), NEW f \in Trades!FillRecord, NEW a \in Sums
  PROVE  /\ Trades!Total(Append(rows, f), a) = Trades!Total(rows, a) + f.costs[a]
         /\ \A v \in Nat : Trades!Upto(Append(rows, f), v, a) =
                             Trades!Upto(rows, v, a) + (IF f.version <= v THEN f.costs[a] ELSE 0)
<1>1. PICK m, x : m = Len(rows) /\ x = Append(rows, f)
  OBVIOUS
<1>2. m \in Nat /\ Len(x) = m + 1 /\ x[m + 1] = f /\ \A n \in 1..m : x[n] = rows[n]
  BY <1>1
<1>3. x \in Seq(Trades!FillRecord)
  BY <1>1
<1>4. \A n \in 1..m + 1 : x[n].version \in Nat /\ x[n].costs[a] \in Nat
  BY <1>2, <1>3, RowFacts
<1>5. Trades!Total(x, a) = Trades!Total(rows, a) + f.costs[a]
  <2>1. PICK w, y : w = [n \in 1..m |-> rows[n].costs[a]] /\ y = [n \in 1..m + 1 |-> x[n].costs[a]]
    OBVIOUS
  <2>2. /\ w \in [1..m -> Int] /\ y \in [1..m + 1 -> Int] /\ \A n \in 1..m : y[n] = w[n]
        /\ y[m + 1] = f.costs[a]
    BY <1>2, <1>4, <2>1
  <2>3. Trades!SumOf(y) = Trades!SumOf(w) + y[m + 1]
    BY <1>2, <2>2, SumMore
  <2> QED
    BY <1>1, <1>2, <2>1, <2>2, <2>3 DEF Trades!Total
<1>6. ASSUME NEW v \in Nat
      PROVE  Trades!Upto(x, v, a) = Trades!Upto(rows, v, a) + (IF f.version <= v THEN f.costs[a] ELSE 0)
  <2>1. PICK w, y : /\ w = [n \in 1..m |-> IF rows[n].version <= v THEN rows[n].costs[a] ELSE 0]
                    /\ y = [n \in 1..m + 1 |-> IF x[n].version <= v THEN x[n].costs[a] ELSE 0]
    OBVIOUS
  <2>2. /\ w \in [1..m -> Int] /\ y \in [1..m + 1 -> Int] /\ \A n \in 1..m : y[n] = w[n]
        /\ y[m + 1] = IF f.version <= v THEN f.costs[a] ELSE 0
    <3>1. \A n \in 1..m + 1 : (IF x[n].version <= v THEN x[n].costs[a] ELSE 0) \in Int
      BY <1>4
    <3>2. \A n \in 1..m : x[n] = rows[n] /\ n \in 1..m + 1
      BY <1>2
    <3>3. y \in [1..m + 1 -> Int]
      BY <2>1, <3>1
    <3>4. w \in [1..m -> Int] /\ \A n \in 1..m : y[n] = w[n]
      BY <2>1, <3>1, <3>2
    <3>5. m + 1 \in 1..m + 1
      BY <1>2
    <3>6. y[m + 1] = IF f.version <= v THEN f.costs[a] ELSE 0
      BY <1>2, <2>1, <3>5
    <3> QED
      BY <3>3, <3>4, <3>6
  <2>3. Trades!SumOf(y) = Trades!SumOf(w) + y[m + 1]
    BY <1>2, <2>2, SumMore
  <2> QED
    BY <1>1, <1>2, <2>1, <2>2, <2>3 DEF Trades!Upto
<1> QED
  BY <1>1, <1>5, <1>6

\* Sums of rows are numbers; the fills of all attempts are all.
LEMMA RowSums ==
  ASSUME NEW rows \in Seq(Trades!FillRecord), NEW a \in Sums
  PROVE  /\ Trades!Total(rows, a) \in Nat
         /\ \A v \in Nat : /\ Trades!Upto(rows, v, a) \in Nat
                           /\ (\A n \in 1..Len(rows) : rows[n].version <= v) =>
                                Trades!Upto(rows, v, a) = Trades!Total(rows, a)
<1>1. PICK m : m = Len(rows)
  OBVIOUS
<1>2. m \in Nat /\ \A n \in 1..m : rows[n].version \in Nat /\ rows[n].costs[a] \in Nat
  BY <1>1, RowFacts
<1>3. Trades!Total(rows, a) \in Nat
  <2>1. [n \in 1..m |-> rows[n].costs[a]] \in Seq(Nat)
    BY <1>2
  <2> QED
    BY <1>1, <2>1, SumNat DEF Trades!Total
<1>4. ASSUME NEW v \in Nat PROVE Trades!Upto(rows, v, a) \in Nat
  <2>1. [n \in 1..m |-> IF rows[n].version <= v THEN rows[n].costs[a] ELSE 0] \in Seq(Nat)
    BY <1>2
  <2> QED
    BY <1>1, <2>1, SumNat DEF Trades!Upto
<1>5. ASSUME NEW v \in Nat, \A n \in 1..Len(rows) : rows[n].version <= v
      PROVE  Trades!Upto(rows, v, a) = Trades!Total(rows, a)
  <2>1. [n \in 1..Len(rows) |-> IF rows[n].version <= v THEN rows[n].costs[a] ELSE 0] =
          [n \in 1..Len(rows) |-> rows[n].costs[a]]
    BY <1>5
  <2> QED
    BY <2>1 DEF Trades!Upto, Trades!Total
<1> QED
  BY <1>3, <1>4, <1>5

LEMMA NoRows ==
  ASSUME NEW a \in Sums
  PROVE  Trades!Total(<<>>, a) = 0 /\ \A v \in Nat : Trades!Upto(<<>>, v, a) = 0
<1>1. PICK e : e = <<>>
  OBVIOUS
<1>2. Len(e) = 0
  BY <1>1
<1>3. [n \in 1..Len(e) |-> e[n].costs[a]] = <<>>
  BY <1>2
<1>4. \A v \in Nat : [n \in 1..Len(e) |-> IF e[n].version <= v THEN e[n].costs[a] ELSE 0] = <<>>
  BY <1>2
<1> QED
  BY <1>1, <1>3, <1>4, SumNone DEF Trades!Total, Trades!Upto

-----------------------------------------------------------------------------
(* What a trade costs, and what its settlement leaves *)

Here == Trades!Instrument

\* The account as trades leave it: solvent, long, and no cost without a position.
TradeState ==
  {s \in [status : {"active"}, cash : Nat, positions : [{Here} -> [quantity : Nat, cost : Nat]], links : {{}}] :
     s.positions[Here].quantity = 0 => s.positions[Here].cost = 0}

LEMMA Rounds ==
  ASSUME NEW n \in Nat, NEW d \in Nat \ {0} PROVE Trades!Rounded(n, d) \in Nat
BY TradeHalfEven, HalfEvenRises DEF Trades!Rounded

LEMMA PriceType ==
  ASSUME Trades!EvidenceAssumption, NEW event \in Trades!EventRecord, NEW side \in Trades!Side,
         NEW base \in Nat, NEW slip \in Trades!Rate
  PROVE  Trades!PriceEvidence(event, side, base, slip) \in Trades!PriceRecord
<1>1. FullRate \in Nat \ {0} /\ slip \in Nat /\ slip < FullRate
  BY DEF Trades!EvidenceAssumption, Trades!Rate
<1>2. PICK rate : rate = IF side = "buy" THEN FullRate + slip ELSE FullRate - slip
  OBVIOUS
<1>3. rate \in Nat
  BY <1>1, <1>2
<1>4. base * rate \in Nat
  BY <1>3
<1>5. Trades!ExecutionPrice(side, base, slip) \in Nat
  BY <1>1, <1>2, <1>4, Rounds DEF Trades!ExecutionPrice
<1> QED
  BY <1>5 DEF Trades!PriceEvidence, Trades!PriceRecord

LEMMA GrossType ==
  ASSUME Trades!EvidenceAssumption, NEW price \in Nat, NEW k \in Nat, NEW m \in Nat, k <= m
  PROVE  /\ Trades!Gross(price, k) \in Nat /\ Trades!Gross(price, m) \in Nat
         /\ Trades!Gross(price, k) <= Trades!Gross(price, m)
<1>1. Scale \in Nat \ {0}
  BY DEF Trades!EvidenceAssumption
<1>2. price * k \in Nat /\ price * m \in Nat /\ price * k <= price * m
  <2>1. price * (m - k) \in Nat
    BY SMT
  <2>2. price * m = price * k + price * (m - k)
    OBVIOUS
  <2>3. price * k \in Nat /\ price * m \in Nat
    OBVIOUS
  <2> QED
    BY <2>1, <2>2, <2>3
<1>3. PICK x, y : x = price * k /\ y = price * m
  OBVIOUS
<1>4. HalfEven(x, Scale) \in Nat /\ HalfEven(y, Scale) \in Nat /\ HalfEven(x, Scale) <= HalfEven(y, Scale)
  <2>1. x \in Nat /\ y \in Nat /\ x <= y
    BY <1>2, <1>3
  <2>2. HalfEven(x, Scale) \in Nat /\ HalfEven(x, Scale) <= HalfEven(y, Scale)
    BY <1>1, <2>1, HalfEvenRises
  <2>3. HalfEven(y, Scale) \in Nat
    BY <1>1, <2>1, HalfEvenRises
  <2> QED
    BY <2>2, <2>3
<1>5. Trades!Gross(price, k) = HalfEven(x, Scale) /\ Trades!Gross(price, m) = HalfEven(y, Scale)
  BY <1>3, TradeHalfEven DEF Trades!Gross, Trades!Rounded
<1> QED
  BY <1>4, <1>5

LEMMA CostsType ==
  ASSUME Trades!EvidenceAssumption, NEW price \in Trades!PriceRecord, NEW k \in Nat,
         NEW rates \in [commission : Trades!Rate, fee : Trades!Rate, tax : Trades!Rate]
  PROVE  Trades!Costs(price, k, rates) \in Trades!CostRecord
<1>1. FullRate \in Nat \ {0} /\ price.price \in Nat
  BY DEF Trades!EvidenceAssumption, Trades!PriceRecord
<1>2. PICK gross : gross = Trades!Gross(price.price, k)
  OBVIOUS
<1>3. gross \in Nat
  BY <1>1, <1>2, GrossType
<1>4. ASSUME NEW rate \in Trades!Rate PROVE Trades!Rounded(gross * rate, FullRate) \in Nat
  <2>1. rate \in Nat
    BY <1>1 DEF Trades!Rate
  <2>2. gross * rate \in Nat
    BY <1>3, <2>1
  <2> QED
    BY <1>1, <2>2, Rounds
<1>5. rates.commission \in Trades!Rate /\ rates.fee \in Trades!Rate /\ rates.tax \in Trades!Rate
  OBVIOUS
<1>6. PICK x, y, z : /\ x = Trades!Rounded(gross * rates.commission, FullRate)
                     /\ y = Trades!Rounded(gross * rates.fee, FullRate)
                     /\ z = Trades!Rounded(gross * rates.tax, FullRate)
  OBVIOUS
<1>7. x \in Nat /\ y \in Nat /\ z \in Nat
  BY <1>4, <1>5, <1>6
<1>8. Trades!Costs(price, k, rates) =
        [price |-> price, quantity |-> k, gross |-> gross, rates |-> rates, charges |-> x + y + z]
  BY <1>2, <1>6 DEF Trades!Costs
<1> QED
  BY <1>3, <1>7, <1>8 DEF Trades!CostRecord

\* What the settlement of a fill leaves of cash, position and cost.
Leaves(s, o, costs, t) ==
  LET p == s.positions[Here]
      r == t.positions[Here]
  IN IF o.side = "buy"
     THEN /\ t.cash = s.cash - (costs.gross + costs.charges)
          /\ r.quantity = p.quantity + costs.quantity
          /\ r.cost = p.cost + (costs.gross + costs.charges)
     ELSE /\ t.cash = s.cash + (costs.gross - costs.charges)
          /\ r.quantity = p.quantity - costs.quantity
          /\ r.cost = p.cost - RemovedCost(p, costs.quantity)

\* The account as a posting writes it, before it is known to be solvent.
AnyState ==
  [status : {"active"}, cash : Int, positions : [{Here} -> [quantity : Int, cost : Int]], links : {{}}]

LEMMA SettledIs ==
  ASSUME NEW s \in TradeState, NEW o, o.side \in Trades!Side, NEW costs \in Trades!CostRecord,
         costs.quantity > 0, o.side # "buy" => costs.quantity <= s.positions[Here].quantity
  PROVE  \A t : t = Trades!Settled(o, s, costs) =>
           Leaves(s, o, costs, t) /\ t \in AnyState
<1>1. PICK c : c = Trades!Settlement(o, costs)
  OBVIOUS
<1>2. /\ c.type = "fill" /\ c.symbol = Here /\ c.side = o.side /\ c.quantity = costs.quantity
      /\ c.gross = costs.gross /\ c.charges = costs.charges
  BY <1>1 DEF Trades!Settlement, Here
<1>3. PICK e : e = Trades!M31!Effect(s, c)
  OBVIOUS
<1>4. e = Trades!M31!FillEffect(s, c)
  BY <1>2, <1>3 DEF Trades!M31!Effect
<1>5. PICK t : t = Trades!M31!Posted(s, c, e)
  OBVIOUS
<1>6. t.status = s.status
  BY <1>2, <1>5 DEF Trades!M31!Posted
<1>7. /\ t.cash = s.cash + e.cash /\ t.links = s.links
      /\ t.positions = [s.positions EXCEPT ![Here] = [quantity |-> @.quantity + e.quantity, cost |-> @.cost + e.cost]]
      /\ t = [status |-> t.status, cash |-> t.cash, positions |-> t.positions, links |-> t.links]
  BY <1>2, <1>5 DEF Trades!M31!Posted, Trades!M31!Moves
<1>8. PICK p : p = s.positions[Here]
  OBVIOUS
<1>9. /\ s.cash \in Nat /\ p.quantity \in Nat /\ p.cost \in Nat
      /\ s.positions \in [{Here} -> [quantity : Nat, cost : Nat]]
  BY <1>8 DEF TradeState
<1>10. t.positions = [y \in {Here} |-> [quantity |-> p.quantity + e.quantity, cost |-> p.cost + e.cost]]
  BY <1>7, <1>8, <1>9
<1>11. costs.quantity \in Nat /\ costs.gross \in Nat /\ costs.charges \in Nat
  BY DEF Trades!CostRecord
<1>14. ASSUME e.cash \in Int, e.quantity \in Int, e.cost \in Int PROVE t \in AnyState
  <2>1. t.positions \in [{Here} -> [quantity : Int, cost : Int]]
    BY <1>9, <1>10, <1>14
  <2>2. t.cash \in Int /\ t.status = "active" /\ t.links = {}
    BY <1>6, <1>7, <1>9, <1>14 DEF TradeState
  <2> QED
    BY <1>7, <2>1, <2>2 DEF AnyState
<1>12. CASE o.side = "buy"
  <2>1. /\ e.cash = -(costs.gross + costs.charges) /\ e.quantity = costs.quantity
        /\ e.cost = costs.gross + costs.charges
    BY <1>2, <1>4, <1>12 DEF Trades!M31!FillEffect
  <2>2. Leaves(s, o, costs, t)
    BY <1>7, <1>8, <1>9, <1>10, <1>11, <1>12, <2>1 DEF Leaves
  <2>3. e.cash \in Int /\ e.quantity \in Int /\ e.cost \in Int
    BY <1>11, <2>1
  <2> QED
    BY <1>1, <1>3, <1>5, <1>14, <2>2, <2>3 DEF Trades!Settled
<1>13. CASE o.side # "buy"
  <2>1. /\ e.cash = costs.gross - costs.charges /\ e.quantity = -costs.quantity
        /\ e.cost = -RemovedCost(p, costs.quantity)
    BY <1>2, <1>4, <1>8, <1>13, TradeRemoved DEF Trades!M31!FillEffect
  <2>2. RemovedCost(p, costs.quantity) \in Int
    BY <1>8, <1>9, <1>11, <1>13, ShareOfCost
  <2>3. Leaves(s, o, costs, t)
    BY <1>7, <1>8, <1>9, <1>10, <1>11, <1>13, <2>1, <2>2 DEF Leaves
  <2>4. e.cash \in Int /\ e.quantity \in Int /\ e.cost \in Int
    BY <1>11, <2>1, <2>2
  <2> QED
    BY <1>1, <1>3, <1>5, <1>14, <2>3, <2>4 DEF Trades!Settled
<1> QED
  BY <1>12, <1>13

LEMMA MayFill ==
  ASSUME NEW s, NEW o, NEW costs
  PROVE  Trades!Settles(o, s, costs) <=>
           /\ costs.gross > 0 /\ s.status = "active"
           /\ o.side = "sell" => /\ s.positions[Here].quantity >= costs.quantity
                                 /\ costs.gross >= costs.charges
           /\ Trades!M31!Solvent(Trades!Settled(o, s, costs))
<1>1. PICK c : c = Trades!Settlement(o, costs)
  OBVIOUS
<1>2. /\ c.type = "fill" /\ c.symbol = Here /\ c.side = o.side /\ c.quantity = costs.quantity
      /\ c.gross = costs.gross /\ c.charges = costs.charges
  BY <1>1 DEF Trades!Settlement, Here
<1>3. Trades!M31!Allowed(s, c) <=> Trades!M31!FillAllowed(s, c)
  BY <1>2 DEF Trades!M31!Allowed
<1>4. Trades!M31!Applicable(s, c) <=>
        Trades!M31!FillAllowed(s, c) /\ Trades!M31!Solvent(Trades!Settled(o, s, costs))
  BY <1>1, <1>3, Zenon DEF Trades!M31!Applicable, Trades!Settled
<1>5. Trades!M31!FillAllowed(s, c) <=>
        /\ s.status = "active"
        /\ o.side = "sell" => /\ s.positions[Here].quantity >= costs.quantity
                              /\ costs.gross >= costs.charges
  BY <1>2 DEF Trades!M31!FillAllowed
<1> QED
  BY <1>1, <1>4, <1>5 DEF Trades!Settles

LEMMA SolventIs ==
  ASSUME NEW t
  PROVE  Trades!M31!Solvent(t) <=>
           /\ t.cash >= 0 /\ t.positions[Here].quantity >= 0 /\ t.positions[Here].cost >= 0
           /\ t.positions[Here].quantity = 0 => t.positions[Here].cost = 0
BY DEF Trades!M31!Solvent, Here

\* What the settlement of a fill leaves is what an account may be.
LEMMA SettledKeeps ==
  ASSUME NEW s \in TradeState, NEW o, o.side \in Trades!Side, NEW costs \in Trades!CostRecord,
         costs.quantity > 0, Trades!Settles(o, s, costs)
  PROVE  LET t == Trades!Settled(o, s, costs) IN
         /\ t \in TradeState /\ Leaves(s, o, costs, t)
         /\ o.side # "buy" => costs.quantity <= s.positions[Here].quantity
<1>1. PICK t : t = Trades!Settled(o, s, costs)
  OBVIOUS
<1>2. /\ o.side = "sell" => costs.quantity <= s.positions[Here].quantity
      /\ Trades!M31!Solvent(t)
  <2>1. s.positions[Here].quantity \in Nat /\ costs.quantity \in Nat
    BY DEF TradeState, Trades!CostRecord
  <2> QED
    BY <1>1, <2>1, MayFill
<1>3. o.side # "buy" => o.side = "sell"
  BY DEF Trades!Side
<1>4. Leaves(s, o, costs, t) /\ t \in AnyState
  <2>1. o.side # "buy" => costs.quantity <= s.positions[Here].quantity
    BY <1>2, <1>3
  <2> QED
    BY <1>1, <2>1, SettledIs
<1>5. PICK q, k, m : q = t.positions[Here].quantity /\ k = t.positions[Here].cost /\ m = t.cash
  OBVIOUS
<1>6. m >= 0 /\ q >= 0 /\ k >= 0 /\ (q = 0 => k = 0)
  BY <1>2, <1>5, SolventIs
<1>9. t \in TradeState
  <2>1. DOMAIN t.positions = {Here} /\ t.positions[Here] \in [quantity : Int, cost : Int]
    BY <1>4 DEF AnyState
  <2>2. t.positions[Here] \in [quantity : Nat, cost : Nat]
    BY <1>5, <1>6, <2>1
  <2>3. t.positions \in [{Here} -> [quantity : Nat, cost : Nat]]
    BY <1>4, <2>2 DEF AnyState
  <2>4. t.cash \in Nat
    BY <1>4, <1>5, <1>6 DEF AnyState
  <2> QED
    BY <1>4, <1>5, <1>6, <2>3, <2>4 DEF AnyState, TradeState
<1> QED
  BY <1>1, <1>2, <1>3, <1>4, <1>9

\* What the rules of the risk ask is what the settlement needs.
LEMMA AllowedSettles ==
  ASSUME NEW s \in TradeState, NEW o, o.side \in Trades!Side, NEW costs \in Trades!CostRecord,
         costs.quantity > 0, costs.gross > 0,
         o.side = "buy" => costs.gross + costs.charges <= s.cash,
         o.side = "sell" => costs.quantity <= s.positions[Here].quantity /\ costs.gross >= costs.charges
  PROVE  Trades!Settles(o, s, costs)
<1>1. PICK t : t = Trades!Settled(o, s, costs)
  OBVIOUS
<1>2. PICK p : p = s.positions[Here]
  OBVIOUS
<1>3. /\ s.cash \in Nat /\ p.quantity \in Nat /\ p.cost \in Nat /\ (p.quantity = 0 => p.cost = 0)
      /\ costs.quantity \in Nat /\ costs.gross \in Nat /\ costs.charges \in Nat /\ s.status = "active"
  BY <1>2 DEF TradeState, Trades!CostRecord
<1>4. o.side # "buy" => o.side = "sell"
  BY DEF Trades!Side
<1>5. Leaves(s, o, costs, t)
  BY <1>1, <1>4, SettledIs
<1>6. Trades!M31!Solvent(t)
  <2>1. CASE o.side = "buy"
    <3>1. /\ t.cash = s.cash - (costs.gross + costs.charges)
          /\ t.positions[Here].quantity = p.quantity + costs.quantity
          /\ t.positions[Here].cost = p.cost + (costs.gross + costs.charges)
      BY <1>2, <1>5, <2>1 DEF Leaves
    <3>2. s.cash - (costs.gross + costs.charges) >= 0
      BY <1>3, <2>1
    <3>3. p.quantity + costs.quantity # 0 /\ p.quantity + costs.quantity >= 0
      BY <1>3
    <3>4. p.cost + (costs.gross + costs.charges) >= 0
      BY <1>3
    <3> QED
      BY <3>1, <3>2, <3>3, <3>4, SolventIs
  <2>2. CASE o.side # "buy"
    <3>1. /\ t.cash = s.cash + (costs.gross - costs.charges)
          /\ t.positions[Here].quantity = p.quantity - costs.quantity
          /\ t.positions[Here].cost = p.cost - RemovedCost(p, costs.quantity)
      BY <1>2, <1>5, <2>2 DEF Leaves
    <3>2. costs.quantity \in Nat \ {0} /\ costs.quantity <= p.quantity
      BY <1>2, <1>3, <1>4, <2>2
    <3>3. /\ RemovedCost(p, costs.quantity) \in 0..p.cost
          /\ costs.quantity = p.quantity => RemovedCost(p, costs.quantity) = p.cost
      BY <1>3, <3>2, RemovedWithin
    <3>4. costs.gross >= costs.charges
      BY <1>4, <2>2
    <3>5. PICK k, m : k = RemovedCost(p, costs.quantity) /\ m = costs.quantity
      OBVIOUS
    <3>6. k \in 0..p.cost /\ m \in Nat \ {0} /\ m <= p.quantity /\ (m = p.quantity => k = p.cost)
      BY <3>2, <3>3, <3>5
    <3>7. p.quantity - m >= 0 /\ p.cost - k >= 0 /\ (p.quantity - m = 0 => p.cost - k = 0)
      BY <1>3, <3>6
    <3>8. s.cash + (costs.gross - costs.charges) >= 0
      BY <1>3, <3>4
    <3> QED
      BY <3>1, <3>5, <3>7, <3>8, SolventIs
  <2> QED
    BY <2>1, <2>2
<1>7. o.side = "sell" => s.positions[Here].quantity >= costs.quantity /\ costs.gross >= costs.charges
  BY <1>2, <1>3
<1> QED
  BY <1>1, <1>3, <1>6, <1>7, MayFill

\* Any other event of the account adds to its cash.
LEMMA MovedKeeps ==
  ASSUME NEW s \in TradeState
  PROVE  LET t == Trades!M31!Posted(s, Trades!Moved, Trades!M31!Effect(s, Trades!Moved)) IN
         /\ t \in TradeState /\ t.cash = s.cash + 1 /\ t.positions = s.positions
<1>1. PICK c : c = Trades!Moved
  OBVIOUS
<1>2. c.type = "cash" /\ c.movement = "deposit" /\ c.amount = 1
  BY <1>1 DEF Trades!Moved
<1>3. Trades!M31!Signed(c) = 1
  BY <1>2 DEF Trades!M31!Signed
<1>4. PICK e : e = Trades!M31!Effect(s, c)
  OBVIOUS
<1>5. e = [Trades!M31!Nothing EXCEPT !.cash = Trades!M31!Signed(c)]
  BY <1>2, <1>4 DEF Trades!M31!Effect
<1>6. e.cash = 1
  BY <1>3, <1>5 DEF Trades!M31!Nothing
<1>7. PICK t : t = Trades!M31!Posted(s, c, e)
  OBVIOUS
<1>8. t.status = s.status
  BY <1>2, <1>7 DEF Trades!M31!Posted
<1>9. /\ t.cash = s.cash + 1 /\ t.positions = s.positions /\ t.links = s.links
      /\ t = [status |-> t.status, cash |-> t.cash, positions |-> t.positions, links |-> t.links]
  BY <1>2, <1>6, <1>7 DEF Trades!M31!Posted, Trades!M31!Moves
<1>10. t \in TradeState
  BY <1>8, <1>9 DEF TradeState
<1> QED
  BY <1>1, <1>4, <1>7, <1>9, <1>10

-----------------------------------------------------------------------------
(* The invariant *)

\* The account's events, the links to them and the orders.
EntryRecord == [fill : Trades!FillRecord \union {None}, state : TradeState]
LinkRecord  == [fill : Trades!FillRecord, version : Nat]
AccountRef  == [version : Nat, status : {"active"}, cash : Nat, held : Nat]
MarketRef   == [position : Nat, event : Nat \union {None}, close : Nat]
OrderRecord == [intent : Intent, risk : [intent : Intent, decision : Trades!DecisionRecord],
                account : AccountRef, market : MarketRef]

\* The types of what is stored.
TradeTypes ==
  /\ prices \in Seq(Nat \union {None}) /\ prices # <<>>
  /\ entries \in Seq(EntryRecord) /\ entries # <<>>
  /\ decisions \in [Intent -> Trades!DecisionRecord \union {None}]
  /\ orders \in Seq(OrderRecord)
  /\ attempts \in [Intent -> Seq(Trades!AttemptRecord)]
  /\ fills \in [Intent -> Seq(Trades!FillRecord)]
  /\ links \in [Intent -> Seq(LinkRecord)]

\* An intent has one order.
OneOrderEach == \A m, n \in 1..Len(orders) : orders[m].intent = orders[n].intent => m = n

\* Only orders have rows.
RowsOfOrders ==
  \A i \in Intent : i \notin Trades!Placed =>
    attempts[i] = <<>> /\ fills[i] = <<>> /\ links[i] = <<>>

\* What an attempt consumed is in the replay.
EventsAreThere ==
  \A i \in Intent : \A v \in 1..Len(attempts[i]) : attempts[i][v].post \in 1..Len(prices)

\* That the histories load is what makes the others inductive: it says of every fill
\* what account it settled in, and of every risk what came before.
TradeInv ==
  /\ TradeTypes /\ OneOrderEach /\ RowsOfOrders /\ EventsAreThere
  /\ Trades!HistoriesLoad /\ Trades!StaysWithinLimits /\ Trades!TradesAddUp

-----------------------------------------------------------------------------
(* The rows of an order *)

LEMMA TypeFacts ==
  ASSUME TradeTypes, Trades!EvidenceAssumption
  PROVE  /\ Len(prices) \in Nat \ {0} /\ Len(entries) \in Nat \ {0} /\ Len(orders) \in Nat
         /\ \A n \in 1..Len(entries) : entries[n].state \in TradeState
         /\ \A n \in 1..Len(orders) : orders[n] \in OrderRecord /\ orders[n].intent \in Intent
         /\ Trades!Placed \subseteq Intent
         /\ \A i \in Intent : OrderOf[i] \in Trades!Asked
<1>1. Len(prices) \in Nat \ {0} /\ Len(entries) \in Nat \ {0} /\ Len(orders) \in Nat
  BY DEF TradeTypes
<1>2. \A n \in 1..Len(entries) : entries[n].state \in TradeState
  <2>1. \A n \in 1..Len(entries) : entries[n] \in EntryRecord
    BY DEF TradeTypes
  <2>2. \A e \in EntryRecord : e.state \in TradeState
    BY DEF EntryRecord
  <2> QED
    BY <2>1, <2>2
<1>3. \A n \in 1..Len(orders) : orders[n] \in OrderRecord
  BY DEF TradeTypes
<1>4. \A r \in OrderRecord : r.intent \in Intent
  BY DEF OrderRecord
<1> QED
  BY <1>1, <1>2, <1>3, <1>4 DEF Trades!Placed, Trades!EvidenceAssumption

LEMMA AskedFacts ==
  ASSUME Trades!EvidenceAssumption, NEW o \in Trades!Asked
  PROVE  /\ o.side \in Trades!Side /\ o.quantity \in Nat \ {0} /\ o.close \in Nat
         /\ o.maxQuantity \in Trades!Limit /\ o.maxNotional \in Trades!Limit
         /\ o.policy.slip \in Trades!Rate /\ o.policy.cap \in Trades!Limit
         /\ Trades!Rates(o) \in [commission : Trades!Rate, fee : Trades!Rate, tax : Trades!Rate]
<1>1. /\ o.side \in Trades!Side /\ o.quantity \in Nat \ {0} /\ o.close \in Nat
      /\ o.maxQuantity \in Trades!Limit /\ o.maxNotional \in Trades!Limit /\ o.policy \in Trades!Policy
  BY DEF Trades!Asked
<1>2. PICK p : p = o.policy
  OBVIOUS
<1>3. /\ p.slip \in Trades!Rate /\ p.cap \in Trades!Limit /\ p.commission \in Trades!Rate
      /\ p.fee \in Trades!Rate /\ p.tax.buy \in Trades!Rate /\ p.tax.sell \in Trades!Rate
      /\ p.tax = [buy |-> p.tax.buy, sell |-> p.tax.sell]
  BY <1>1, <1>2 DEF Trades!Policy, Trades!Limit
<1>4. p.tax[o.side] \in Trades!Rate
  BY <1>1, <1>3 DEF Trades!Side
<1> QED
  BY <1>1, <1>2, <1>3, <1>4 DEF Trades!Rates

LEMMA RowOf ==
  ASSUME OneOrderEach, NEW n \in 1..Len(orders)
  PROVE  Trades!OrderRow(orders[n].intent) = orders[n]
<1>1. PICK i : i = orders[n].intent
  OBVIOUS
<1>2. (CHOOSE m \in 1..Len(orders) : orders[m].intent = i) = n
  BY <1>1 DEF OneOrderEach
<1> QED
  BY <1>1, <1>2 DEF Trades!OrderRow

LEMMA HistoryIs ==
  ASSUME Trades!EvidenceAssumption, TradeTypes, OneOrderEach, NEW i \in Trades!Placed
  PROVE  LET h == Trades!History(i) IN
         /\ i \in Intent /\ h.order \in OrderRecord /\ h.order.intent = i
         /\ h.attempts = attempts[i] /\ h.fills = fills[i] /\ h.links = links[i]
         /\ Len(attempts[i]) \in Nat /\ Len(fills[i]) \in Nat /\ Len(links[i]) \in Nat
         /\ attempts[i] \in Seq(Trades!AttemptRecord) /\ fills[i] \in Seq(Trades!FillRecord)
         /\ links[i] \in Seq(LinkRecord)
         /\ OrderOf[i] \in Trades!Asked
<1>1. PICK n \in 1..Len(orders) : orders[n].intent = i
  BY DEF Trades!Placed
<1>2. Trades!OrderRow(i) = orders[n]
  BY <1>1, RowOf
<1>3. orders[n] \in OrderRecord /\ i \in Intent /\ OrderOf[i] \in Trades!Asked
  BY <1>1, TypeFacts
<1>4. /\ attempts[i] \in Seq(Trades!AttemptRecord) /\ fills[i] \in Seq(Trades!FillRecord)
      /\ links[i] \in Seq(LinkRecord)
  BY <1>3 DEF TradeTypes
<1>5. Len(attempts[i]) \in Nat /\ Len(fills[i]) \in Nat /\ Len(links[i]) \in Nat
  BY <1>4
<1> QED
  BY <1>1, <1>2, <1>3, <1>4, <1>5 DEF Trades!History

\* An order that loads: what remains, and where its account and its replay are.
LEMMA LoadedIs ==
  ASSUME Trades!EvidenceAssumption, TradeTypes, OneOrderEach, NEW i \in Trades!Placed,
         Trades!Loads(Trades!History(i))
  PROVE  LET now == Trades!Now(Trades!History(i)) IN
         /\ now = [version |-> Len(attempts[i]), gross |-> Trades!GrossOf(fills[i]),
                   remaining |-> OrderOf[i].quantity - Trades!FilledOf(fills[i])]
         /\ now.remaining \in Nat /\ now.gross \in Nat
         /\ \A n \in 1..Len(fills[i]) : fills[i][n].version \in 1..Len(attempts[i])
         /\ Len(links[i]) = Len(fills[i])
<1>1. PICK h, m : h = Trades!History(i) /\ m = Len(attempts[i])
  OBVIOUS
<1>2. /\ h.order.intent = i /\ h.attempts = attempts[i] /\ h.fills = fills[i] /\ h.links = links[i]
      /\ m \in Nat /\ fills[i] \in Seq(Trades!FillRecord)
      /\ OrderOf[i] \in Trades!Asked
  BY <1>1, HistoryIs
<1>3. /\ \A n \in 1..Len(fills[i]) : fills[i][n].version \in 1..m
      /\ Len(links[i]) = Len(fills[i])
      /\ \A v \in 1..m : Trades!AttemptValid(h, v)
  BY <1>1, <1>2 DEF Trades!Loads
<1>4. PICK q, g, k : /\ k = OrderOf[i].quantity /\ q = Trades!FilledOf(fills[i])
                     /\ g = Trades!GrossOf(fills[i])
  OBVIOUS
<1>5. k \in Nat \ {0}
  BY <1>2, <1>4, AskedFacts
<1>6. /\ q \in Nat /\ g \in Nat
      /\ Trades!FilledUpto(fills[i], m) = q /\ Trades!GrossUpto(fills[i], m) = g
  <2>1. \A n \in 1..Len(fills[i]) : fills[i][n].version <= m
    BY <1>2, <1>3
  <2>2. "quantity" \in Sums /\ "gross" \in Sums
    BY DEF Sums
  <2>3. /\ Trades!Total(fills[i], "quantity") \in Nat
        /\ Trades!Upto(fills[i], m, "quantity") = Trades!Total(fills[i], "quantity")
    BY <1>2, <2>1, <2>2, RowSums
  <2>4. /\ Trades!Total(fills[i], "gross") \in Nat
        /\ Trades!Upto(fills[i], m, "gross") = Trades!Total(fills[i], "gross")
    BY <1>2, <2>1, <2>2, RowSums
  <2> QED
    BY <1>4, <2>3, <2>4 DEF Trades!FilledUpto, Trades!GrossUpto, Trades!FilledOf, Trades!GrossOf
<1>7. Trades!Before(h, m + 1) = [version |-> m, gross |-> g, remaining |-> k - q]
  <2>1. (m + 1) - 1 = m
    BY <1>2
  <2> QED
    BY <1>2, <1>4, <1>6, <2>1 DEF Trades!Before
<1>8. Trades!Now(h) = [version |-> m, gross |-> g, remaining |-> k - q]
  BY <1>1, <1>2, <1>7 DEF Trades!Now
<1>9. k - q >= 0
  <2>1. CASE m = 0
    <3>1. Len(fills[i]) = 0
      BY <1>2, <1>3, <2>1
    <3>2. fills[i] = <<>>
      BY <1>2, <3>1
    <3>3. q = 0
      <4>1. "quantity" \in Sums
        BY DEF Sums
      <4> QED
        BY <1>4, <3>2, <4>1, NoRows DEF Trades!FilledOf
    <3> QED
      BY <1>5, <3>3
  <2>2. CASE m # 0
    <3>1. Trades!AttemptValid(h, m)
      BY <1>2, <1>3, <2>2
    <3>2. Trades!Before(h, m + 1).remaining >= 0
      BY <3>1 DEF Trades!AttemptValid
    <3> QED
      BY <1>7, <3>2
  <2> QED
    BY <2>1, <2>2
<1> QED
  BY <1>1, <1>2, <1>3, <1>4, <1>5, <1>6, <1>8, <1>9

-----------------------------------------------------------------------------
(* The risk of the next trade *)

LEMMA CandidateIs ==
  ASSUME Trades!EvidenceAssumption, NEW o \in Trades!Asked, NEW remaining \in Nat, remaining > 0
  PROVE  /\ Trades!Candidate(o, remaining) \in 1..remaining
         /\ Trades!Within(Trades!Candidate(o, remaining), o.policy.cap)
<1>1. PICK cap : cap = o.policy.cap
  OBVIOUS
<1>2. cap \in (Nat \ {0}) \union {None}
  BY <1>1, AskedFacts DEF Trades!Limit
<1>3. CASE cap = None
  BY <1>1, <1>3 DEF Trades!Candidate, Trades!Within
<1>4. CASE cap \in Nat \ {0}
  BY <1>1, <1>4 DEF Trades!Candidate, Trades!Within
<1> QED
  BY <1>2, <1>3, <1>4

LEMMA CostsAre ==
  ASSUME NEW price, NEW k, NEW rates
  PROVE  LET c == Trades!Costs(price, k, rates) IN
         c.price = price /\ c.quantity = k /\ c.rates = rates /\ c.gross = Trades!Gross(price.price, k)
BY DEF Trades!Costs

\* What the evidence of the risk is, from the rows and the account as they are.
RiskFor(risk, i, p) ==
  LET facts == risk.facts
      costs == facts.costs
      o     == OrderOf[i]
      state == entries[Len(entries)].state
  IN /\ risk = Trades!Revalidation(facts)
     /\ facts.version = Len(attempts[i]) /\ facts.head = Len(entries)
     /\ facts.cash = state.cash /\ facts.held = Trades!Held(state)
     /\ facts.requested = o.quantity
     /\ facts.maxQuantity = o.maxQuantity /\ facts.maxNotional = o.maxNotional
     /\ facts.remaining = o.quantity - Trades!FilledOf(fills[i])
     /\ facts.cumulative = Trades!GrossOf(fills[i])
     /\ facts.candidate = Trades!Candidate(o, facts.remaining)
     /\ costs = Trades!Costs(costs.price, facts.candidate, Trades!Rates(o))
     /\ costs.quantity = facts.candidate /\ costs.rates = Trades!Rates(o)
     /\ costs.gross = Trades!Gross(costs.price.price, facts.candidate)
     /\ costs.price = Trades!PriceEvidence(costs.price.event, o.side, p, o.policy.slip)
     /\ costs.price.event = Trades!Event(Len(prices) + 1, p)
     /\ costs.price.side = o.side /\ costs.price.base = p /\ costs.price.slip = o.policy.slip

LEMMA RiskIs ==
  ASSUME Trades!EvidenceAssumption, TradeTypes, OneOrderEach, NEW i \in Trades!Placed,
         Trades!Loads(Trades!History(i)), Trades!Working(i), NEW p \in Price
  PROVE  LET risk == Trades!RiskAt(i, p) IN
         /\ risk \in Trades!RiskRecord /\ RiskFor(risk, i, p)
         /\ risk.facts.remaining > 0 /\ risk.facts.candidate \in 1..risk.facts.remaining
         /\ risk.facts.costs.price.price > 0 => Trades!RevalidationHolds(risk)
<1>1. PICK h, o, state, n : h = Trades!History(i) /\ o = OrderOf[i] /\ n = Len(entries)
                            /\ state = entries[n].state
  OBVIOUS
<1>2. PICK now : now = Trades!Now(h)
  OBVIOUS
<1>3. /\ now = [version |-> Len(attempts[i]), gross |-> Trades!GrossOf(fills[i]),
                remaining |-> o.quantity - Trades!FilledOf(fills[i])]
      /\ now.remaining \in Nat /\ now.gross \in Nat
  BY <1>1, <1>2, LoadedIs
<1>4. now.remaining > 0
  <2>1. ~Trades!IsTerminal(h)
    BY <1>1 DEF Trades!Working
  <2> QED
    BY <1>2, <1>3, <2>1 DEF Trades!IsTerminal
<1>5. i \in Intent /\ o \in Trades!Asked /\ Len(attempts[i]) \in Nat
  BY <1>1, HistoryIs
<1>6. n \in Nat \ {0} /\ state \in TradeState /\ Len(prices) \in Nat
  BY <1>1, TypeFacts
<1>7. /\ o.side \in Trades!Side /\ o.quantity \in Nat \ {0}
      /\ o.maxQuantity \in Trades!Limit /\ o.maxNotional \in Trades!Limit
      /\ o.policy.slip \in Trades!Rate
      /\ Trades!Rates(o) \in [commission : Trades!Rate, fee : Trades!Rate, tax : Trades!Rate]
  BY <1>5, AskedFacts
<1>8. p \in Nat \ {0}
  BY DEF Trades!EvidenceAssumption
<1>9. PICK event : event = Trades!Event(Len(prices) + 1, p)
  OBVIOUS
<1>10. event \in Trades!EventRecord
  BY <1>6, <1>8, <1>9 DEF Trades!Event, Trades!EventRecord
<1>11. PICK price : price = Trades!PriceEvidence(event, o.side, p, o.policy.slip)
  OBVIOUS
<1>12. /\ price \in Trades!PriceRecord /\ price.event = event /\ price.side = o.side
       /\ price.base = p /\ price.slip = o.policy.slip
  <2>1. price \in Trades!PriceRecord
    BY <1>7, <1>8, <1>10, <1>11, PriceType
  <2> QED
    BY <1>11, <2>1 DEF Trades!PriceEvidence
<1>13. PICK k : k = Trades!Candidate(o, now.remaining)
  OBVIOUS
<1>14. k \in 1..now.remaining
  BY <1>3, <1>4, <1>5, <1>13, CandidateIs
<1>15. PICK costs : costs = Trades!Costs(price, k, Trades!Rates(o))
  OBVIOUS
<1>16. /\ costs \in Trades!CostRecord /\ costs.price = price /\ costs.quantity = k
       /\ costs.rates = Trades!Rates(o) /\ costs.gross = Trades!Gross(price.price, k)
  <2>1. costs \in Trades!CostRecord
    BY <1>3, <1>7, <1>12, <1>14, <1>15, CostsType
  <2> QED
    BY <1>15, <2>1, CostsAre
<1>17. PICK facts : facts = Trades!Facts(o, now, n, state, price)
  OBVIOUS
<1>18. facts = [version |-> now.version, head |-> n, cash |-> state.cash, held |-> Trades!Held(state),
                requested |-> o.quantity, maxQuantity |-> o.maxQuantity, maxNotional |-> o.maxNotional,
                remaining |-> now.remaining, candidate |-> k, cumulative |-> now.gross, costs |-> costs]
  BY <1>13, <1>15, <1>17 DEF Trades!Facts
<1>19. PICK risk : risk = Trades!Revalidation(facts)
  OBVIOUS
<1>20. Trades!RiskAt(i, p) = risk
  <2>1. Trades!Last(entries).state = state
    BY <1>1 DEF Trades!Last
  <2> QED
    BY <1>1, <1>2, <1>9, <1>11, <1>17, <1>19, <2>1 DEF Trades!RiskAt
<1>21. risk.facts = facts /\ risk.failed = Trades!FailedRules(facts)
       /\ risk = [facts |-> facts, failed |-> Trades!FailedRules(facts)]
  BY <1>19 DEF Trades!Revalidation
<1>22. risk \in Trades!RiskRecord
  <2>1. state.cash \in Nat /\ Trades!Held(state) \in Nat
    BY <1>6 DEF TradeState, Trades!Held, Here
  <2>2. Trades!FailedRules(facts) \in SUBSET Trades!Rule
    BY DEF Trades!FailedRules
  <2>3. now.version \in Nat /\ k \in Nat
    BY <1>3, <1>5, <1>14
  <2> QED
    BY <1>3, <1>6, <1>7, <1>16, <1>18, <1>21, <2>1, <2>2, <2>3 DEF Trades!RiskRecord
<1>23. RiskFor(risk, i, p)
  <2>1. /\ facts.version = Len(attempts[i]) /\ facts.head = Len(entries)
        /\ facts.cash = state.cash /\ facts.held = Trades!Held(state)
        /\ facts.requested = o.quantity
        /\ facts.maxQuantity = o.maxQuantity /\ facts.maxNotional = o.maxNotional
        /\ facts.remaining = o.quantity - Trades!FilledOf(fills[i])
        /\ facts.cumulative = Trades!GrossOf(fills[i])
        /\ facts.candidate = k /\ facts.remaining = now.remaining /\ facts.costs = costs
    BY <1>1, <1>3, <1>18
  <2>2. facts.candidate = Trades!Candidate(o, facts.remaining)
    BY <1>13, <2>1
  <2>3. costs = Trades!Costs(costs.price, k, Trades!Rates(o))
    BY <1>15, <1>16
  <2>4. costs.gross = Trades!Gross(costs.price.price, k)
    BY <1>16
  <2>5. /\ costs.price = Trades!PriceEvidence(costs.price.event, o.side, p, o.policy.slip)
        /\ costs.price.event = Trades!Event(Len(prices) + 1, p)
        /\ costs.price.side = o.side /\ costs.price.base = p /\ costs.price.slip = o.policy.slip
    BY <1>9, <1>11, <1>12, <1>16
  <2>6. risk = Trades!Revalidation(risk.facts)
    BY <1>19, <1>21
  <2> QED
    BY <1>1, <1>16, <1>21, <2>1, <2>2, <2>3, <2>4, <2>5, <2>6, Zenon DEF RiskFor
<1>24. ASSUME price.price > 0 PROVE Trades!RevalidationHolds(risk)
  <2>1. Trades!PriceHolds(price)
    BY <1>8, <1>11, <1>12, <1>24 DEF Trades!PriceHolds
  <2>2. Trades!CostsHold(costs)
    BY <1>14, <1>15, <1>16, <2>1 DEF Trades!CostsHold
  <2>3. facts.version >= 0 /\ facts.head >= 1 /\ facts.requested > 0 /\ facts.remaining > 0 /\ facts.candidate > 0
    BY <1>3, <1>4, <1>5, <1>6, <1>7, <1>14, <1>18
  <2> QED
    BY <1>18, <1>19, <1>21, <2>2, <2>3 DEF Trades!RevalidationHolds
<1> QED
  BY <1>4, <1>14, <1>16, <1>18, <1>20, <1>21, <1>22, <1>23, <1>24

\* The rules that passed.
LEMMA PassedRules ==
  ASSUME NEW r, Trades!FailedRules(r) = {}
  PROVE  /\ Trades!NotionalPasses(r)
         /\ r.costs.price.side = "buy" => r.costs.gross + r.costs.charges <= r.cash
         /\ r.costs.price.side = "sell" => r.candidate <= r.held /\ r.costs.gross >= r.costs.charges
<1> DEFINE Passes(rule) ==
             CASE rule = "position" -> (r.costs.price.side = "sell" => r.candidate <= r.held)
               [] rule = "quantity" -> Trades!Within(r.requested, r.maxQuantity)
               [] rule = "notional" -> Trades!NotionalPasses(r)
               [] rule = "cash"     -> Trades!CashPasses(r)
               [] rule = "proceeds" -> (r.costs.price.side = "sell" => r.costs.gross >= r.costs.charges)
<1>1. \A rule \in Trades!Rule : Passes(rule)
  BY Zenon DEF Trades!FailedRules
<1>2. {"position", "notional", "cash", "proceeds"} \subseteq Trades!Rule
  BY DEF Trades!Rule
<1>3. /\ Passes("position") <=> (r.costs.price.side = "sell" => r.candidate <= r.held)
      /\ Passes("notional") <=> Trades!NotionalPasses(r)
      /\ Passes("cash") <=> Trades!CashPasses(r)
      /\ Passes("proceeds") <=> (r.costs.price.side = "sell" => r.costs.gross >= r.costs.charges)
  OBVIOUS
<1> HIDE DEF Passes
<1>4. Passes("position") /\ Passes("notional") /\ Passes("cash") /\ Passes("proceeds")
  BY <1>1, <1>2
<1> QED
  BY <1>3, <1>4 DEF Trades!CashPasses

\* What the risk allows, the account settles.
LEMMA AllowedAreSettled ==
  ASSUME Trades!EvidenceAssumption, TradeInv PROVE Trades!AllowedIsSettled
<1> USE DEF TradeInv
<1>1. SUFFICES ASSUME NEW i \in Intent, Trades!Working(i), Trades!Current(i), NEW p \in Price,
                      NEW risk, risk = Trades!RiskAt(i, p), NEW costs, costs = risk.facts.costs,
                      costs.gross > 0, risk.failed = {}
               PROVE  Trades!Settles(OrderOf[i], entries[Len(entries)].state, costs)
  BY DEF Trades!AllowedIsSettled
<1>2. i \in Trades!Placed
  BY <1>1 DEF Trades!Working
<1>3. Trades!Loads(Trades!History(i))
  BY <1>2 DEF Trades!HistoriesLoad
<1>4. PICK facts, o, state : facts = risk.facts /\ o = OrderOf[i] /\ state = entries[Len(entries)].state
  OBVIOUS
<1>5. /\ risk \in Trades!RiskRecord /\ RiskFor(risk, i, p)
      /\ facts.remaining > 0 /\ facts.candidate \in 1..facts.remaining
  BY <1>1, <1>2, <1>3, <1>4, RiskIs
<1>6. /\ risk = Trades!Revalidation(facts) /\ facts.cash = state.cash /\ facts.held = Trades!Held(state)
      /\ costs.quantity = facts.candidate /\ costs.price.side = o.side
  BY <1>1, <1>4, <1>5 DEF RiskFor
<1>7. costs \in Trades!CostRecord /\ costs.quantity > 0
  <2>1. costs \in Trades!CostRecord /\ facts.remaining \in Nat
    BY <1>1, <1>4, <1>5 DEF Trades!RiskRecord
  <2> QED
    BY <1>5, <1>6, <2>1
<1>8. Trades!FailedRules(facts) = {}
  BY <1>1, <1>6 DEF Trades!Revalidation
<1>9. /\ o.side = "buy" => costs.gross + costs.charges <= state.cash
      /\ o.side = "sell" => costs.quantity <= state.positions[Here].quantity /\ costs.gross >= costs.charges
  BY <1>1, <1>4, <1>6, <1>8, PassedRules DEF Trades!Held, Here
<1>10. state \in TradeState
  BY <1>4, TypeFacts
<1>11. o.side \in Trades!Side
  <2>1. o \in Trades!Asked
    BY <1>4, TypeFacts
  <2> QED
    BY <2>1, AskedFacts
<1> QED
  BY <1>1, <1>4, <1>7, <1>9, <1>10, <1>11, AllowedSettles

-----------------------------------------------------------------------------
(* What stays true of rows that are there *)

\* The rows are those of the first m attempts.
Numbered(rows, m) == \A n \in 1..Len(rows) : rows[n].version \in 1..m

\* One more, of the attempt after them.
OneRowMore(rows, m, f, more) ==
  /\ rows \in Seq(Trades!FillRecord) /\ Numbered(rows, m)
  /\ f \in Trades!FillRecord /\ f.version = m + 1 /\ more = Append(rows, f)

LEMMA UptoStays ==
  ASSUME NEW m \in Nat, NEW rows, NEW f, NEW more, OneRowMore(rows, m, f, more)
  PROVE  /\ \A v \in 0..m : Trades!FilledUpto(more, v) = Trades!FilledUpto(rows, v)
         /\ \A v \in 0..m : Trades!GrossUpto(more, v) = Trades!GrossUpto(rows, v)
         /\ Trades!FilledUpto(more, m + 1) = Trades!FilledOf(rows) + f.costs.quantity
<1>1. /\ rows \in Seq(Trades!FillRecord) /\ Numbered(rows, m)
      /\ f \in Trades!FillRecord /\ f.version = m + 1 /\ more = Append(rows, f)
  BY DEF OneRowMore
<1>2. "quantity" \in Sums /\ "gross" \in Sums
  BY DEF Sums
<1>3. ASSUME NEW a \in Sums, NEW v \in 0..m PROVE Trades!Upto(more, v, a) = Trades!Upto(rows, v, a)
  <2>1. v \in Nat /\ ~(f.version <= v)
    BY <1>1
  <2>2. Trades!Upto(rows, v, a) \in Nat
    BY <1>1, <2>1, RowSums
  <2>3. Trades!Upto(more, v, a) = Trades!Upto(rows, v, a) + 0
    BY <1>1, <2>1, RowMore
  <2> QED
    BY <2>2, <2>3
<1>4. Trades!Upto(more, m + 1, "quantity") = Trades!Total(rows, "quantity") + f.costs.quantity
  <2>1. m + 1 \in Nat /\ f.version <= m + 1 /\ \A n \in 1..Len(rows) : rows[n].version <= m + 1
    BY <1>1 DEF Numbered
  <2>2. Trades!Upto(rows, m + 1, "quantity") = Trades!Total(rows, "quantity")
    BY <1>1, <1>2, <2>1, RowSums
  <2>3. Trades!Upto(more, m + 1, "quantity") = Trades!Upto(rows, m + 1, "quantity") + f.costs["quantity"]
    BY <1>1, <1>2, <2>1, RowMore
  <2> QED
    BY <2>2, <2>3
<1> QED
  BY <1>1, <1>2, <1>3, <1>4 DEF Trades!FilledUpto, Trades!GrossUpto, Trades!FilledOf

\* A valid attempt stays valid as long as what it is judged by does not change.
LEMMA AttemptStays ==
  ASSUME NEW h, NEW g, NEW v \in Nat \ {0}, Trades!AttemptValid(h, v),
         g.order = h.order, g.attempts[v] = h.attempts[v],
         v > 1 => g.attempts[v - 1] = h.attempts[v - 1],
         Trades!Before(g, v) = Trades!Before(h, v), Trades!Before(g, v + 1) = Trades!Before(h, v + 1),
         Trades!FillsOf(g, v) = Trades!FillsOf(h, v),
         \A n \in 1..Len(h.fills) : n \in 1..Len(g.fills) /\ g.fills[n] = h.fills[n],
         prices'[h.attempts[v].post] = prices[h.attempts[v].post]
  PROVE  Trades!AttemptValid(g, v)'
<1>1. PICK a : a = h.attempts[v]
  OBVIOUS
<1>2. g.attempts[v] = a
  BY <1>1
<1>3. /\ a.pre = IF v = 1 THEN h.order.market.position ELSE h.attempts[v - 1].post
      /\ Trades!WellFormed(a)
      /\ a.event # None => a.event = Trades!EventReference(a.post)
      /\ a.risk # None => Trades!RevalidationHolds(a.risk) /\ Trades!RiskFollows(h, v, a)
      /\ IF a.result = "fill"
         THEN \E n \in 1..Len(h.fills) : Trades!FillsOf(h, v) = {n} /\ h.fills[n] = Trades!FillOf(a, v)
         ELSE Trades!FillsOf(h, v) = {}
      /\ Trades!Before(h, v).remaining > 0 /\ (v > 1 => h.attempts[v - 1].reason = "none")
      /\ Trades!Before(h, v + 1).remaining >= 0
      /\ Trades!Before(h, v + 1).remaining = 0 => a.reason = "none"
      /\ a.result = "fill" /\ a.post = Len(Stream) /\ Trades!Before(h, v + 1).remaining > 0
           => a.reason = "replay_exhausted"
  BY <1>1 DEF Trades!AttemptValid
<1>4. Trades!RiskFollows(h, v, a) <=> Trades!RiskFollows(g, v, a)
  BY DEF Trades!RiskFollows
<1>5. a.event # None => a.event = Trades!Event(a.post, prices'[a.post])
  BY <1>1, <1>3 DEF Trades!EventReference
<1>6. a.pre = IF v = 1 THEN g.order.market.position ELSE g.attempts[v - 1].post
  BY <1>3
<1>7. IF a.result = "fill"
      THEN \E n \in 1..Len(g.fills) : Trades!FillsOf(g, v) = {n} /\ g.fills[n] = Trades!FillOf(a, v)
      ELSE Trades!FillsOf(g, v) = {}
  BY <1>3
<1>8. v > 1 => g.attempts[v - 1].reason = "none"
  BY <1>3
<1> QED
  BY <1>2, <1>3, <1>4, <1>5, <1>6, <1>7, <1>8 DEF Trades!AttemptValid, Trades!EventReference

\* The replay and the account's ledger are only appended to.
BothGrow ==
  /\ Len(prices') \in Nat /\ Len(prices) <= Len(prices')
  /\ \A n \in 1..Len(prices) : prices'[n] = prices[n]
  /\ Len(entries') \in Nat /\ Len(entries) <= Len(entries')
  /\ \A n \in 1..Len(entries) : entries'[n] = entries[n]

LEMMA FirstOnes ==
  ASSUME NEW s, NEW t, Len(s) \in Nat, Len(t) \in Nat, Len(s) <= Len(t),
         \A n \in 1..Len(s) : t[n] = s[n], NEW k \in 1..Len(s)
  PROVE  SubSeq(t, 1, k) = SubSeq(s, 1, k)
<1>1. \A n \in 1..k : n \in 1..Len(s) /\ t[n] = s[n]
  OBVIOUS
<1>2. SubSeq(t, 1, k) = [n \in 1..k |-> t[n]] /\ SubSeq(s, 1, k) = [n \in 1..k |-> s[n]]
  <2>1. \A u : SubSeq(u, 1, k) = [n \in 1..(1 + k - 1) |-> u[1 + n - 1]]
    OBVIOUS
  <2> QED
    BY <2>1
<1> QED
  BY <1>1, <1>2

LEMMA CreatedStays ==
  ASSUME TradeTypes, BothGrow, NEW order, Trades!CreatedAgain(order),
         decisions'[order.intent] = decisions[order.intent]
  PROVE  Trades!CreatedAgain(order)'
<1>1. PICK then, seen : /\ then = SubSeq(entries, 1, order.account.version)
                        /\ seen = SubSeq(prices, 1, order.market.position)
  OBVIOUS
<1>2. /\ order.account.version \in 1..Len(entries) /\ order.market.position \in 1..Len(prices)
      /\ Trades!CanHandOff(order.intent, then, seen)
      /\ order = Trades!NewOrder(order.intent, then, seen)
  BY <1>1 DEF Trades!CreatedAgain
<1>3. Len(prices) \in Nat /\ Len(entries) \in Nat
  BY DEF TradeTypes
<1>4. then = SubSeq(entries', 1, order.account.version) /\ seen = SubSeq(prices', 1, order.market.position)
  BY <1>1, <1>2, <1>3, FirstOnes DEF BothGrow
<1>5. order.account.version \in 1..Len(entries') /\ order.market.position \in 1..Len(prices')
  BY <1>2, <1>3 DEF BothGrow
<1>6. Trades!CanHandOff(order.intent, then, seen)' /\ Trades!NewOrder(order.intent, then, seen)' = order
  BY <1>2 DEF Trades!CanHandOff, Trades!MatchingAllow, Trades!AccountHandsOff, Trades!MarketHandsOff,
              Trades!NewOrder, Trades!RiskHandoff
<1> QED
  BY <1>4, <1>5, <1>6 DEF Trades!CreatedAgain

LEMMA LinkStays ==
  ASSUME TradeTypes, BothGrow, NEW h, NEW g, NEW n \in Nat \ {0}, Trades!LinkReconciles(h, n),
         g.order = h.order, g.links[n] = h.links[n], n > 1 => g.links[n - 1] = h.links[n - 1],
         g.fills[n] = h.fills[n]
  PROVE  Trades!LinkReconciles(g, n)'
<1>1. PICK l, f, o, facts, k : /\ l = h.links[n] /\ f = h.fills[n] /\ o = OrderOf[h.order.intent]
                               /\ facts = f.attempt.risk.facts /\ k = l.version
  OBVIOUS
<1>2. /\ l.fill = f /\ k \in 2..Len(entries) /\ facts.head = k - 1
      /\ k = 1 + (IF n = 1 THEN h.order.account.version ELSE h.links[n - 1].version)
      /\ facts.cash = entries[k - 1].state.cash /\ facts.held = Trades!Held(entries[k - 1].state)
      /\ Trades!Settles(o, entries[k - 1].state, f.costs)
      /\ entries[k] = Trades!Entry(f, Trades!Settled(o, entries[k - 1].state, f.costs))
  BY <1>1, Zenon DEF Trades!LinkReconciles
<1>3. Len(entries) \in Nat
  BY DEF TradeTypes
<1>4. k - 1 \in 1..Len(entries) /\ k \in 1..Len(entries) /\ k \in 2..Len(entries')
  <2>1. k \in 2..Len(entries)
    BY <1>2, Zenon
  <2>2. Len(entries') \in Nat /\ Len(entries) <= Len(entries')
    BY DEF BothGrow
  <2> QED
    BY ONLY <1>3, <2>1, <2>2
<1>5. entries'[k - 1] = entries[k - 1] /\ entries'[k] = entries[k]
  BY ONLY <1>4, BothGrow DEF BothGrow
<1>6. k = 1 + (IF n = 1 THEN g.order.account.version ELSE g.links[n - 1].version)
  <2>1. n = 1 \/ n > 1
    OBVIOUS
  <2> QED
    BY <1>2, <2>1, Zenon
<1>7. g.links[n] = l /\ g.fills[n] = f /\ g.order = h.order /\ k = l.version
  BY <1>1, Zenon
<1>8. /\ l.fill = f /\ k \in 2..Len(entries') /\ facts.head = k - 1
      /\ facts.cash = entries'[k - 1].state.cash /\ facts.held = Trades!Held(entries'[k - 1].state)
      /\ Trades!Settles(o, entries'[k - 1].state, f.costs)
      /\ entries'[k] = Trades!Entry(f, Trades!Settled(o, entries'[k - 1].state, f.costs))
  BY ONLY <1>2, <1>4, <1>5, Zenon
<1> QED
  BY ONLY <1>1, <1>6, <1>7, <1>8, Zenon DEF Trades!LinkReconciles

\* The rows of an order that no step touches load again.
LEMMA LoadsStays ==
  ASSUME Trades!EvidenceAssumption, TradeTypes, OneOrderEach, EventsAreThere, BothGrow,
         NEW i \in Trades!Placed, NEW h, h = Trades!History(i), Trades!Loads(h), decisions'[i] = decisions[i]
  PROVE  Trades!Loads(h)'
<1>1. /\ i \in Intent /\ h.order.intent = i /\ h.attempts = attempts[i] /\ h.links = links[i]
      /\ Len(h.attempts) \in Nat /\ Len(h.links) \in Nat
  BY HistoryIs
<1>2. /\ Trades!OrderValid(h.order) /\ Trades!CreatedAgain(h.order)
      /\ \A v \in 1..Len(h.attempts) : Trades!AttemptValid(h, v)
      /\ \A n \in 1..Len(h.fills) : h.fills[n].version \in 1..Len(h.attempts)
      /\ Len(h.links) = Len(h.fills)
      /\ \A n \in 1..Len(h.links) : Trades!LinkReconciles(h, n)
  BY DEF Trades!Loads
<1>3. Trades!CreatedAgain(h.order)'
  BY <1>1, <1>2, CreatedStays
<1>4. ASSUME NEW v \in 1..Len(h.attempts) PROVE Trades!AttemptValid(h, v)'
  <2>1. v \in Nat \ {0}
    BY <1>1
  <2>2. h.attempts[v].post \in 1..Len(prices)
    BY <1>1 DEF EventsAreThere
  <2>3. prices'[h.attempts[v].post] = prices[h.attempts[v].post]
    BY <2>2 DEF BothGrow
  <2>4. Trades!AttemptValid(h, v)
    BY <1>2
  <2> QED
    BY <2>1, <2>3, <2>4, AttemptStays
<1>5. ASSUME NEW n \in 1..Len(h.links) PROVE Trades!LinkReconciles(h, n)'
  <2>1. n \in Nat \ {0} /\ Trades!LinkReconciles(h, n)
    BY <1>1, <1>2
  <2> QED
    BY <2>1, LinkStays
<1> QED
  BY <1>2, <1>3, <1>4, <1>5 DEF Trades!Loads, Trades!OrderValid

-----------------------------------------------------------------------------
(* One attempt more *)

\* The rows g are h after one more attempt.
OneMore(h, g, a) ==
  LET f == Trades!FillOf(a, Len(h.attempts) + 1) IN
  /\ g.order = h.order /\ g.attempts = Append(h.attempts, a)
  /\ IF a.result = "fill" THEN g.fills = Append(h.fills, f) /\ f \in Trades!FillRecord
                          ELSE g.fills = h.fills

\* What an attempt fills.
Filling(a) == IF a.result = "fill" THEN a.risk.facts.costs.quantity ELSE 0

\* Attempt a is right after h.
RightAfter(h, a) ==
  LET rest == Trades!Now(h).remaining - Filling(a) IN
  /\ ~Trades!IsTerminal(h) /\ Trades!Now(h).remaining > 0
  /\ a.pre = Trades!Position(h) /\ Trades!WellFormed(a)
  /\ a.risk # None => Trades!RevalidationHolds(a.risk) /\ Trades!RiskFollows(h, Len(h.attempts) + 1, a)
  /\ rest >= 0 /\ (rest = 0 => a.reason = "none")
  /\ a.result = "fill" /\ a.post = Len(Stream) /\ rest > 0 => a.reason = "replay_exhausted"

LEMMA RowsOneMore ==
  ASSUME NEW h, NEW g, NEW a, OneMore(h, g, a),
         h.attempts \in Seq(Trades!AttemptRecord), a \in Trades!AttemptRecord,
         h.fills \in Seq(Trades!FillRecord),
         NEW m, m = Len(h.attempts), Numbered(h.fills, m)
  PROVE  /\ m \in Nat /\ Len(g.attempts) = m + 1 /\ g.attempts[m + 1] = a
         /\ \A v \in 1..m : g.attempts[v] = h.attempts[v]
         /\ \A n \in 1..Len(h.fills) : n \in 1..Len(g.fills) /\ g.fills[n] = h.fills[n]
         /\ Numbered(g.fills, m + 1)
         /\ \A v \in 1..m : Trades!FillsOf(g, v) = Trades!FillsOf(h, v)
         /\ a.result = "fill" =>
              /\ Trades!FillsOf(g, m + 1) = {Len(g.fills)} /\ Len(g.fills) \in 1..Len(g.fills)
              /\ g.fills[Len(g.fills)] = Trades!FillOf(a, m + 1)
         /\ a.result # "fill" => Trades!FillsOf(g, m + 1) = {}
<1>1. PICK k, f : k = Len(h.fills) /\ f = Trades!FillOf(a, m + 1)
  OBVIOUS
<1>2. m \in Nat /\ k \in Nat
  BY <1>1
<1>3. /\ Len(g.attempts) = m + 1 /\ g.attempts[m + 1] = a /\ \A v \in 1..m : g.attempts[v] = h.attempts[v]
  BY <1>1 DEF OneMore
<1>4. f.version = m + 1
  BY <1>1 DEF Trades!FillOf
<1>5. CASE a.result = "fill"
  <2>1. g.fills = Append(h.fills, f) /\ f \in Trades!FillRecord
    BY <1>1, <1>5 DEF OneMore
  <2>2. Len(g.fills) = k + 1 /\ g.fills[k + 1] = f /\ \A n \in 1..k : g.fills[n] = h.fills[n]
    BY <1>1, <2>1
  <2>3. \A n \in 1..k + 1 : n \in 1..k \/ n = k + 1
    BY <1>2
  <2>4. /\ \A n \in 1..k : n \in 1..Len(g.fills) /\ g.fills[n] = h.fills[n]
        /\ Numbered(g.fills, m + 1)
    <3>1. \A n \in 1..k : n \in 1..k + 1
      BY <1>2
    <3>2. ASSUME NEW n \in 1..k + 1 PROVE g.fills[n].version \in 1..m + 1
      <4>0. 1..m \subseteq 1..m + 1 /\ m + 1 \in 1..m + 1
        BY ONLY <1>2
      <4>1. CASE n = k + 1
        <5>1. g.fills[n] = f
          BY ONLY <2>2, <4>1
        <5> QED
          BY ONLY <1>4, <4>0, <5>1
      <4>2. CASE n \in 1..k
        <5>1. h.fills[n].version \in 1..m
          BY <1>1, <4>2 DEF Numbered
        <5>2. g.fills[n] = h.fills[n]
          BY ONLY <2>2, <4>2
        <5> QED
          BY ONLY <4>0, <5>1, <5>2
      <4> QED
        BY <2>3, <4>1, <4>2
    <3> QED
      BY <2>2, <3>1, <3>2 DEF Numbered
  <2>5. \A v \in 1..m : Trades!FillsOf(g, v) = Trades!FillsOf(h, v)
    <3>1. ASSUME NEW v \in 1..m PROVE {n \in 1..k + 1 : g.fills[n].version = v} = {n \in 1..k : h.fills[n].version = v}
      <4>1. v # f.version
        BY ONLY <1>2, <1>4, v \in 1..m
      <4>2. \A n \in 1..k : n \in 1..k + 1 /\ n # k + 1
        BY ONLY <1>2
      <4>3. ASSUME NEW n \in 1..k + 1 PROVE g.fills[n].version = v <=> n \in 1..k /\ h.fills[n].version = v
        <5>1. CASE n \in 1..k
          BY ONLY <2>2, <5>1, Zenon
        <5>2. CASE n = k + 1
          BY ONLY <2>2, <4>1, <4>2, <5>2, Zenon
        <5> QED
          BY ONLY <2>3, <5>1, <5>2
      <4> QED
        BY ONLY <4>2, <4>3, Zenon
    <3> QED
      BY <1>1, <2>2, <3>1 DEF Trades!FillsOf
  <2>6. Trades!FillsOf(g, m + 1) = {k + 1} /\ k + 1 \in 1..Len(g.fills)
    <3>1. \A n \in 1..k : g.fills[n].version # m + 1
      BY <1>1, <1>2, <2>2 DEF Numbered
    <3>2. {n \in 1..k + 1 : g.fills[n].version = m + 1} = {k + 1}
      BY <1>2, <1>4, <2>2, <2>3, <3>1
    <3> QED
      BY <1>2, <2>2, <3>2 DEF Trades!FillsOf
  <2> QED
    BY <1>1, <1>2, <1>3, <1>5, <2>2, <2>4, <2>5, <2>6
<1>6. CASE a.result # "fill"
  <2>1. g.fills = h.fills
    BY <1>6 DEF OneMore
  <2>2. \A n \in 1..k : h.fills[n].version \in 1..m + 1 /\ h.fills[n].version # m + 1
    BY <1>1, <1>2 DEF Numbered
  <2>3. Trades!FillsOf(g, m + 1) = {} /\ \A v \in 1..m : Trades!FillsOf(g, v) = Trades!FillsOf(h, v)
    BY <1>1, <2>1, <2>2 DEF Trades!FillsOf
  <2> QED
    BY <1>1, <1>2, <1>3, <1>6, <2>1, <2>2, <2>3 DEF Numbered
<1> QED
  BY <1>5, <1>6

\* What the rows say of the order before each attempt.
LEMMA BeforeOneMore ==
  ASSUME NEW h, NEW g, NEW a, OneMore(h, g, a),
         h.attempts \in Seq(Trades!AttemptRecord), a \in Trades!AttemptRecord,
         h.fills \in Seq(Trades!FillRecord),
         NEW m, m = Len(h.attempts), Numbered(h.fills, m),
         OrderOf[h.order.intent].quantity \in Nat
  PROVE
         /\ \A v \in 1..m + 1 : Trades!Before(g, v) = Trades!Before(h, v)
         /\ Trades!Before(h, m + 1) = Trades!Now(h)
         /\ Trades!Before(g, m + 2).remaining = Trades!Now(h).remaining - Filling(a)
<1>1. PICK f, q : f = Trades!FillOf(a, m + 1) /\ q = OrderOf[h.order.intent].quantity
  OBVIOUS
<1>2. m \in Nat /\ q \in Nat
  BY <1>1
<1>3. f.version = m + 1 /\ f.costs = a.risk.facts.costs
  BY <1>1 DEF Trades!FillOf
<1>4. /\ \A v \in 0..m : /\ Trades!FilledUpto(g.fills, v) = Trades!FilledUpto(h.fills, v)
                         /\ Trades!GrossUpto(g.fills, v) = Trades!GrossUpto(h.fills, v)
      /\ Trades!FilledUpto(g.fills, m + 1) = Trades!FilledOf(h.fills) + Filling(a)
      /\ Trades!FilledUpto(h.fills, m) = Trades!FilledOf(h.fills) /\ Trades!FilledOf(h.fills) \in Nat
      /\ Filling(a) \in Nat
  <2>1. "quantity" \in Sums
    BY DEF Sums
  <2>2. /\ Trades!FilledUpto(h.fills, m) = Trades!FilledOf(h.fills) /\ Trades!FilledOf(h.fills) \in Nat
        /\ Trades!FilledUpto(h.fills, m + 1) = Trades!FilledOf(h.fills)
    <3>1. \A n \in 1..Len(h.fills) : h.fills[n].version <= m /\ h.fills[n].version <= m + 1
      BY <1>1, <1>2 DEF Numbered
    <3>2. m \in Nat /\ m + 1 \in Nat
      BY <1>2
    <3> QED
      BY <2>1, <3>1, <3>2, RowSums DEF Trades!FilledUpto, Trades!FilledOf
  <2>3. CASE a.result = "fill"
    <3>1. g.fills = Append(h.fills, f) /\ f \in Trades!FillRecord
      BY <1>1, <2>3 DEF OneMore
    <3>2. f.costs.quantity = Filling(a)
      BY <1>3, <2>3 DEF Filling
    <3>3. Filling(a) \in Nat
      BY <3>1, <3>2 DEF Trades!FillRecord, Trades!CostRecord
    <3>4. /\ \A v \in 0..m : /\ Trades!FilledUpto(g.fills, v) = Trades!FilledUpto(h.fills, v)
                             /\ Trades!GrossUpto(g.fills, v) = Trades!GrossUpto(h.fills, v)
          /\ Trades!FilledUpto(g.fills, m + 1) = Trades!FilledOf(h.fills) + f.costs.quantity
      <4>1. PICK rows, more : rows = h.fills /\ more = g.fills
        OBVIOUS
      <4>2. OneRowMore(rows, m, f, more)
        BY <1>3, <3>1, <4>1 DEF OneRowMore
      <4>3. \A v \in 0..m : Trades!FilledUpto(more, v) = Trades!FilledUpto(rows, v)
        BY <1>2, <4>2, UptoStays
      <4>4. \A v \in 0..m : Trades!GrossUpto(more, v) = Trades!GrossUpto(rows, v)
        BY <1>2, <4>2, UptoStays
      <4>5. Trades!FilledUpto(more, m + 1) = Trades!FilledOf(rows) + f.costs.quantity
        BY <1>2, <4>2, UptoStays
      <4> QED
        BY <4>1, <4>3, <4>4, <4>5
    <3> QED
      BY <2>2, <3>2, <3>3, <3>4
  <2>4. CASE a.result # "fill"
    <3>1. g.fills = h.fills /\ Filling(a) = 0
      BY <2>4 DEF OneMore, Filling
    <3> QED
      BY <2>2, <3>1
  <2> QED
    BY <2>3, <2>4
<1>5. g.order = h.order
  BY DEF OneMore
<1>6. ASSUME NEW v \in 1..m + 1 PROVE Trades!Before(g, v) = Trades!Before(h, v)
  <2>1. v - 1 \in 0..m
    BY <1>2
  <2> QED
    BY <1>4, <1>5, <2>1 DEF Trades!Before
<1>7. Trades!Before(h, m + 1) = Trades!Now(h)
  BY <1>1 DEF Trades!Now
<1>8. Trades!Before(g, m + 2).remaining = q - (Trades!FilledOf(h.fills) + Filling(a))
  <2>1. (m + 2) - 1 = m + 1
    BY <1>2
  <2> QED
    BY <1>1, <1>4, <1>5, <2>1 DEF Trades!Before
<1>9. Trades!Now(h).remaining = q - Trades!FilledOf(h.fills)
  <2>1. (m + 1) - 1 = m
    BY <1>2
  <2> QED
    BY <1>1, <1>4, <1>7, <2>1 DEF Trades!Before
<1> QED
  BY <1>1, <1>2, <1>4, <1>6, <1>7, <1>8, <1>9

\* The attempts of an order and one right after them are valid.
LEMMA AttemptsOneMore ==
  ASSUME NEW h, NEW g, NEW a, OneMore(h, g, a),
         h.attempts \in Seq(Trades!AttemptRecord), a \in Trades!AttemptRecord,
         h.fills \in Seq(Trades!FillRecord),
         NEW m, m = Len(h.attempts), Numbered(h.fills, m),
         OrderOf[h.order.intent].quantity \in Nat,
         \A v \in 1..Len(h.attempts) : /\ Trades!AttemptValid(h, v)
                                       /\ prices'[h.attempts[v].post] = prices[h.attempts[v].post],
         RightAfter(h, a), a.event # None => a.event = Trades!Event(a.post, prices'[a.post])
  PROVE  \A v \in 1..Len(g.attempts) : Trades!AttemptValid(g, v)'
<1>1. PICK rest : rest = Trades!Now(h).remaining - Filling(a)
  OBVIOUS
<1>2. /\ m \in Nat /\ Len(g.attempts) = m + 1 /\ g.attempts[m + 1] = a
      /\ \A v \in 1..m : g.attempts[v] = h.attempts[v]
      /\ \A n \in 1..Len(h.fills) : n \in 1..Len(g.fills) /\ g.fills[n] = h.fills[n]
      /\ \A v \in 1..m : Trades!FillsOf(g, v) = Trades!FillsOf(h, v)
      /\ a.result = "fill" =>
           /\ Trades!FillsOf(g, m + 1) = {Len(g.fills)} /\ Len(g.fills) \in 1..Len(g.fills)
           /\ g.fills[Len(g.fills)] = Trades!FillOf(a, m + 1)
      /\ a.result # "fill" => Trades!FillsOf(g, m + 1) = {}
  BY <1>1, RowsOneMore
<1>3. /\ \A v \in 1..m + 1 : Trades!Before(g, v) = Trades!Before(h, v)
      /\ Trades!Before(h, m + 1) = Trades!Now(h)
      /\ Trades!Before(g, m + 2).remaining = rest
  BY <1>1, BeforeOneMore
<1>4. g.order = h.order
  BY DEF OneMore
<1>5. ASSUME NEW v \in 1..m PROVE Trades!AttemptValid(g, v)'
  <2>1. v \in Nat \ {0} /\ v \in 1..m + 1 /\ v + 1 \in 1..m + 1 /\ (v > 1 => v - 1 \in 1..m)
    BY <1>2
  <2>2. Trades!AttemptValid(h, v) /\ prices'[h.attempts[v].post] = prices[h.attempts[v].post]
    BY <1>1
  <2>3. /\ g.attempts[v] = h.attempts[v] /\ (v > 1 => g.attempts[v - 1] = h.attempts[v - 1])
        /\ Trades!Before(g, v) = Trades!Before(h, v) /\ Trades!Before(g, v + 1) = Trades!Before(h, v + 1)
        /\ Trades!FillsOf(g, v) = Trades!FillsOf(h, v)
    BY <1>2, <1>3, <2>1
  <2> QED
    BY <1>2, <1>4, <2>1, <2>2, <2>3, AttemptStays
<1>6. Trades!AttemptValid(g, m + 1)'
  <2>1. /\ ~Trades!IsTerminal(h) /\ Trades!Now(h).remaining > 0
        /\ a.pre = Trades!Position(h) /\ Trades!WellFormed(a)
        /\ a.risk # None => Trades!RevalidationHolds(a.risk) /\ Trades!RiskFollows(h, m + 1, a)
        /\ rest >= 0 /\ (rest = 0 => a.reason = "none")
        /\ a.result = "fill" /\ a.post = Len(Stream) /\ rest > 0 => a.reason = "replay_exhausted"
    BY <1>1 DEF RightAfter
  <2>2. Trades!Before(g, m + 1) = Trades!Now(h) /\ (m + 1) + 1 = m + 2
    <3>1. m + 1 \in 1..m + 1
      BY <1>2
    <3> QED
      BY <1>2, <1>3, <3>1
  <2>3. a.pre = IF m + 1 = 1 THEN g.order.market.position ELSE g.attempts[(m + 1) - 1].post
    <3>1. CASE m = 0
      <4>1. h.attempts = <<>>
        <5>1. PICK s : s = h.attempts
          OBVIOUS
        <5>2. s \in Seq(Trades!AttemptRecord) /\ Len(s) = 0
          BY <3>1, <5>1
        <5> QED
          BY <5>1, <5>2
      <4> QED
        BY <1>4, <2>1, <3>1, <4>1 DEF Trades!Position
    <3>2. CASE m # 0
      <4>1. h.attempts # <<>> /\ m \in 1..m /\ (m + 1) - 1 = m /\ m + 1 # 1
        BY <1>1, <1>2, <3>2
      <4>2. a.pre = h.attempts[m].post
        BY <2>1, <4>1 DEF Trades!Position, Trades!Last
      <4> QED
        BY <1>2, <4>1, <4>2
    <3> QED
      BY <3>1, <3>2
  <2>4. m + 1 > 1 => g.attempts[(m + 1) - 1].reason = "none"
    <3>1. SUFFICES ASSUME m + 1 > 1 PROVE g.attempts[m].reason = "none"
      <4>1. (m + 1) - 1 = m
        BY <1>2
      <4> QED
        BY <4>1
    <3>2. m \in 1..m /\ m > 0
      BY <1>2, <3>1
    <3> QED
      BY <1>1, <1>2, <2>1, <3>2 DEF Trades!IsTerminal, Trades!Last
  <2>5. a.risk # None => Trades!RiskFollows(g, m + 1, a)
    BY <1>3, <1>4, <2>1, <2>2 DEF Trades!RiskFollows
  <2>6. a.event # None => a.event = Trades!EventReference(a.post)'
    BY DEF Trades!EventReference
  <2>7. IF a.result = "fill"
        THEN \E n \in 1..Len(g.fills) : /\ Trades!FillsOf(g, m + 1) = {n}
                                        /\ g.fills[n] = Trades!FillOf(a, m + 1)
        ELSE Trades!FillsOf(g, m + 1) = {}
    BY <1>2
  <2> QED
    BY <1>2, <1>3, <2>1, <2>2, <2>3, <2>4, <2>5, <2>6, <2>7 DEF Trades!AttemptValid
<1> QED
  <2>1. \A v \in 1..m + 1 : v \in 1..m \/ v = m + 1
    BY <1>2
  <2> QED
    BY <1>2, <1>5, <1>6, <2>1

-----------------------------------------------------------------------------
(* The sums over the orders and over the account's events *)

\* The four sums of TradesAddUp.
Kind == {"paid", "earned", "bought", "sold"}

\* Whether a kind of sum is about the orders of a side.
About(kind, side) == kind \in {"paid", "bought"} <=> side = "buy"

\* What a fill, or a sum of fills, is worth to a sum.
Worth(kind, gross, charges, quantity) ==
  IF kind = "paid" THEN gross + charges ELSE IF kind = "earned" THEN gross - charges ELSE quantity

\* What the rows of an order count for.
Booked(kind, side, rows) ==
  IF About(kind, side)
  THEN Worth(kind, Trades!Total(rows, "gross"), Trades!Total(rows, "charges"), Trades!Total(rows, "quantity"))
  ELSE 0

\* What one fill counts for.
BookedFill(kind, side, costs) ==
  IF About(kind, side) THEN Worth(kind, costs.gross, costs.charges, costs.quantity) ELSE 0

\* What each order counts for, and their sum.
Books(kind) ==
  [n \in 1..Len(orders) |-> Booked(kind, OrderOf[orders[n].intent].side, fills[orders[n].intent])]

Booking(kind) == Trades!SumOf(Books(kind))

\* What the events that settle no order moved.
Moving ==
  [n \in 1..Len(entries) |-> IF n = 1 \/ entries[n].fill # None THEN 0
                             ELSE entries[n].state.cash - entries[n - 1].state.cash]

\* TradesAddUp in these words.
AddUp ==
  LET now    == entries[Len(entries)].state
      opened == entries[1].state
      cost   == now.positions[Here].cost
      put    == opened.positions[Here].cost + Booking("paid")
  IN /\ now.cash = opened.cash + Trades!SumOf(Moving) + Booking("earned") - Booking("paid")
     /\ now.positions[Here].quantity = opened.positions[Here].quantity + Booking("bought") - Booking("sold")
     /\ cost <= put /\ (now.positions[Here].quantity = 0 => cost = 0)
     /\ (\A n \in 1..Len(orders) : OrderOf[orders[n].intent].side = "buy") => cost = put

LEMMA AddUpIs == Trades!TradesAddUp <=> AddUp
<1> DEFINE Buys(n) == OrderOf[orders[n].intent].side = "buy"
           Rows(n) == fills[orders[n].intent]
           earned == [n \in 1..Len(orders) |-> IF Buys(n) THEN 0 ELSE Trades!EarnedBy(Rows(n))]
           paid   == [n \in 1..Len(orders) |-> IF Buys(n) THEN Trades!PaidBy(Rows(n)) ELSE 0]
           sold   == [n \in 1..Len(orders) |-> IF Buys(n) THEN 0 ELSE Trades!FilledOf(Rows(n))]
           bought == [n \in 1..Len(orders) |-> IF Buys(n) THEN Trades!FilledOf(Rows(n)) ELSE 0]
<1>1. Books("earned") = earned
  BY DEF Books, Booked, About, Worth, Trades!EarnedBy
<1>2. Books("paid") = paid
  BY DEF Books, Booked, About, Worth, Trades!PaidBy
<1>3. Books("sold") = sold
  BY DEF Books, Booked, About, Worth, Trades!FilledOf
<1>4. Books("bought") = bought
  BY DEF Books, Booked, About, Worth, Trades!FilledOf
<1>5. Trades!TradesAddUp <=>
        LET now    == entries[Len(entries)].state
            opened == entries[1].state
            cost   == now.positions[Here].cost
            put    == opened.positions[Here].cost + Trades!SumOf(paid)
        IN /\ now.cash = opened.cash + Trades!SumOf(Moving) + Trades!SumOf(earned) - Trades!SumOf(paid)
           /\ Trades!Held(now) = Trades!Held(opened) + Trades!SumOf(bought) - Trades!SumOf(sold)
           /\ cost <= put /\ (Trades!Held(now) = 0 => cost = 0)
           /\ (\A n \in 1..Len(orders) : Buys(n)) => cost = put
  BY Zenon DEF Trades!TradesAddUp, Moving, Here
<1> HIDE DEF earned, paid, sold, bought
<1> QED
  BY <1>1, <1>2, <1>3, <1>4, <1>5, Zenon DEF AddUp, Booking, Trades!Held, Here

LEMMA BookedType ==
  ASSUME NEW kind \in Kind, NEW side, NEW rows \in Seq(Trades!FillRecord)
  PROVE  Booked(kind, side, rows) \in Int
<1>1. "gross" \in Sums /\ "charges" \in Sums /\ "quantity" \in Sums
  BY DEF Sums
<1>2. /\ Trades!Total(rows, "gross") \in Nat /\ Trades!Total(rows, "charges") \in Nat
      /\ Trades!Total(rows, "quantity") \in Nat
  BY <1>1, RowSums
<1> QED
  BY <1>2 DEF Booked, Worth

LEMMA BookedNone ==
  ASSUME NEW kind \in Kind, NEW side PROVE Booked(kind, side, <<>>) = 0
<1>1. "gross" \in Sums /\ "charges" \in Sums /\ "quantity" \in Sums
  BY DEF Sums
<1>2. /\ Trades!Total(<<>>, "gross") = 0 /\ Trades!Total(<<>>, "charges") = 0
      /\ Trades!Total(<<>>, "quantity") = 0
  BY <1>1, NoRows
<1> QED
  BY <1>2 DEF Booked, Worth

LEMMA BookedMore ==
  ASSUME NEW kind \in Kind, NEW side, NEW rows \in Seq(Trades!FillRecord), NEW f \in Trades!FillRecord
  PROVE  /\ BookedFill(kind, side, f.costs) \in Int
         /\ Booked(kind, side, Append(rows, f)) = Booked(kind, side, rows) + BookedFill(kind, side, f.costs)
<1>1. "gross" \in Sums /\ "charges" \in Sums /\ "quantity" \in Sums
  BY DEF Sums
<1>2. PICK more, c : more = Append(rows, f) /\ c = f.costs
  OBVIOUS
<1>3. /\ Trades!Total(rows, "gross") \in Nat /\ Trades!Total(rows, "charges") \in Nat
      /\ Trades!Total(rows, "quantity") \in Nat
  BY <1>1, RowSums
<1>4. /\ Trades!Total(more, "gross") = Trades!Total(rows, "gross") + c.gross
      /\ Trades!Total(more, "charges") = Trades!Total(rows, "charges") + c.charges
      /\ Trades!Total(more, "quantity") = Trades!Total(rows, "quantity") + c.quantity
  BY <1>1, <1>2, RowMore
<1>5. c.gross \in Nat /\ c.charges \in Nat /\ c.quantity \in Nat
  BY <1>2 DEF Trades!FillRecord, Trades!CostRecord
<1>6. BookedFill(kind, side, c) \in Int
  BY <1>5 DEF BookedFill, Worth
<1>7. Booked(kind, side, more) = Booked(kind, side, rows) + BookedFill(kind, side, c)
  <2>1. PICK g, h, q, x, y, z :
          /\ g = Trades!Total(rows, "gross") /\ h = Trades!Total(rows, "charges")
          /\ q = Trades!Total(rows, "quantity")
          /\ x = c.gross /\ y = c.charges /\ z = c.quantity
    OBVIOUS
  <2>2. g \in Nat /\ h \in Nat /\ q \in Nat /\ x \in Nat /\ y \in Nat /\ z \in Nat
    BY ONLY <1>3, <1>5, <2>1
  <2>3. /\ Trades!Total(more, "gross") = g + x /\ Trades!Total(more, "charges") = h + y
        /\ Trades!Total(more, "quantity") = q + z
    BY ONLY <1>4, <2>1
  <2>4. Worth(kind, g + x, h + y, q + z) = Worth(kind, g, h, q) + Worth(kind, x, y, z)
    BY ONLY <2>2 DEF Worth
  <2>5. CASE About(kind, side)
    <3>1. Booked(kind, side, more) = Worth(kind, g + x, h + y, q + z)
      BY ONLY <2>3, <2>5, Zenon DEF Booked
    <3>2. Booked(kind, side, rows) = Worth(kind, g, h, q)
      BY ONLY <2>1, <2>5, Zenon DEF Booked
    <3>3. BookedFill(kind, side, c) = Worth(kind, x, y, z)
      BY ONLY <2>1, <2>5, Zenon DEF BookedFill
    <3> QED
      BY ONLY <2>4, <3>1, <3>2, <3>3
  <2>6. CASE ~About(kind, side)
    BY ONLY <2>6 DEF Booked, BookedFill
  <2> QED
    BY ONLY <2>5, <2>6
<1> QED
  BY <1>2, <1>6, <1>7

LEMMA BooksType ==
  ASSUME TradeTypes, NEW kind \in Kind
  PROVE  Len(orders) \in Nat /\ Books(kind) \in [1..Len(orders) -> Int] /\ Booking(kind) \in Int
<1>1. Len(orders) \in Nat
  BY DEF TradeTypes
<1>2. ASSUME NEW n \in 1..Len(orders) PROVE fills[orders[n].intent] \in Seq(Trades!FillRecord)
  <2>1. orders[n].intent \in Intent
    <3>1. orders[n] \in OrderRecord
      BY DEF TradeTypes
    <3> QED
      BY <3>1 DEF OrderRecord
  <2> QED
    BY <2>1 DEF TradeTypes
<1>3. Books(kind) \in [1..Len(orders) -> Int]
  BY <1>2, BookedType DEF Books
<1>4. Books(kind) \in Seq(Int)
  BY <1>1, <1>3
<1> QED
  BY <1>1, <1>3, <1>4, SumType DEF Booking

LEMMA MovingType ==
  ASSUME TradeTypes
  PROVE  Len(entries) \in Nat /\ Moving \in [1..Len(entries) -> Int] /\ Trades!SumOf(Moving) \in Int
<1>1. Len(entries) \in Nat
  BY DEF TradeTypes
<1>2. \A n \in 1..Len(entries) : entries[n].state.cash \in Int
  <2>1. \A n \in 1..Len(entries) : entries[n] \in EntryRecord
    BY DEF TradeTypes
  <2>2. \A e \in EntryRecord : e.state.cash \in Int
    BY DEF EntryRecord, TradeState
  <2> QED
    BY <2>1, <2>2
<1>3. ASSUME NEW n \in 1..Len(entries), n # 1
      PROVE  entries[n].state.cash - entries[n - 1].state.cash \in Int
  <2>1. n - 1 \in 1..Len(entries)
    BY <1>1, <1>3
  <2> QED
    BY <1>2, <2>1
<1>4. Moving \in [1..Len(entries) -> Int]
  BY <1>3 DEF Moving
<1>5. Moving \in Seq(Int)
  BY <1>1, <1>4
<1> QED
  BY <1>1, <1>4, <1>5, SumType

LEMMA SumChange ==
  ASSUME NEW m \in Nat, NEW w \in [1..m -> Int], NEW x \in [1..m -> Int], NEW k \in 1..m, NEW d \in Int,
         x[k] = w[k] + d, \A n \in 1..m : n # k => x[n] = w[n]
  PROVE  Trades!SumOf(x) = Trades!SumOf(w) + d
<1>1. w \in Seq(Int) /\ x \in Seq(Int) /\ Len(w) = m /\ Len(x) = m
  OBVIOUS
<1>2. Len(x) = Len(w) /\ k \in 1..Len(w) /\ x[k] = w[k] + d
  BY <1>1
<1>3. \A n \in 1..Len(w) : n # k => x[n] = w[n]
  BY <1>1
<1> QED
  BY ONLY <1>1, <1>2, <1>3, d \in Int, SumBump

LEMMA NewOrderBooks ==
  ASSUME TradeTypes, NEW r \in OrderRecord, orders' = Append(orders, r), fills' = fills,
         fills[r.intent] = <<>>, NEW kind \in Kind
  PROVE  Booking(kind)' = Booking(kind)
<1>1. PICK m, w, y : m = Len(orders) /\ w = Books(kind) /\ y = Books(kind)'
  OBVIOUS
<1>2. m \in Nat /\ w \in [1..m -> Int] /\ Booking(kind) \in Int
  BY <1>1, BooksType
<1>3. Len(orders') = m + 1 /\ orders'[m + 1] = r /\ \A n \in 1..m : orders'[n] = orders[n]
  BY <1>1 DEF TradeTypes
<1>4. y = [n \in 1..m + 1 |-> Booked(kind, OrderOf[orders'[n].intent].side, fills[orders'[n].intent])]
  BY <1>1, <1>3 DEF Books
<1>5. w = [n \in 1..m |-> Booked(kind, OrderOf[orders[n].intent].side, fills[orders[n].intent])]
  BY <1>1 DEF Books
<1>6. y[m + 1] = 0
  <2>1. m + 1 \in 1..m + 1
    BY <1>2
  <2> QED
    BY <1>3, <1>4, <2>1, BookedNone
<1>7. \A n \in 1..m : y[n] = w[n]
  <2>1. \A n \in 1..m : n \in 1..m + 1
    BY <1>2
  <2> QED
    BY <1>3, <1>4, <1>5, <2>1
<1>8. y \in [1..m + 1 -> Int]
  <2>1. ASSUME NEW n \in 1..m + 1 PROVE y[n] \in Int
    <3>1. n \in 1..m \/ n = m + 1
      BY <1>2
    <3> QED
      BY <1>2, <1>6, <1>7, <3>1
  <2> QED
    BY <1>4, <2>1
<1>9. Trades!SumOf(y) = Trades!SumOf(w) + y[m + 1]
  BY <1>2, <1>7, <1>8, SumMore
<1>10. Booking(kind) = Trades!SumOf(w) /\ Booking(kind)' = Trades!SumOf(y)
  BY <1>1 DEF Booking
<1> QED
  BY <1>2, <1>6, <1>9, <1>10

LEMMA FillBooks ==
  ASSUME TradeTypes, OneOrderEach, orders' = orders, NEW i \in Trades!Placed,
         NEW f \in Trades!FillRecord, fills' = [fills EXCEPT ![i] = Append(@, f)], NEW kind \in Kind
  PROVE  /\ BookedFill(kind, OrderOf[i].side, f.costs) \in Int
         /\ Booking(kind)' = Booking(kind) + BookedFill(kind, OrderOf[i].side, f.costs)
<1>1. PICK m, w, y : m = Len(orders) /\ w = Books(kind) /\ y = Books(kind)'
  OBVIOUS
<1>2. m \in Nat /\ w \in [1..m -> Int]
  BY <1>1, BooksType
<1>3. PICK k \in 1..m : orders[k].intent = i
  BY <1>1 DEF Trades!Placed
<1>4. \A n \in 1..m : orders[n].intent \in Intent
  <2>1. \A n \in 1..m : orders[n] \in OrderRecord
    BY <1>1 DEF TradeTypes
  <2>2. \A r \in OrderRecord : r.intent \in Intent
    BY DEF OrderRecord
  <2> QED
    BY <2>1, <2>2
<1>5. PICK d : d = BookedFill(kind, OrderOf[i].side, f.costs)
  OBVIOUS
<1>6. fills[i] \in Seq(Trades!FillRecord) /\ DOMAIN fills = Intent /\ i \in Intent
  BY <1>3, <1>4 DEF TradeTypes
<1>7. fills'[i] = Append(fills[i], f) /\ \A j \in Intent : j # i => fills'[j] = fills[j]
  BY <1>6
<1>8. d \in Int /\ Booked(kind, OrderOf[i].side, fills'[i]) = Booked(kind, OrderOf[i].side, fills[i]) + d
  BY <1>5, <1>6, <1>7, BookedMore
<1>9. /\ y = [n \in 1..m |-> Booked(kind, OrderOf[orders[n].intent].side, fills'[orders[n].intent])]
      /\ w = [n \in 1..m |-> Booked(kind, OrderOf[orders[n].intent].side, fills[orders[n].intent])]
  BY <1>1 DEF Books
<1>10. y[k] = w[k] + d
  BY <1>3, <1>8, <1>9
<1>11. \A n \in 1..m : n # k => y[n] = w[n]
  <2>1. \A n \in 1..m : n # k => orders[n].intent # i
    BY <1>1, <1>3 DEF OneOrderEach
  <2> QED
    BY <1>4, <1>7, <1>9, <2>1
<1>12. y \in [1..m -> Int]
  <2>1. ASSUME NEW n \in 1..m PROVE y[n] \in Int
    BY <1>2, <1>8, <1>10, <1>11
  <2> QED
    BY <1>9, <2>1
<1>13. Trades!SumOf(y) = Trades!SumOf(w) + d
  BY <1>2, <1>8, <1>10, <1>11, <1>12, SumChange
<1>14. Booking(kind) = Trades!SumOf(w) /\ Booking(kind)' = Trades!SumOf(y)
  BY <1>1 DEF Booking
<1> QED
  BY <1>5, <1>8, <1>13, <1>14

LEMMA MovingMore ==
  ASSUME TradeTypes, NEW e \in EntryRecord, entries' = Append(entries, e)
  PROVE  Trades!SumOf(Moving)' =
           Trades!SumOf(Moving) + (IF e.fill # None THEN 0 ELSE e.state.cash - entries[Len(entries)].state.cash)
<1>1. PICK m, w, y : m = Len(entries) /\ w = Moving /\ y = Moving'
  OBVIOUS
<1>2. m \in Nat \ {0} /\ w \in [1..m -> Int]
  BY <1>1, MovingType DEF TradeTypes
<1>3. Len(entries') = m + 1 /\ entries'[m + 1] = e /\ \A n \in 1..m : entries'[n] = entries[n]
  BY <1>1 DEF TradeTypes
<1>4. y = [n \in 1..m + 1 |-> IF n = 1 \/ entries'[n].fill # None THEN 0
                              ELSE entries'[n].state.cash - entries'[n - 1].state.cash]
  BY <1>1, <1>3 DEF Moving
<1>5. w = [n \in 1..m |-> IF n = 1 \/ entries[n].fill # None THEN 0
                          ELSE entries[n].state.cash - entries[n - 1].state.cash]
  BY <1>1 DEF Moving
<1>6. \A n \in 1..m : y[n] = w[n]
  <2>1. ASSUME NEW n \in 1..m PROVE y[n] = w[n]
    <3>1. n \in 1..m + 1 /\ (n # 1 => n - 1 \in 1..m)
      BY <1>2
    <3> QED
      BY <1>3, <1>4, <1>5, <3>1
  <2> QED
    BY <2>1
<1>7. y[m + 1] = IF e.fill # None THEN 0 ELSE e.state.cash - entries[m].state.cash
  <2>1. m + 1 \in 1..m + 1 /\ m + 1 # 1 /\ (m + 1) - 1 = m /\ m \in 1..m
    BY <1>2
  <2> QED
    BY <1>3, <1>4, <2>1
<1>8. y[m + 1] \in Int
  <2>1. entries[m] \in EntryRecord
    BY <1>1, <1>2 DEF TradeTypes
  <2>2. e.state.cash \in Int /\ entries[m].state.cash \in Int
    BY <2>1 DEF EntryRecord, TradeState
  <2> QED
    BY <1>7, <2>2
<1>9. y \in [1..m + 1 -> Int]
  <2>1. ASSUME NEW n \in 1..m + 1 PROVE y[n] \in Int
    <3>1. n \in 1..m \/ n = m + 1
      BY <1>2
    <3> QED
      BY <1>2, <1>6, <1>8, <3>1
  <2> QED
    BY <1>4, <2>1
<1>10. Trades!SumOf(y) = Trades!SumOf(w) + y[m + 1]
  BY <1>2, <1>6, <1>9, SumMore
<1>11. Trades!SumOf(Moving) = Trades!SumOf(w) /\ Trades!SumOf(Moving)' = Trades!SumOf(y)
  BY <1>1 DEF Trades!SumOf, Trades!Running
<1> QED
  BY <1>1, <1>7, <1>10, <1>11

LEMMA BookingTypes ==
  ASSUME TradeTypes
  PROVE  /\ Booking("paid") \in Int /\ Booking("earned") \in Int
         /\ Booking("bought") \in Int /\ Booking("sold") \in Int /\ Trades!SumOf(Moving) \in Int
<1>1. "paid" \in Kind /\ "earned" \in Kind /\ "bought" \in Kind /\ "sold" \in Kind
  BY DEF Kind
<1> QED
  BY <1>1, BooksType, MovingType

LEMMA AddUpOrder ==
  ASSUME TradeTypes, AddUp, NEW r \in OrderRecord, orders' = Append(orders, r), fills' = fills,
         fills[r.intent] = <<>>, entries' = entries
  PROVE  AddUp'
<1>1. "paid" \in Kind /\ "earned" \in Kind /\ "bought" \in Kind /\ "sold" \in Kind
  BY DEF Kind
<1>2. /\ Booking("paid")' = Booking("paid") /\ Booking("earned")' = Booking("earned")
      /\ Booking("bought")' = Booking("bought") /\ Booking("sold")' = Booking("sold")
  BY <1>1, NewOrderBooks
<1>3. Trades!SumOf(Moving)' = Trades!SumOf(Moving)
  BY DEF Moving, Trades!SumOf, Trades!Running
<1>4. (\A n \in 1..Len(orders') : OrderOf[orders'[n].intent].side = "buy") =>
        \A n \in 1..Len(orders) : OrderOf[orders[n].intent].side = "buy"
  <2>1. /\ Len(orders) \in Nat /\ Len(orders') = Len(orders) + 1
        /\ \A n \in 1..Len(orders) : orders'[n] = orders[n]
    BY DEF TradeTypes
  <2>2. \A n \in 1..Len(orders) : n \in 1..Len(orders')
    BY <2>1
  <2> QED
    BY <2>1, <2>2
<1> QED
  BY <1>2, <1>3, <1>4 DEF AddUp

LEMMA AddUpMoves ==
  ASSUME TradeTypes, AddUp, orders' = orders, fills' = fills, NEW t \in TradeState,
         entries' = Append(entries, Trades!Entry(None, t)),
         t.positions = entries[Len(entries)].state.positions
  PROVE  AddUp'
<1>1. /\ Booking("paid")' = Booking("paid") /\ Booking("earned")' = Booking("earned")
      /\ Booking("bought")' = Booking("bought") /\ Booking("sold")' = Booking("sold")
  BY DEF Booking, Books, Trades!SumOf, Trades!Running
<1>2. PICK e, s : e = Trades!Entry(None, t) /\ s = entries[Len(entries)].state
  OBVIOUS
<1>3. e.fill = None /\ e.state = t /\ e \in EntryRecord
  BY <1>2 DEF Trades!Entry, EntryRecord
<1>4. Trades!SumOf(Moving)' = Trades!SumOf(Moving) + (t.cash - s.cash)
  BY <1>2, <1>3, MovingMore
<1>5. /\ Len(entries) \in Nat \ {0} /\ Len(entries') = Len(entries) + 1
      /\ entries'[Len(entries) + 1] = e /\ entries'[1] = entries[1]
  BY <1>2 DEF TradeTypes
<1>6. entries'[Len(entries')].state = t
  BY <1>3, <1>5
<1>7. /\ s.cash \in Int /\ t.cash \in Int /\ entries[1].state.cash \in Int
      /\ Booking("paid") \in Int /\ Booking("earned") \in Int /\ Trades!SumOf(Moving) \in Int
  <2>1. s \in TradeState /\ entries[1].state \in TradeState
    <3>1. entries[Len(entries)] \in EntryRecord /\ entries[1] \in EntryRecord
      BY <1>5 DEF TradeTypes
    <3> QED
      BY <1>2, <3>1 DEF EntryRecord
  <2>2. \A u \in TradeState : u.cash \in Int
    BY DEF TradeState
  <2> QED
    BY <2>1, <2>2, BookingTypes
<1>8. s.cash = entries[1].state.cash + Trades!SumOf(Moving) + Booking("earned") - Booking("paid")
  BY <1>2 DEF AddUp
<1>9. t.cash = entries[1].state.cash + (Trades!SumOf(Moving) + (t.cash - s.cash)) + Booking("earned") - Booking("paid")
  <2>2. PICK x, y, z, moved, earned, paid :
          /\ x = s.cash /\ y = t.cash /\ z = entries[1].state.cash /\ moved = Trades!SumOf(Moving)
          /\ earned = Booking("earned") /\ paid = Booking("paid")
    OBVIOUS
  <2>3. /\ x \in Int /\ y \in Int /\ z \in Int /\ moved \in Int /\ earned \in Int /\ paid \in Int
        /\ x = z + moved + earned - paid
    BY <1>7, <1>8, <2>2
  <2>4. y = z + (moved + (y - x)) + earned - paid
    BY ONLY <2>3
  <2> QED
    BY <2>2, <2>4
<1> QED
  BY <1>1, <1>2, <1>4, <1>5, <1>6, <1>9 DEF AddUp

LEMMA AddUpFills ==
  ASSUME TradeTypes, OneOrderEach, AddUp, orders' = orders, NEW i \in Trades!Placed,
         NEW f \in Trades!FillRecord, fills' = [fills EXCEPT ![i] = Append(@, f)],
         f.costs.quantity > 0, OrderOf[i].side \in Trades!Side,
         NEW s, s = entries[Len(entries)].state, NEW t \in TradeState,
         entries' = Append(entries, Trades!Entry(f, t)), Leaves(s, OrderOf[i], f.costs, t),
         OrderOf[i].side # "buy" => f.costs.quantity <= s.positions[Here].quantity,
         None \notin Trades!FillRecord
  PROVE  AddUp'
<1>1. "paid" \in Kind /\ "earned" \in Kind /\ "bought" \in Kind /\ "sold" \in Kind
  BY DEF Kind
<1>2. PICK e, c, side : e = Trades!Entry(f, t) /\ c = f.costs /\ side = OrderOf[i].side
  OBVIOUS
<1>3. e.fill = f /\ e.fill # None /\ e.state = t /\ e \in EntryRecord
  BY <1>2 DEF Trades!Entry, EntryRecord
<1>4. Trades!SumOf(Moving)' = Trades!SumOf(Moving) + 0
  BY <1>2, <1>3, MovingMore
<1>5. /\ Len(entries) \in Nat \ {0} /\ Len(entries') = Len(entries) + 1
      /\ entries'[Len(entries) + 1] = e /\ entries'[1] = entries[1]
  BY <1>2 DEF TradeTypes
<1>6. entries'[Len(entries')].state = t
  BY <1>3, <1>5
<1>7. /\ Booking("paid")' = Booking("paid") + BookedFill("paid", side, c)
      /\ Booking("earned")' = Booking("earned") + BookedFill("earned", side, c)
      /\ Booking("bought")' = Booking("bought") + BookedFill("bought", side, c)
      /\ Booking("sold")' = Booking("sold") + BookedFill("sold", side, c)
  BY <1>1, <1>2, FillBooks
<1>8. PICK p, r, z : p = s.positions[Here] /\ r = t.positions[Here] /\ z = entries[1].state
  OBVIOUS
<1>9. /\ s.cash \in Nat /\ p.quantity \in Nat /\ p.cost \in Nat
      /\ t.cash \in Nat /\ r.quantity \in Nat /\ r.cost \in Nat /\ (r.quantity = 0 => r.cost = 0)
      /\ z.cash \in Nat /\ z.positions[Here].quantity \in Nat /\ z.positions[Here].cost \in Nat
  <2>1. s \in TradeState /\ z \in TradeState
    <3>1. entries[Len(entries)] \in EntryRecord /\ entries[1] \in EntryRecord
      BY <1>5 DEF TradeTypes
    <3> QED
      BY <1>8, <3>1 DEF EntryRecord
  <2> QED
    BY <1>8, <2>1 DEF TradeState
<1>10. c.gross \in Nat /\ c.charges \in Nat /\ c.quantity \in Nat
  BY <1>2 DEF Trades!FillRecord, Trades!CostRecord
<1>11. PICK paid, earned, bought, sold, moved :
         /\ paid = Booking("paid") /\ earned = Booking("earned") /\ bought = Booking("bought")
         /\ sold = Booking("sold") /\ moved = Trades!SumOf(Moving)
  OBVIOUS
<1>12. PICK zc, zq, zk, sc, pq, pc, tc, rq, rc, q, g, h :
         /\ zc = z.cash /\ zq = z.positions[Here].quantity /\ zk = z.positions[Here].cost
         /\ sc = s.cash /\ pq = p.quantity /\ pc = p.cost
         /\ tc = t.cash /\ rq = r.quantity /\ rc = r.cost
         /\ q = c.quantity /\ g = c.gross + c.charges /\ h = c.gross - c.charges
  OBVIOUS
<1>13. /\ zc \in Int /\ zq \in Int /\ zk \in Int /\ sc \in Int /\ pq \in Int /\ pc \in Int
       /\ q \in Int /\ g \in Int /\ h \in Int
       /\ paid \in Int /\ earned \in Int /\ bought \in Int /\ sold \in Int /\ moved \in Int
  <2>1. paid \in Int /\ earned \in Int /\ bought \in Int /\ sold \in Int /\ moved \in Int
    BY <1>11, BookingTypes
  <2>2. /\ zc \in Nat /\ zq \in Nat /\ zk \in Nat /\ sc \in Nat /\ pq \in Nat /\ pc \in Nat
    BY <1>9, <1>12
  <2>3. q \in Nat /\ g \in Int /\ h \in Int
    BY <1>10, <1>12
  <2> QED
    BY <2>1, <2>2, <2>3
<1>14. sc = zc + moved + earned - paid /\ pq = zq + bought - sold /\ pc <= zk + paid
  BY <1>8, <1>11, <1>12 DEF AddUp
<1> DEFINE AllBuy == \A n \in 1..Len(orders) : OrderOf[orders[n].intent].side = "buy"
<1>16. AllBuy => pc = zk + paid
  BY <1>8, <1>11, <1>12 DEF AddUp
<1>17. Trades!SumOf(Moving)' = moved
  BY <1>4, <1>11, <1>13
<1>18. ASSUME NEW paid1, NEW earned1, NEW bought1, NEW sold1,
              paid1 = Booking("paid")', earned1 = Booking("earned")',
              bought1 = Booking("bought")', sold1 = Booking("sold")',
              tc = zc + moved + earned1 - paid1, rq = zq + bought1 - sold1, rc <= zk + paid1,
              AllBuy => rc = zk + paid1
       PROVE  AddUp'
  BY <1>5, <1>6, <1>8, <1>9, <1>12, <1>17, <1>18, Zenon DEF AddUp
<1>19. CASE side = "buy"
  <2>1. /\ BookedFill("paid", side, c) = g /\ BookedFill("earned", side, c) = 0
        /\ BookedFill("bought", side, c) = q /\ BookedFill("sold", side, c) = 0
    BY <1>12, <1>19 DEF BookedFill, About, Worth
  <2>2. tc = sc - g /\ rq = pq + q /\ rc = pc + g
    BY <1>2, <1>8, <1>12, <1>19 DEF Leaves
  <2>3. /\ Booking("paid")' = paid + g /\ Booking("earned")' = earned
        /\ Booking("bought")' = bought + q /\ Booking("sold")' = sold
    BY <1>7, <1>11, <1>13, <2>1
  <2>4. tc = zc + moved + earned - (paid + g) /\ rq = zq + (bought + q) - sold
    BY ONLY <1>13, <1>14, <2>2
  <2>5. rc <= zk + (paid + g) /\ (pc = zk + paid => rc = zk + (paid + g))
    BY ONLY <1>13, <1>14, <2>2
  <2>6. AllBuy => rc = zk + (paid + g)
    BY ONLY <1>16, <2>5
  <2> HIDE DEF AllBuy
  <2> QED
    BY <1>18, <2>3, <2>4, <2>5, <2>6
<1>20. CASE side # "buy"
  <2>1. /\ BookedFill("paid", side, c) = 0 /\ BookedFill("earned", side, c) = h
        /\ BookedFill("bought", side, c) = 0 /\ BookedFill("sold", side, c) = q
    BY <1>12, <1>20 DEF BookedFill, About, Worth
  <2>2. PICK k : k = RemovedCost(p, c.quantity)
    OBVIOUS
  <2>3. tc = sc + h /\ rq = pq - q /\ rc = pc - k
    BY <1>2, <1>8, <1>12, <1>20, <2>2 DEF Leaves
  <2>4. k \in Nat
    <3>1. c.quantity \in Nat \ {0} /\ c.quantity <= p.quantity
      BY <1>2, <1>8, <1>10, <1>20
    <3>2. RemovedCost(p, c.quantity) \in 0..p.cost
      BY <1>9, <3>1, RemovedWithin
    <3> QED
      BY <1>9, <2>2, <3>2
  <2>5. /\ Booking("paid")' = paid /\ Booking("earned")' = earned + h
        /\ Booking("bought")' = bought /\ Booking("sold")' = sold + q
    BY <1>7, <1>11, <1>13, <2>1
  <2>6. tc = zc + moved + (earned + h) - paid /\ rq = zq + bought - (sold + q) /\ rc <= zk + paid
    BY ONLY <1>13, <1>14, <2>3, <2>4
  <2>7. ~AllBuy
    BY <1>2, <1>20 DEF Trades!Placed
  <2> HIDE DEF AllBuy
  <2> QED
    BY <1>18, <2>5, <2>6, <2>7
<1> QED
  BY <1>19, <1>20

-----------------------------------------------------------------------------
(* The steps: what they leave of the orders that they do not touch *)

LEMMA LoadsAgain ==
  ASSUME Trades!EvidenceAssumption, TradeInv, BothGrow, NEW i \in Trades!Placed,
         decisions'[i] = decisions[i], Trades!History(i)' = Trades!History(i)
  PROVE  Trades!Loads(Trades!History(i))'
<1>1. PICK h : h = Trades!History(i)
  OBVIOUS
<1>2. Trades!Loads(h)
  BY <1>1 DEF TradeInv, Trades!HistoriesLoad
<1>3. Trades!Loads(h)'
  BY <1>1, <1>2, LoadsStays DEF TradeInv
<1> QED
  BY <1>1, <1>3

LEMMA RowsStay ==
  ASSUME orders' = orders, NEW i, attempts'[i] = attempts[i], fills'[i] = fills[i], links'[i] = links[i]
  PROVE  Trades!History(i)' = Trades!History(i)
BY DEF Trades!History, Trades!OrderRow

\* A decision already made stays.
LEMMA DecidedStay ==
  ASSUME Trades!EvidenceAssumption, TradeInv, NEW i \in Trades!Placed
  PROVE  decisions[i] # None
<1>1. Trades!Loads(Trades!History(i)) /\ Trades!History(i).order.intent = i
  BY HistoryIs DEF TradeInv, Trades!HistoriesLoad
<1>2. Trades!CreatedAgain(Trades!History(i).order)
  BY <1>1 DEF Trades!Loads
<1> QED
  BY <1>1, <1>2 DEF Trades!CreatedAgain, Trades!CanHandOff, Trades!MatchingAllow

LEMMA Growing ==
  ASSUME TradeTypes, prices' = prices \/ \E p : prices' = Append(prices, p),
         entries' = entries \/ \E e : entries' = Append(entries, e)
  PROVE  BothGrow
<1>1. Len(prices) \in Nat /\ Len(entries) \in Nat
  BY DEF TradeTypes
<1>2. ASSUME NEW S, NEW s \in Seq(S), NEW t, t = s \/ \E e : t = Append(s, e)
      PROVE  /\ Len(t) \in Nat /\ Len(s) <= Len(t) /\ \A n \in 1..Len(s) : t[n] = s[n]
  <2>1. CASE t = s
    BY <2>1
  <2>2. CASE \E e : t = Append(s, e)
    <3>1. PICK e : t = Append(s, e)
      BY <2>2
    <3>2. PICK U : U = S \union {e}
      OBVIOUS
    <3>3. s \in Seq(U) /\ e \in U
      BY <3>2
    <3> QED
      BY <3>1, <3>3
  <2> QED
    BY <1>2, <2>1, <2>2
<1>3. prices \in Seq(Nat \union {None}) /\ entries \in Seq(EntryRecord)
  BY DEF TradeTypes
<1>4. Len(prices') \in Nat /\ Len(prices) <= Len(prices') /\ \A n \in 1..Len(prices) : prices'[n] = prices[n]
  BY <1>2, <1>3
<1>5. Len(entries') \in Nat /\ Len(entries) <= Len(entries') /\ \A n \in 1..Len(entries) : entries'[n] = entries[n]
  BY <1>2, <1>3
<1> QED
  BY <1>4, <1>5 DEF BothGrow

\* It holds of an account that has just been opened.
LEMMA TradeStart == ASSUME Trades!EvidenceAssumption, Trades!Init PROVE TradeInv
<1>1. orders = <<>> /\ decisions = [i \in Intent |-> None]
      /\ attempts = [i \in Intent |-> <<>>] /\ fills = attempts /\ links = attempts
  BY DEF Trades!Init
<1>2. PICK p \in Price : prices = <<p>>
  BY DEF Trades!Init
<1>3. PICK o \in Opening :
        entries = <<Trades!Entry(None, [Trades!M31!Genesis EXCEPT
                      !.status = "active", !.cash = o.cash,
                      !.positions[Trades!Instrument] = [quantity |-> o.quantity, cost |-> o.cost]])>>
  BY DEF Trades!Init
<1>4. p \in Nat /\ o.cash \in Nat /\ o.quantity \in Nat /\ o.cost \in Nat /\ (o.quantity = 0 => o.cost = 0)
  <2>1. p \in Nat
    BY DEF Trades!EvidenceAssumption
  <2>2. \A x \in Opening : /\ x.cash \in Nat /\ x.quantity \in Nat /\ x.cost \in Nat
                           /\ (x.quantity = 0 => x.cost = 0)
    BY Zenon DEF Trades!EvidenceAssumption
  <2> QED
    BY <2>1, <2>2
<1>5. PICK s : s = [Trades!M31!Genesis EXCEPT !.status = "active", !.cash = o.cash,
                      !.positions[Trades!Instrument] = [quantity |-> o.quantity, cost |-> o.cost]]
  OBVIOUS
<1>6. s \in TradeState
  <2>1. Trades!M31!Genesis = [status |-> "none", cash |-> 0,
                              positions |-> [x \in {Here} |-> Trades!M31!Flat], links |-> {}]
    BY DEF Trades!M31!Genesis, Here
  <2>2. /\ s.status = "active" /\ s.cash = o.cash /\ s.links = {}
        /\ s.positions = [x \in {Here} |-> [quantity |-> o.quantity, cost |-> o.cost]]
        /\ s = [status |-> s.status, cash |-> s.cash, positions |-> s.positions, links |-> s.links]
    BY <1>5, <2>1 DEF Here
  <2>3. s.positions \in [{Here} -> [quantity : Nat, cost : Nat]]
    BY <1>4, <2>2
  <2>4. s.positions[Here].quantity = 0 => s.positions[Here].cost = 0
    BY <1>4, <2>2
  <2> QED
    BY <1>4, <2>2, <2>3, <2>4 DEF TradeState
<1>7. PICK e : e = Trades!Entry(None, s)
  OBVIOUS
<1>8. e \in EntryRecord /\ e.fill = None /\ e.state = s /\ entries = <<e>>
  BY <1>3, <1>5, <1>6, <1>7 DEF Trades!Entry, EntryRecord
<1>9. TradeTypes
  <2>1. decisions \in [Intent -> Trades!DecisionRecord \union {None}]
    BY <1>1
  <2>2. /\ attempts \in [Intent -> Seq(Trades!AttemptRecord)] /\ fills \in [Intent -> Seq(Trades!FillRecord)]
        /\ links \in [Intent -> Seq(LinkRecord)] /\ orders \in Seq(OrderRecord)
    BY <1>1
  <2>3. prices \in Seq(Nat \union {None}) /\ prices # <<>>
    BY <1>2, <1>4
  <2>4. entries \in Seq(EntryRecord) /\ entries # <<>>
    BY <1>8
  <2> QED
    BY <2>1, <2>2, <2>3, <2>4 DEF TradeTypes
<1>10. Len(orders) = 0 /\ Trades!Placed = {}
  BY <1>1 DEF Trades!Placed
<1>11. OneOrderEach /\ RowsOfOrders /\ EventsAreThere /\ Trades!HistoriesLoad /\ Trades!StaysWithinLimits
  BY <1>1, <1>10 DEF OneOrderEach, RowsOfOrders, EventsAreThere, Trades!HistoriesLoad, Trades!StaysWithinLimits
<1>12. AddUp
  <2>1. ASSUME NEW kind \in Kind PROVE Booking(kind) = 0
    <3>1. Books(kind) = <<>>
      BY <1>10 DEF Books
    <3> QED
      BY <3>1, SumNone DEF Booking
  <2>2. Booking("paid") = 0 /\ Booking("earned") = 0 /\ Booking("bought") = 0 /\ Booking("sold") = 0
    BY <2>1 DEF Kind
  <2>3. Trades!SumOf(Moving) = 0
    <3>1. PICK w : w = Moving
      OBVIOUS
    <3>2. Len(entries) = 1
      BY <1>8
    <3>3. w = [n \in 1..1 |-> 0]
      BY <3>1, <3>2 DEF Moving
    <3>4. w = Append(<<>>, 0)
      BY <3>3
    <3>5. <<>> \in Seq(Int) /\ 0 \in Int
      OBVIOUS
    <3>6. Trades!SumOf(w) = Trades!SumOf(<<>>) + 0
      BY <3>4, <3>5, SumAppend
    <3>7. Trades!SumOf(w) = 0
      BY <3>6, SumNone
    <3> QED
      BY <3>1, <3>7
  <2>4. entries[Len(entries)].state = s /\ entries[1].state = s
    BY <1>8
  <2>5. /\ s.cash \in Nat /\ s.positions[Here].quantity \in Nat /\ s.positions[Here].cost \in Nat
        /\ (s.positions[Here].quantity = 0 => s.positions[Here].cost = 0)
    BY <1>6 DEF TradeState
  <2> QED
    BY <2>2, <2>3, <2>4, <2>5 DEF AddUp
<1> QED
  BY <1>9, <1>11, <1>12, AddUpIs DEF TradeInv

LEMMA LimitsStay ==
  ASSUME Trades!StaysWithinLimits, Trades!Placed' = Trades!Placed, fills' = fills
  PROVE  Trades!StaysWithinLimits'
<1>1. ASSUME NEW i \in Trades!Placed
      PROVE  /\ Trades!FilledOf(fills'[i]) <= OrderOf[i].quantity
             /\ Trades!Within(Trades!GrossOf(fills'[i]), OrderOf[i].maxNotional)
             /\ \A n \in 1..Len(fills'[i]) : Trades!Within(fills'[i][n].costs.quantity, OrderOf[i].policy.cap)
  BY DEF Trades!StaysWithinLimits
<1> QED
  BY <1>1 DEF Trades!StaysWithinLimits

\* No order, no fill and no event of the account more: what they come to stays.
LEMMA SumsStay ==
  ASSUME TradeInv, orders' = orders, fills' = fills, entries' = entries
  PROVE  Trades!StaysWithinLimits' /\ Trades!TradesAddUp'
<1>1. Trades!StaysWithinLimits'
  BY LimitsStay DEF TradeInv, Trades!Placed
<1>2. AddUp
  BY AddUpIs DEF TradeInv
<1>3. AddUp'
  <2>1. /\ Booking("paid")' = Booking("paid") /\ Booking("earned")' = Booking("earned")
        /\ Booking("bought")' = Booking("bought") /\ Booking("sold")' = Booking("sold")
        /\ Trades!SumOf(Moving)' = Trades!SumOf(Moving)
    BY DEF Booking, Books, Moving, Trades!SumOf, Trades!Running
  <2> QED
    BY <1>2, <2>1 DEF AddUp
<1>4. AddUp' <=> Trades!TradesAddUp'
  BY AddUpIs, PTL
<1> QED
  BY <1>1, <1>3, <1>4

LEMMA MoreOf ==
  ASSUME NEW S, NEW s \in Seq(S), NEW e \in S
  PROVE  Append(s, e) \in Seq(S) /\ Append(s, e) # <<>>
<1>1. Append(s, e) \in Seq(S) /\ Len(Append(s, e)) = Len(s) + 1 /\ Len(s) \in Nat
  OBVIOUS
<1>2. Len(<<>>) = 0
  OBVIOUS
<1> QED
  BY <1>1, <1>2

LEMMA AppendIs ==
  ASSUME NEW S, NEW s \in Seq(S), NEW e
  PROVE  /\ Len(s) \in Nat /\ Len(Append(s, e)) = Len(s) + 1 /\ Append(s, e)[Len(s) + 1] = e
         /\ \A n \in 1..Len(s) : Append(s, e)[n] = s[n]
<1>1. PICK U : U = S \union {e}
  OBVIOUS
<1>2. s \in Seq(U) /\ e \in U
  BY <1>1
<1> QED
  BY <1>2

\* What an intent and an order refer to of the account and the replay.
LEMMA Handoffs ==
  ASSUME Trades!EvidenceAssumption, TradeTypes, entries[Len(entries)].state.status = "active",
         NEW o \in Trades!Asked
  PROVE  /\ Trades!AccountHandoff(entries) \in AccountRef
         /\ Trades!AccountHandoff(entries).version = Len(entries)
         /\ Trades!MarketHandoff(o, prices) \in MarketRef
         /\ Trades!MarketHandoff(o, prices).position = Len(prices)
<1>1. PICK n, s : n = Len(entries) /\ s = entries[n].state
  OBVIOUS
<1>2. n \in Nat \ {0} /\ s \in TradeState /\ Len(prices) \in Nat \ {0}
  BY <1>1, TypeFacts
<1>3. s.cash \in Nat /\ s.positions[Here].quantity \in Nat /\ s.status = "active"
  BY <1>2 DEF TradeState
<1>4. Trades!AccountHandoff(entries) = [version |-> n, status |-> s.status, cash |-> s.cash,
                                        held |-> s.positions[Here].quantity]
  BY <1>1 DEF Trades!AccountHandoff, Trades!Last, Trades!Held, Here
<1>5. prices[Len(prices)] \in Nat \union {None}
  BY <1>2 DEF TradeTypes
<1>6. o.close \in Nat
  BY AskedFacts
<1>7. Trades!MarketHandoff(o, prices) =
        [position |-> Len(prices), event |-> prices[Len(prices)], close |-> o.close]
  BY DEF Trades!MarketHandoff, Trades!Last
<1>8. Trades!AccountHandoff(entries) \in AccountRef /\ Trades!AccountHandoff(entries).version = Len(entries)
  BY <1>1, <1>2, <1>3, <1>4 DEF AccountRef
<1>9. Trades!MarketHandoff(o, prices) \in MarketRef /\ Trades!MarketHandoff(o, prices).position = Len(prices)
  BY <1>2, <1>5, <1>6, <1>7 DEF MarketRef
<1> QED
  BY <1>8, <1>9

\* Each action keeps it.
LEMMA DecideKeeps ==
  ASSUME Trades!EvidenceAssumption, TradeInv, NEW i \in Intent, Trades!Decide(i)
  PROVE  TradeInv'
<1> USE DEF TradeInv
<1>1. /\ decisions[i] = None /\ Trades!Last(entries).state.status = "active"
      /\ decisions' = [decisions EXCEPT ![i] = Trades!DecisionOn(OrderOf[i], entries, prices)]
      /\ prices' = prices /\ entries' = entries /\ orders' = orders
      /\ attempts' = attempts /\ fills' = fills /\ links' = links
  BY DEF Trades!Decide
<1>2. PICK d : d = Trades!DecisionOn(OrderOf[i], entries, prices)
  OBVIOUS
<1>3. d \in Trades!DecisionRecord
  <2>1. entries[Len(entries)].state.status = "active" /\ OrderOf[i] \in Trades!Asked
    BY <1>1, TypeFacts DEF Trades!Last
  <2>2. Trades!AccountHandoff(entries) \in AccountRef /\ Trades!MarketHandoff(OrderOf[i], prices) \in MarketRef
    BY <2>1, Handoffs
  <2>3. PICK ok : ok = Trades!PreTradeAllows(OrderOf[i], Trades!AccountHandoff(entries), Trades!Reference(prices))
    OBVIOUS
  <2>4. ok \in BOOLEAN
    BY <2>3, Zenon DEF Trades!PreTradeAllows
  <2>5. d = [account |-> Trades!AccountHandoff(entries), market |-> Trades!MarketHandoff(OrderOf[i], prices),
             allowed |-> ok]
    BY <1>2, <2>3 DEF Trades!DecisionOn
  <2> QED
    BY <2>2, <2>4, <2>5 DEF Trades!DecisionRecord, AccountRef, MarketRef
<1>4. TradeTypes'
  BY <1>1, <1>2, <1>3 DEF TradeTypes
<1>5. Trades!Placed' = Trades!Placed
  BY <1>1 DEF Trades!Placed
<1>6. OneOrderEach' /\ RowsOfOrders' /\ EventsAreThere'
  BY <1>1, <1>5 DEF OneOrderEach, RowsOfOrders, EventsAreThere
<1>7. BothGrow
  BY <1>1, Growing
<1>8. ASSUME NEW j \in Trades!Placed PROVE Trades!Loads(Trades!History(j))'
  <2>1. decisions[j] # None /\ j \in Intent
    BY DecidedStay, HistoryIs
  <2>2. decisions'[j] = decisions[j]
    BY <1>1, <2>1 DEF TradeTypes
  <2>3. Trades!History(j)' = Trades!History(j)
    BY <1>1, RowsStay
  <2> QED
    BY <1>7, <2>2, <2>3, LoadsAgain
<1>9. Trades!HistoriesLoad'
  BY <1>5, <1>8 DEF Trades!HistoriesLoad
<1>10. Trades!StaysWithinLimits' /\ Trades!TradesAddUp'
  BY <1>1, SumsStay
<1> QED
  BY <1>4, <1>6, <1>9, <1>10

LEMMA MovesKeep ==
  ASSUME Trades!EvidenceAssumption, TradeInv, Trades!AccountMoves
  PROVE  TradeInv'
<1> USE DEF TradeInv
<1>1. PICK s, t : /\ s = entries[Len(entries)].state
                  /\ t = Trades!M31!Posted(s, Trades!Moved, Trades!M31!Effect(s, Trades!Moved))
  OBVIOUS
<1>2. /\ entries' = Append(entries, Trades!Entry(None, t))
      /\ prices' = prices /\ decisions' = decisions /\ orders' = orders
      /\ attempts' = attempts /\ fills' = fills /\ links' = links
  BY <1>1 DEF Trades!AccountMoves
<1>3. s \in TradeState
  BY <1>1, TypeFacts
<1>4. t \in TradeState /\ t.positions = s.positions
  BY <1>1, <1>3, MovedKeeps
<1>5. Trades!Entry(None, t) \in EntryRecord
  BY <1>4 DEF Trades!Entry, EntryRecord
<1>6. TradeTypes'
  <2>1. entries' \in Seq(EntryRecord) /\ entries' # <<>>
    BY <1>2, <1>5, MoreOf DEF TradeTypes
  <2> QED
    BY <1>2, <2>1 DEF TradeTypes
<1>7. Trades!Placed' = Trades!Placed
  BY <1>2 DEF Trades!Placed
<1>8. OneOrderEach' /\ RowsOfOrders' /\ EventsAreThere'
  BY <1>2, <1>7 DEF OneOrderEach, RowsOfOrders, EventsAreThere
<1>9. BothGrow
  BY <1>2, Growing
<1>10. ASSUME NEW j \in Trades!Placed PROVE Trades!Loads(Trades!History(j))'
  <2>1. decisions'[j] = decisions[j] /\ Trades!History(j)' = Trades!History(j)
    BY <1>2, RowsStay
  <2> QED
    BY <1>9, <2>1, LoadsAgain
<1>11. Trades!HistoriesLoad'
  BY <1>7, <1>10 DEF Trades!HistoriesLoad
<1>12. Trades!StaysWithinLimits'
  BY <1>2, <1>7, LimitsStay
<1>13. Trades!TradesAddUp'
  <2>1. AddUp
    BY AddUpIs
  <2>2. AddUp'
    BY <1>1, <1>2, <1>4, <2>1, AddUpMoves
  <2>3. AddUp' <=> Trades!TradesAddUp'
    BY AddUpIs, PTL
  <2> QED
    BY <2>2, <2>3
<1> QED
  BY <1>6, <1>8, <1>11, <1>12, <1>13

LEMMA Whole == ASSUME NEW S, NEW s \in Seq(S) PROVE SubSeq(s, 1, Len(s)) = s
OBVIOUS

\* The order of an intent is well formed, and made again of what it was made of.
LEMMA OrderIsMade ==
  ASSUME Trades!EvidenceAssumption, TradeInv, NEW i \in Intent, Trades!CanHandOff(i, entries, prices),
         NEW r, r = Trades!NewOrder(i, entries, prices)
  PROVE  /\ r \in OrderRecord /\ r.intent = i
         /\ Trades!OrderValid(r) /\ Trades!CreatedAgain(r)
<1> USE DEF TradeInv
<1>1. PICK a, m, d, o : /\ a = Trades!AccountHandoff(entries) /\ m = Trades!MarketHandoff(OrderOf[i], prices)
                        /\ d = decisions[i] /\ o = OrderOf[i]
  OBVIOUS
<1>2. /\ d # None /\ d.allowed /\ entries[Len(entries)].state.status = "active"
      /\ Len(prices) <= o.close
  BY <1>1 DEF Trades!CanHandOff, Trades!MatchingAllow, Trades!AccountHandsOff, Trades!MarketHandsOff,
              Trades!Last
<1>3. o \in Trades!Asked /\ Len(entries) \in Nat \ {0} /\ Len(prices) \in Nat \ {0}
  BY <1>1, TypeFacts
<1>4. a \in AccountRef /\ a.version = Len(entries) /\ m \in MarketRef /\ m.position = Len(prices)
  BY <1>1, <1>2, <1>3, Handoffs
<1>5. d \in Trades!DecisionRecord
  BY <1>1, <1>2 DEF TradeTypes
<1>6. r = [intent |-> i, risk |-> [intent |-> i, decision |-> d], account |-> a, market |-> m]
  BY <1>1 DEF Trades!NewOrder, Trades!RiskHandoff
<1>7. r \in OrderRecord /\ r.intent = i
  BY <1>4, <1>5, <1>6 DEF OrderRecord
<1>8. Trades!OrderValid(r)
  <2>1. Trades!RiskHandoffHolds(r.risk) /\ r.risk.intent = r.intent
    BY <1>2, <1>6 DEF Trades!RiskHandoffHolds
  <2>2. Trades!AccountHandoffHolds(r.account)
    BY <1>3, <1>4, <1>6 DEF Trades!AccountHandoffHolds, AccountRef
  <2>3. m.close = o.close
    BY <1>1 DEF Trades!MarketHandoff
  <2>4. Trades!MarketHandoffHolds(r.market)
    BY <1>2, <1>3, <1>4, <1>6, <2>3 DEF Trades!MarketHandoffHolds
  <2> QED
    BY <2>1, <2>2, <2>4 DEF Trades!OrderValid
<1>9. Trades!CreatedAgain(r)
  <2>1. SubSeq(entries, 1, r.account.version) = entries /\ SubSeq(prices, 1, r.market.position) = prices
    BY <1>4, <1>6, Whole DEF TradeTypes
  <2>2. r.account.version \in 1..Len(entries) /\ r.market.position \in 1..Len(prices)
    BY <1>3, <1>4, <1>6
  <2> QED
    BY <1>7, <2>1, <2>2 DEF Trades!CreatedAgain
<1> QED
  BY <1>7, <1>8, <1>9

LEMMA OrderCreateKeeps ==
  ASSUME Trades!EvidenceAssumption, TradeInv, NEW i \in Intent, Trades!CreateOrder(i)
  PROVE  TradeInv'
<1> USE DEF TradeInv
<1>1. PICK r : r = Trades!NewOrder(i, entries, prices)
  OBVIOUS
<1>2. /\ i \notin Trades!Placed /\ Trades!CanHandOff(i, entries, prices) /\ orders' = Append(orders, r)
      /\ prices' = prices /\ entries' = entries /\ decisions' = decisions
      /\ attempts' = attempts /\ fills' = fills /\ links' = links
  BY <1>1 DEF Trades!CreateOrder
<1>3. r \in OrderRecord /\ r.intent = i /\ Trades!OrderValid(r) /\ Trades!CreatedAgain(r)
  BY <1>1, <1>2, OrderIsMade
<1>4. PICK k : k = Len(orders)
  OBVIOUS
<1>5. k \in Nat /\ Len(orders') = k + 1 /\ orders'[k + 1] = r /\ \A n \in 1..k : orders'[n] = orders[n]
  BY <1>2, <1>4 DEF TradeTypes
<1>6. \A n \in 1..k + 1 : n \in 1..k \/ n = k + 1
  BY <1>5
<1>7. TradeTypes'
  <2>1. orders' \in Seq(OrderRecord)
    BY <1>2, <1>3, MoreOf DEF TradeTypes
  <2> QED
    BY <1>2, <2>1 DEF TradeTypes
<1>8. \A n \in 1..k : orders[n].intent # i
  BY <1>2, <1>4 DEF Trades!Placed
<1>9. OneOrderEach'
  <2>1. ASSUME NEW m \in 1..k + 1, NEW n \in 1..k + 1, orders'[m].intent = orders'[n].intent PROVE m = n
    <3>1. CASE m \in 1..k /\ n \in 1..k
      BY <1>4, <1>5, <2>1, <3>1 DEF OneOrderEach
    <3>2. CASE m = k + 1 \/ n = k + 1
      BY <1>3, <1>5, <1>6, <1>8, <2>1, <3>2
    <3> QED
      BY <1>6, <3>1, <3>2
  <2> QED
    BY <1>5, <2>1 DEF OneOrderEach
<1>10. Trades!Placed' = Trades!Placed \union {i}
  <2>1. ASSUME NEW j PROVE (\E n \in 1..k + 1 : orders'[n].intent = j) <=> j = i \/ \E n \in 1..k : orders[n].intent = j
    <3>1. \A n \in 1..k : n \in 1..k + 1
      BY <1>5
    <3>2. k + 1 \in 1..k + 1
      BY <1>5
    <3> QED
      BY <1>3, <1>5, <1>6, <3>1, <3>2
  <2>2. /\ Trades!Placed' = {orders'[n].intent : n \in 1..k + 1}
        /\ Trades!Placed = {orders[n].intent : n \in 1..k}
    BY <1>4, <1>5 DEF Trades!Placed
  <2>3. \A j : j \in Trades!Placed' <=> j \in Trades!Placed \union {i}
    BY <2>1, <2>2
  <2> QED
    BY <2>3
<1>11. RowsOfOrders' /\ EventsAreThere'
  BY <1>2, <1>10 DEF RowsOfOrders, EventsAreThere
<1>12. BothGrow
  BY <1>2, Growing
<1>13. ASSUME NEW j \in Trades!Placed PROVE Trades!Loads(Trades!History(j))'
  <2>1. PICK n \in 1..k : orders[n].intent = j
    BY <1>4 DEF Trades!Placed
  <2>2. Trades!OrderRow(j) = orders[n]
    BY <1>4, <2>1, RowOf
  <2>3. n \in 1..k + 1 /\ orders'[n] = orders[n]
    BY <1>5, <2>1
  <2>4. (CHOOSE m \in 1..Len(orders') : orders'[m].intent = j) = n
    BY <1>5, <1>9, <2>1, <2>3 DEF OneOrderEach
  <2>5. Trades!OrderRow(j)' = orders[n]
    BY <2>3, <2>4 DEF Trades!OrderRow
  <2>6. Trades!History(j)' = Trades!History(j)
    BY <1>2, <2>2, <2>5 DEF Trades!History
  <2> QED
    BY <1>2, <1>12, <2>6, LoadsAgain
<1>14. Trades!Loads(Trades!History(i))'
  <2>1. k + 1 \in 1..Len(orders') /\ orders'[k + 1].intent = i
    BY <1>3, <1>5
  <2>2. (CHOOSE m \in 1..Len(orders') : orders'[m].intent = i) = k + 1
    BY <1>9, <2>1 DEF OneOrderEach
  <2>3. Trades!OrderRow(i)' = r
    BY <1>5, <2>2 DEF Trades!OrderRow
  <2>4. attempts[i] = <<>> /\ fills[i] = <<>> /\ links[i] = <<>>
    BY <1>2 DEF RowsOfOrders
  <2>5. PICK h : h = Trades!History(i)'
    OBVIOUS
  <2>6. h.order = r /\ h.attempts = <<>> /\ h.fills = <<>> /\ h.links = <<>>
    BY <1>2, <2>3, <2>4, <2>5 DEF Trades!History
  <2>7. Trades!CreatedAgain(r)'
    BY <1>2, <1>3, <1>12, CreatedStays
  <2>8. Trades!OrderValid(h.order)'
    BY <1>3, <2>6 DEF Trades!OrderValid
  <2>9. Len(h.attempts) = 0 /\ Len(h.fills) = 0 /\ Len(h.links) = 0
    BY <2>6
  <2>10. Trades!Loads(h)'
    BY <2>6, <2>7, <2>8, <2>9 DEF Trades!Loads
  <2> QED
    BY <2>5, <2>10
<1>15. Trades!HistoriesLoad'
  BY <1>10, <1>13, <1>14 DEF Trades!HistoriesLoad
<1>16. Trades!StaysWithinLimits'
  <2>1. /\ Trades!FilledOf(fills[i]) <= OrderOf[i].quantity
        /\ Trades!Within(Trades!GrossOf(fills[i]), OrderOf[i].maxNotional)
        /\ \A n \in 1..Len(fills[i]) : Trades!Within(fills[i][n].costs.quantity, OrderOf[i].policy.cap)
    <3>1. fills[i] = <<>> /\ Len(<<>>) = 0
      BY <1>2 DEF RowsOfOrders
    <3>2. Trades!FilledOf(<<>>) = 0 /\ Trades!GrossOf(<<>>) = 0
      <4>1. "quantity" \in Sums /\ "gross" \in Sums
        BY DEF Sums
      <4> QED
        BY <4>1, NoRows DEF Trades!FilledOf, Trades!GrossOf
    <3>3. OrderOf[i].quantity \in Nat /\ OrderOf[i].maxNotional \in Trades!Limit
      BY AskedFacts, TypeFacts
    <3>4. Trades!Within(0, OrderOf[i].maxNotional)
      BY <3>3 DEF Trades!Within, Trades!Limit
    <3>5. 0 <= OrderOf[i].quantity
      BY <3>3
    <3>6. \A n \in 1..Len(fills[i]) : Trades!Within(fills[i][n].costs.quantity, OrderOf[i].policy.cap)
      BY <3>1
    <3> QED
      BY <3>1, <3>2, <3>4, <3>5, <3>6
  <2>2. ASSUME NEW j \in Trades!Placed
        PROVE  /\ Trades!FilledOf(fills[j]) <= OrderOf[j].quantity
               /\ Trades!Within(Trades!GrossOf(fills[j]), OrderOf[j].maxNotional)
               /\ \A n \in 1..Len(fills[j]) : Trades!Within(fills[j][n].costs.quantity, OrderOf[j].policy.cap)
    BY DEF Trades!StaysWithinLimits
  <2> QED
    BY <1>2, <1>10, <2>1, <2>2 DEF Trades!StaysWithinLimits
<1>17. Trades!TradesAddUp'
  <2>1. AddUp
    BY AddUpIs
  <2>2. fills[r.intent] = <<>>
    BY <1>2, <1>3 DEF RowsOfOrders
  <2>3. AddUp'
    BY <1>2, <1>3, <2>1, <2>2, AddUpOrder
  <2>4. AddUp' <=> Trades!TradesAddUp'
    BY AddUpIs, PTL
  <2> QED
    BY <2>3, <2>4
<1> QED
  BY <1>7, <1>9, <1>11, <1>15, <1>16, <1>17

\* A step of order i makes attempt a, and a fill and a link if it fills.
Attempting(i, a) ==
  LET f == Trades!FillOf(a, Len(attempts[i]) + 1) IN
  /\ orders' = orders /\ decisions' = decisions
  /\ attempts' = [attempts EXCEPT ![i] = Append(@, a)]
  /\ IF a.result = "fill"
     THEN /\ f \in Trades!FillRecord /\ fills' = [fills EXCEPT ![i] = Append(@, f)]
          /\ links' = [links EXCEPT ![i] = Append(@, Trades!Link(f, Len(entries) + 1))]
     ELSE fills' = fills /\ links' = links

LEMMA StepRows ==
  ASSUME Trades!EvidenceAssumption, TradeInv, NEW i \in Trades!Placed, NEW a \in Trades!AttemptRecord,
         Attempting(i, a), BothGrow, a.post \in 1..Len(prices'),
         prices' \in Seq(Nat \union {None}), prices' # <<>>, entries' \in Seq(EntryRecord), entries' # <<>>
  PROVE  /\ TradeTypes' /\ OneOrderEach' /\ RowsOfOrders' /\ EventsAreThere'
         /\ Trades!Placed' = Trades!Placed
<1> USE DEF TradeInv
<1>1. i \in Intent
  BY HistoryIs
<1>2. PICK f, l : f = Trades!FillOf(a, Len(attempts[i]) + 1) /\ l = Trades!Link(f, Len(entries) + 1)
  OBVIOUS
<1>3. /\ orders' = orders /\ decisions' = decisions /\ attempts' = [attempts EXCEPT ![i] = Append(@, a)]
      /\ a.result = "fill" => /\ f \in Trades!FillRecord /\ fills' = [fills EXCEPT ![i] = Append(@, f)]
                              /\ links' = [links EXCEPT ![i] = Append(@, l)]
      /\ a.result # "fill" => fills' = fills /\ links' = links
  BY <1>2 DEF Attempting
<1>4. TradeTypes'
  <2>1. attempts' \in [Intent -> Seq(Trades!AttemptRecord)]
    <3>1. Append(attempts[i], a) \in Seq(Trades!AttemptRecord)
      BY <1>1, MoreOf DEF TradeTypes
    <3> QED
      BY <1>3, <3>1 DEF TradeTypes
  <2>2. fills' \in [Intent -> Seq(Trades!FillRecord)] /\ links' \in [Intent -> Seq(LinkRecord)]
    <3>1. CASE a.result = "fill"
      <4>1. l \in LinkRecord
        <5>1. Len(entries) + 1 \in Nat
          BY TypeFacts
        <5> QED
          BY <1>2, <1>3, <3>1, <5>1 DEF Trades!Link, LinkRecord
      <4>2. Append(fills[i], f) \in Seq(Trades!FillRecord) /\ Append(links[i], l) \in Seq(LinkRecord)
        BY <1>1, <1>3, <3>1, <4>1, MoreOf DEF TradeTypes
      <4> QED
        BY <1>3, <3>1, <4>2 DEF TradeTypes
    <3>2. CASE a.result # "fill"
      BY <1>3, <3>2 DEF TradeTypes
    <3> QED
      BY <3>1, <3>2
  <2> QED
    BY <1>3, <2>1, <2>2 DEF TradeTypes
<1>5. Trades!Placed' = Trades!Placed /\ OneOrderEach'
  BY <1>3 DEF Trades!Placed, OneOrderEach
<1>6. RowsOfOrders'
  <2>1. ASSUME NEW j \in Intent, j \notin Trades!Placed
        PROVE  attempts'[j] = <<>> /\ fills'[j] = <<>> /\ links'[j] = <<>>
    <3>1. j # i /\ attempts[j] = <<>> /\ fills[j] = <<>> /\ links[j] = <<>>
      BY <2>1 DEF RowsOfOrders
    <3>2. attempts'[j] = attempts[j] /\ fills'[j] = fills[j] /\ links'[j] = links[j]
      BY <1>3, <3>1 DEF TradeTypes
    <3> QED
      BY <3>1, <3>2
  <2> QED
    BY <1>5, <2>1 DEF RowsOfOrders
<1>7. EventsAreThere'
  <2>1. ASSUME NEW j \in Intent, NEW v \in 1..Len(attempts'[j]) PROVE attempts'[j][v].post \in 1..Len(prices')
    <3>1. \A w \in 1..Len(attempts[j]) : attempts[j][w].post \in 1..Len(prices')
      <4>1. \A w \in 1..Len(attempts[j]) : attempts[j][w].post \in 1..Len(prices)
        BY DEF EventsAreThere
      <4>2. Len(prices) \in Nat /\ Len(prices') \in Nat /\ Len(prices) <= Len(prices')
        BY TypeFacts DEF BothGrow
      <4> QED
        BY <4>1, <4>2
    <3>2. CASE j # i
      BY <1>3, <3>1, <3>2 DEF TradeTypes
    <3>3. CASE j = i
      <4>1. PICK s : s = attempts[i]
        OBVIOUS
      <4>2. s \in Seq(Trades!AttemptRecord) /\ attempts'[j] = Append(s, a)
        BY <1>1, <1>3, <3>3, <4>1 DEF TradeTypes
      <4>3. \/ v \in 1..Len(s) /\ Append(s, a)[v] = s[v]
            \/ Append(s, a)[v] = a
        BY <4>2
      <4> QED
        BY <3>1, <3>3, <4>1, <4>2, <4>3
    <3> QED
      BY <3>2, <3>3
  <2> QED
    BY <2>1 DEF EventsAreThere
<1> QED
  BY <1>4, <1>5, <1>6, <1>7

\* The other orders load.
LEMMA OthersLoad ==
  ASSUME Trades!EvidenceAssumption, TradeInv, NEW i \in Trades!Placed, NEW a, Attempting(i, a), BothGrow,
         NEW j \in Trades!Placed, j # i
  PROVE  Trades!Loads(Trades!History(j))'
<1> USE DEF TradeInv
<1>1. /\ orders' = orders /\ decisions' = decisions /\ attempts'[j] = attempts[j]
      /\ fills'[j] = fills[j] /\ links'[j] = links[j]
  <2>1. i \in Intent /\ j \in Intent
    BY HistoryIs
  <2> QED
    BY <2>1 DEF Attempting, TradeTypes
<1>2. Trades!History(j)' = Trades!History(j)
  BY <1>1, RowsStay
<1> QED
  BY <1>1, <1>2, LoadsAgain

\* The rows of the order that steps are one attempt more.
LEMMA StepIsOneMore ==
  ASSUME Trades!EvidenceAssumption, TradeInv, NEW i \in Trades!Placed, NEW a \in Trades!AttemptRecord,
         Attempting(i, a), NEW h, h = Trades!History(i), NEW g, g = Trades!History(i)'
  PROVE  /\ OneMore(h, g, a) /\ g.order = h.order
         /\ a.result = "fill" =>
              g.links = Append(h.links, Trades!Link(Trades!FillOf(a, Len(h.attempts) + 1), Len(entries) + 1))
         /\ a.result # "fill" => g.links = h.links
<1> USE DEF TradeInv
<1>1. i \in Intent /\ h.attempts = attempts[i] /\ h.fills = fills[i] /\ h.links = links[i]
      /\ h.order = Trades!OrderRow(i)
  BY HistoryIs DEF Trades!History
<1>2. g.attempts = attempts'[i] /\ g.fills = fills'[i] /\ g.links = links'[i] /\ g.order = Trades!OrderRow(i)'
  BY DEF Trades!History
<1>3. Trades!OrderRow(i)' = Trades!OrderRow(i)
  BY DEF Trades!OrderRow, Attempting
<1>4. attempts'[i] = Append(attempts[i], a)
  BY <1>1 DEF Attempting, TradeTypes
<1>5. PICK f : f = Trades!FillOf(a, Len(attempts[i]) + 1)
  OBVIOUS
<1>6. CASE a.result = "fill"
  <2>1. /\ f \in Trades!FillRecord /\ fills'[i] = Append(fills[i], f)
        /\ links'[i] = Append(links[i], Trades!Link(f, Len(entries) + 1))
    BY <1>1, <1>5, <1>6 DEF Attempting, TradeTypes
  <2> QED
    BY <1>1, <1>2, <1>3, <1>4, <1>5, <1>6, <2>1 DEF OneMore
<1>7. CASE a.result # "fill"
  <2>1. fills' = fills /\ links' = links
    BY <1>7 DEF Attempting
  <2> QED
    BY <1>1, <1>2, <1>3, <1>4, <1>7, <2>1 DEF OneMore
<1> QED
  BY <1>6, <1>7

\* The order that steps loads, if the attempt is right after its history, and the
\* account has settled its fill.
LEMMA StepLoads ==
  ASSUME Trades!EvidenceAssumption, TradeInv, NEW i \in Trades!Placed, NEW a \in Trades!AttemptRecord,
         Attempting(i, a), BothGrow, NEW h, h = Trades!History(i), NEW g, g = Trades!History(i)',
         RightAfter(h, a), a.event # None => a.event = Trades!Event(a.post, prices'[a.post]),
         a.result = "fill" => Trades!LinkReconciles(g, Len(h.links) + 1)'
  PROVE  Trades!Loads(g)'
<1> USE DEF TradeInv
<1>1. PICK m, k : m = Len(h.attempts) /\ k = Len(h.links)
  OBVIOUS
<1>2. /\ i \in Intent /\ h.order \in OrderRecord /\ h.order.intent = i
      /\ h.attempts = attempts[i] /\ h.fills = fills[i] /\ h.links = links[i]
      /\ m \in Nat /\ k \in Nat /\ Len(h.fills) \in Nat
      /\ h.attempts \in Seq(Trades!AttemptRecord) /\ h.fills \in Seq(Trades!FillRecord)
      /\ h.links \in Seq(LinkRecord) /\ OrderOf[i] \in Trades!Asked
  BY <1>1, HistoryIs
<1>3. /\ Trades!OrderValid(h.order) /\ Trades!CreatedAgain(h.order)
      /\ \A v \in 1..m : Trades!AttemptValid(h, v)
      /\ Numbered(h.fills, m)
      /\ k = Len(h.fills)
      /\ \A n \in 1..k : Trades!LinkReconciles(h, n)
  <2>1. Trades!Loads(h)
    BY DEF Trades!HistoriesLoad
  <2> QED
    BY <1>1, <2>1 DEF Trades!Loads, Numbered
<1>4. /\ OneMore(h, g, a) /\ g.order = h.order
      /\ a.result = "fill" =>
           g.links = Append(h.links, Trades!Link(Trades!FillOf(a, m + 1), Len(entries) + 1))
      /\ a.result # "fill" => g.links = h.links
  BY <1>1, StepIsOneMore
<1>5. /\ Len(g.attempts) = m + 1 /\ Numbered(g.fills, m + 1)
      /\ \A n \in 1..Len(h.fills) : n \in 1..Len(g.fills) /\ g.fills[n] = h.fills[n]
  <2>1. h.attempts \in Seq(Trades!AttemptRecord) /\ h.fills \in Seq(Trades!FillRecord)
    BY <1>2
  <2> QED
    BY <1>1, <1>3, <1>4, <2>1, RowsOneMore
<1>6. Trades!OrderValid(g.order)' /\ Trades!CreatedAgain(g.order)'
  <2>1. decisions'[h.order.intent] = decisions[h.order.intent]
    BY DEF Attempting
  <2>2. Trades!CreatedAgain(h.order)'
    BY <1>3, <2>1, CreatedStays
  <2> QED
    BY <1>3, <1>4, <2>2 DEF Trades!OrderValid
<1>7. \A v \in 1..Len(g.attempts) : Trades!AttemptValid(g, v)'
  <2>1. ASSUME NEW v \in 1..m PROVE prices'[h.attempts[v].post] = prices[h.attempts[v].post]
    <3>1. h.attempts[v].post \in 1..Len(prices)
      BY <1>1, <1>2 DEF EventsAreThere
    <3> QED
      BY <3>1 DEF BothGrow
  <2>2. OrderOf[h.order.intent].quantity \in Nat
    BY <1>2, AskedFacts
  <2>3. \A v \in 1..Len(h.attempts) : /\ Trades!AttemptValid(h, v)
                                      /\ prices'[h.attempts[v].post] = prices[h.attempts[v].post]
    BY <1>1, <1>3, <2>1
  <2> QED
    BY <1>1, <1>2, <1>3, <1>4, <2>2, <2>3, AttemptsOneMore
<1>8. \A n \in 1..Len(g.fills) : g.fills[n].version \in 1..Len(g.attempts)
  BY <1>5 DEF Numbered
<1>9. /\ Len(g.links) = Len(g.fills) /\ \A n \in 1..k : g.links[n] = h.links[n]
      /\ Len(g.links) = IF a.result = "fill" THEN k + 1 ELSE k
  <2>1. CASE a.result = "fill"
    <3>1. g.fills = Append(h.fills, Trades!FillOf(a, m + 1))
      BY <1>1, <1>4, <2>1 DEF OneMore
    <3>2. Len(g.fills) = k + 1
      <4>1. k = Len(h.fills) /\ h.fills \in Seq(Trades!FillRecord)
        BY <1>2, <1>3
      <4> QED
        BY <3>1, <4>1, AppendIs
    <3>3. Len(g.links) = k + 1 /\ \A n \in 1..k : g.links[n] = h.links[n]
      <4>1. PICK l : g.links = Append(h.links, l)
        BY <1>4, <2>1
      <4>2. k = Len(h.links) /\ h.links \in Seq(LinkRecord)
        BY <1>1, <1>2
      <4> QED
        BY <4>1, <4>2, AppendIs
    <3> QED
      BY <2>1, <3>2, <3>3
  <2>2. CASE a.result # "fill"
    BY <1>1, <1>3, <1>4, <2>2 DEF OneMore
  <2> QED
    BY <2>1, <2>2
<1>10. ASSUME NEW n \in 1..Len(g.links) PROVE Trades!LinkReconciles(g, n)'
  <2>1. n \in 1..k \/ (a.result = "fill" /\ n = k + 1)
    BY <1>2, <1>9
  <2>2. CASE n \in 1..k
    <3>1. n \in Nat \ {0} /\ (n > 1 => n - 1 \in 1..k)
      BY <1>2, <2>2
    <3>2. /\ Trades!LinkReconciles(h, n) /\ g.links[n] = h.links[n] /\ g.fills[n] = h.fills[n]
          /\ (n > 1 => g.links[n - 1] = h.links[n - 1])
      BY <1>3, <1>5, <1>9, <2>2, <3>1
    <3> QED
      BY <1>4, <3>1, <3>2, LinkStays
  <2>3. CASE a.result = "fill" /\ n = k + 1
    BY <1>1, <2>3
  <2> QED
    BY <2>1, <2>2, <2>3
<1> QED
  BY <1>6, <1>7, <1>8, <1>9, <1>10 DEF Trades!Loads

\* The rows of all orders load after a step.
LEMMA StepKeepsHistories ==
  ASSUME Trades!EvidenceAssumption, TradeInv, NEW i \in Trades!Placed, NEW a \in Trades!AttemptRecord,
         Attempting(i, a), BothGrow, NEW h, h = Trades!History(i), NEW g, g = Trades!History(i)',
         RightAfter(h, a), a.event # None => a.event = Trades!Event(a.post, prices'[a.post]),
         a.result = "fill" => Trades!LinkReconciles(g, Len(h.links) + 1)',
         Trades!Placed' = Trades!Placed
  PROVE  Trades!HistoriesLoad'
<1>1. Trades!Loads(g)'
  BY StepLoads
<1>2. Trades!Loads(Trades!History(i))'
  BY <1>1
<1>3. ASSUME NEW j \in Trades!Placed PROVE Trades!Loads(Trades!History(j))'
  <2>1. CASE j = i
    BY <1>2, <2>1
  <2>2. CASE j # i
    BY <2>2, OthersLoad
  <2> QED
    BY <2>1, <2>2
<1> QED
  BY <1>3 DEF Trades!HistoriesLoad

\* An order that works, on an account and a replay that are where its history ends.
LEMMA StepFacts ==
  ASSUME Trades!EvidenceAssumption, TradeInv, NEW i, Trades!Working(i), Trades!Current(i),
         NEW h, h = Trades!History(i)
  PROVE  /\ i \in Trades!Placed /\ i \in Intent /\ OrderOf[i] \in Trades!Asked
         /\ h.order.intent = i /\ h.attempts = attempts[i] /\ h.fills = fills[i] /\ h.links = links[i]
         /\ Len(h.attempts) \in Nat /\ Trades!Loads(h) /\ ~Trades!IsTerminal(h)
         /\ Trades!Now(h).remaining \in Nat /\ Trades!Now(h).remaining > 0
         /\ Trades!Position(h) = Len(prices) /\ Trades!AccountVersion(h) = Len(entries)
         /\ entries[Len(entries)].state.status = "active"
<1>1. i \in Trades!Placed /\ ~Trades!IsTerminal(h)
  BY DEF Trades!Working
<1>2. /\ i \in Intent /\ OrderOf[i] \in Trades!Asked
      /\ h.order.intent = i /\ h.attempts = attempts[i] /\ h.fills = fills[i] /\ h.links = links[i]
      /\ Len(h.attempts) \in Nat
  BY <1>1, HistoryIs DEF TradeInv
<1>3. Trades!Loads(h)
  BY <1>1 DEF TradeInv, Trades!HistoriesLoad
<1>4. Trades!Now(h).remaining \in Nat
  BY <1>1, <1>3, LoadedIs DEF TradeInv
<1>5. Trades!Now(h).remaining # 0
  BY <1>1 DEF Trades!IsTerminal
<1>6. /\ Trades!Position(h) = Len(prices) /\ Trades!AccountVersion(h) = Len(entries)
      /\ entries[Len(entries)].state.status = "active"
  BY DEF Trades!Current
<1> QED
  BY <1>1, <1>2, <1>3, <1>4, <1>5, <1>6

\* A step that fills nothing.
LEMMA QuietStep ==
  ASSUME Trades!EvidenceAssumption, TradeInv, NEW i \in Trades!Placed, NEW a \in Trades!AttemptRecord,
         a.result # "fill", Attempting(i, a), entries' = entries,
         prices' = prices \/ \E p \in Nat \union {None} : prices' = Append(prices, p),
         a.post \in 1..Len(prices'), NEW h, h = Trades!History(i), RightAfter(h, a),
         a.event # None => a.event = Trades!Event(a.post, prices'[a.post])
  PROVE  TradeInv'
<1> USE DEF TradeInv
<1>1. BothGrow
  BY Growing
<1>2. prices' \in Seq(Nat \union {None}) /\ prices' # <<>>
  <2>1. prices \in Seq(Nat \union {None}) /\ prices # <<>>
    BY DEF TradeTypes
  <2>2. CASE prices' = prices
    BY <2>1, <2>2
  <2>3. CASE \E p \in Nat \union {None} : prices' = Append(prices, p)
    BY <2>1, <2>3, MoreOf
  <2> QED
    BY <2>2, <2>3
<1>3. entries' \in Seq(EntryRecord) /\ entries' # <<>>
  BY DEF TradeTypes
<1>4. /\ TradeTypes' /\ OneOrderEach' /\ RowsOfOrders' /\ EventsAreThere'
      /\ Trades!Placed' = Trades!Placed
  BY <1>1, <1>2, <1>3, StepRows
<1>5. Trades!HistoriesLoad'
  <2>1. PICK g : g = Trades!History(i)'
    OBVIOUS
  <2> QED
    BY <1>1, <1>4, <2>1, StepKeepsHistories
<1>6. orders' = orders /\ fills' = fills
  BY DEF Attempting
<1>7. Trades!StaysWithinLimits' /\ Trades!TradesAddUp'
  BY <1>6, SumsStay
<1> QED
  BY <1>4, <1>5, <1>7

LEMMA BoundaryKeeps ==
  ASSUME Trades!EvidenceAssumption, TradeInv, NEW i, Trades!Working(i), Trades!Current(i),
         Trades!StepAtBoundary(i), decisions' = decisions, orders' = orders
  PROVE  TradeInv'
<1>1. PICK h, n, reason :
        /\ h = Trades!History(i) /\ n = Len(prices)
        /\ reason = IF Len(prices) = Len(Stream) THEN "replay_exhausted" ELSE "session_exhausted"
  OBVIOUS
<1>2. PICK a : a = Trades!Made(i, "boundary_rejected", reason, None, None)
  OBVIOUS
<1>3. /\ attempts' = [attempts EXCEPT ![i] = Append(@, a)]
      /\ prices' = prices /\ entries' = entries /\ fills' = fills /\ links' = links
  BY <1>1, <1>2 DEF Trades!StepAtBoundary
<1>4. /\ i \in Trades!Placed /\ ~Trades!IsTerminal(h) /\ Trades!Position(h) = n
      /\ Trades!Now(h).remaining \in Nat /\ Trades!Now(h).remaining > 0
  BY <1>1, StepFacts
<1>5. n \in Nat \ {0}
  BY <1>1, TypeFacts DEF TradeInv
<1>6. a = [pre |-> n, post |-> n, result |-> "boundary_rejected", reason |-> reason,
           event |-> None, risk |-> None]
  BY <1>1, <1>2 DEF Trades!Made
<1>7. a \in Trades!AttemptRecord
  BY <1>1, <1>5, <1>6 DEF Trades!AttemptRecord
<1>8. Attempting(i, a)
  BY <1>3, <1>6 DEF Attempting
<1>9. Trades!WellFormed(a)
  BY <1>1, <1>6 DEF Trades!WellFormed
<1>10. RightAfter(h, a)
  <2>1. Filling(a) = 0 /\ a.risk = None /\ a.pre = n /\ a.result # "fill"
    BY <1>6 DEF Filling
  <2> QED
    BY <1>4, <1>9, <2>1 DEF RightAfter
<1>11. a.post \in 1..Len(prices') /\ a.event = None /\ a.result # "fill"
  BY <1>1, <1>3, <1>5, <1>6
<1> QED
  BY <1>1, <1>3, <1>4, <1>7, <1>8, <1>10, <1>11, QuietStep

LEMMA NoFillKeeps ==
  ASSUME Trades!EvidenceAssumption, TradeInv, NEW i, Trades!Working(i), Trades!Current(i),
         Trades!StepNoFill(i), decisions' = decisions, orders' = orders
  PROVE  TradeInv'
<1>1. PICK h, n, reason, event :
        /\ h = Trades!History(i) /\ n = Len(prices)
        /\ reason = Trades!EndReason(1) /\ event = Trades!Event(n + 1, None)
  OBVIOUS
<1>2. PICK a : a = Trades!Made(i, "no_fill", reason, event, None)
  OBVIOUS
<1>3. /\ attempts' = [attempts EXCEPT ![i] = Append(@, a)]
      /\ prices' = Append(prices, None) /\ entries' = entries /\ fills' = fills /\ links' = links
  BY <1>1, <1>2 DEF Trades!StepNoFill
<1>4. /\ i \in Trades!Placed /\ ~Trades!IsTerminal(h) /\ Trades!Position(h) = n
      /\ Trades!Now(h).remaining \in Nat /\ Trades!Now(h).remaining > 0
  BY <1>1, StepFacts
<1>5. n \in Nat \ {0}
  BY <1>1, TypeFacts DEF TradeInv
<1>6. event \in Trades!EventRecord /\ event # None
  <2>1. event \in Trades!EventRecord
    BY <1>1, <1>5 DEF Trades!Event, Trades!EventRecord
  <2> QED
    BY <2>1 DEF Trades!EvidenceAssumption
<1>7. a = [pre |-> n, post |-> n + 1, result |-> "no_fill", reason |-> reason,
           event |-> event, risk |-> None]
  BY <1>1, <1>2, <1>6 DEF Trades!Made
<1>8. reason = IF n + 1 = Len(Stream) THEN "replay_exhausted" ELSE "none"
  BY <1>1 DEF Trades!EndReason
<1>9. a \in Trades!AttemptRecord
  BY <1>5, <1>6, <1>7, <1>8 DEF Trades!AttemptRecord
<1>10. Attempting(i, a)
  BY <1>3, <1>7 DEF Attempting
<1>11. Trades!WellFormed(a)
  BY <1>6, <1>7, <1>8 DEF Trades!WellFormed
<1>12. RightAfter(h, a)
  <2>1. Filling(a) = 0 /\ a.risk = None /\ a.pre = n /\ a.result # "fill"
    BY <1>7 DEF Filling
  <2> QED
    BY <1>4, <1>11, <2>1 DEF RightAfter
<1>13. Len(prices') = n + 1 /\ prices'[n + 1] = None
  BY <1>1, <1>3 DEF TradeInv, TradeTypes
<1>14. a.post \in 1..Len(prices') /\ a.event = Trades!Event(a.post, prices'[a.post]) /\ a.result # "fill"
  BY <1>1, <1>5, <1>7, <1>13
<1> QED
  BY <1>1, <1>3, <1>4, <1>9, <1>10, <1>12, <1>14, QuietStep

\* The evidence of a trade's risk follows from the history of the order.
LEMMA RiskOfTrade ==
  ASSUME Trades!EvidenceAssumption, TradeInv, NEW i, Trades!Working(i), Trades!Current(i),
         NEW p \in Price, NEW risk, risk = Trades!RiskAt(i, p), risk.facts.costs.price.price > 0,
         NEW h, h = Trades!History(i),
         NEW a, a.risk = risk, a.event = risk.facts.costs.price.event
  PROVE  /\ risk \in Trades!RiskRecord /\ risk # None /\ RiskFor(risk, i, p)
         /\ a.event = Trades!Event(Len(prices) + 1, p) /\ a.event \in Trades!EventRecord /\ a.event # None
         /\ risk.facts.remaining = Trades!Now(h).remaining
         /\ risk.facts.candidate \in 1..risk.facts.remaining
         /\ risk.facts.cumulative = Trades!GrossOf(h.fills)
         /\ Trades!RevalidationHolds(risk) /\ Trades!RiskFollows(h, Len(h.attempts) + 1, a)
<1>1. PICK facts, o, m : facts = risk.facts /\ o = OrderOf[i] /\ m = Len(h.attempts)
  OBVIOUS
<1>2. /\ i \in Trades!Placed /\ i \in Intent /\ o \in Trades!Asked
      /\ h.order.intent = i /\ h.attempts = attempts[i] /\ h.fills = fills[i]
      /\ m \in Nat /\ Trades!Loads(h)
  BY <1>1, StepFacts
<1>3. /\ risk \in Trades!RiskRecord /\ RiskFor(risk, i, p)
      /\ facts.candidate \in 1..facts.remaining /\ Trades!RevalidationHolds(risk)
  BY <1>1, <1>2, RiskIs DEF TradeInv
<1>4. risk # None
  BY <1>3 DEF Trades!EvidenceAssumption
<1>5. /\ facts.version = Len(attempts[i]) /\ facts.requested = o.quantity
      /\ facts.maxQuantity = o.maxQuantity /\ facts.maxNotional = o.maxNotional
      /\ facts.remaining = o.quantity - Trades!FilledOf(fills[i])
      /\ facts.cumulative = Trades!GrossOf(fills[i])
      /\ facts.candidate = Trades!Candidate(o, facts.remaining)
      /\ facts.costs.quantity = facts.candidate /\ facts.costs.rates = Trades!Rates(o)
      /\ facts.costs.price.event = Trades!Event(Len(prices) + 1, p)
      /\ facts.costs.price.side = o.side /\ facts.costs.price.slip = o.policy.slip
  BY <1>1, <1>3 DEF RiskFor
<1>6. Trades!Now(h) = [version |-> m, gross |-> Trades!GrossOf(fills[i]),
                       remaining |-> o.quantity - Trades!FilledOf(fills[i])]
  BY <1>1, <1>2, LoadedIs DEF TradeInv
<1>7. a.event \in Trades!EventRecord /\ a.event # None /\ a.event.price = p /\ p # None
  <2>1. a.event = Trades!Event(Len(prices) + 1, p)
    BY <1>1, <1>5
  <2>2. Len(prices) + 1 \in Nat
    BY TypeFacts DEF TradeInv
  <2>3. p \in Nat /\ None \notin Nat
    BY DEF Trades!EvidenceAssumption
  <2>4. a.event \in Trades!EventRecord /\ a.event.price = p
    BY <2>1, <2>2, <2>3 DEF Trades!Event, Trades!EventRecord
  <2>5. None \notin Trades!EventRecord
    BY DEF Trades!EvidenceAssumption
  <2> QED
    BY <2>3, <2>4, <2>5
<1>8. Trades!Before(h, m + 1) = Trades!Now(h) /\ (m + 1) - 1 = m
  BY <1>1, <1>2 DEF Trades!Now
<1>9. Trades!RiskFollows(h, m + 1, a)
  BY <1>1, <1>2, <1>5, <1>6, <1>7, <1>8 DEF Trades!RiskFollows
<1> QED
  BY <1>1, <1>2, <1>3, <1>4, <1>5, <1>6, <1>7, <1>9

LEMMA RejectedKeeps ==
  ASSUME Trades!EvidenceAssumption, TradeInv, NEW i, Trades!Working(i), Trades!Current(i),
         NEW p \in Price, NEW risk, risk = Trades!RiskAt(i, p), risk.facts.costs.price.price > 0,
         prices' = Append(prices, p), Trades!StepRejected(i, risk), decisions' = decisions, orders' = orders
  PROVE  TradeInv'
<1>1. PICK h, n, event : /\ h = Trades!History(i) /\ n = Len(prices) /\ event = risk.facts.costs.price.event
  OBVIOUS
<1>2. PICK a : a = Trades!Made(i, "risk_rejected", "execution_risk_rejected", event, risk)
  OBVIOUS
<1>3. /\ attempts' = [attempts EXCEPT ![i] = Append(@, a)] /\ risk.failed # {}
      /\ entries' = entries /\ fills' = fills /\ links' = links
  BY <1>1, <1>2 DEF Trades!StepRejected
<1>4. /\ i \in Trades!Placed /\ ~Trades!IsTerminal(h) /\ Trades!Position(h) = n
      /\ Trades!Now(h).remaining \in Nat /\ Trades!Now(h).remaining > 0
  BY <1>1, StepFacts
<1>5. n \in Nat \ {0}
  BY <1>1, TypeFacts DEF TradeInv
<1>6. a.risk = risk /\ a.event = event
  BY <1>2 DEF Trades!Made
<1>7. /\ risk \in Trades!RiskRecord /\ risk # None
      /\ event = Trades!Event(n + 1, p) /\ event \in Trades!EventRecord /\ event # None
      /\ Trades!RevalidationHolds(risk) /\ Trades!RiskFollows(h, Len(h.attempts) + 1, a)
  BY <1>1, <1>6, RiskOfTrade
<1>8. a = [pre |-> n, post |-> n + 1, result |-> "risk_rejected", reason |-> "execution_risk_rejected",
           event |-> event, risk |-> risk]
  BY <1>1, <1>2, <1>7 DEF Trades!Made
<1>9. a \in Trades!AttemptRecord
  BY <1>5, <1>7, <1>8 DEF Trades!AttemptRecord
<1>10. Attempting(i, a)
  BY <1>3, <1>8 DEF Attempting
<1>11. Trades!WellFormed(a)
  BY <1>3, <1>7, <1>8 DEF Trades!WellFormed
<1>12. RightAfter(h, a)
  <2>1. Filling(a) = 0 /\ a.pre = n /\ a.result # "fill"
    BY <1>8 DEF Filling
  <2> QED
    BY <1>4, <1>6, <1>7, <1>11, <2>1 DEF RightAfter
<1>13. Len(prices') = n + 1 /\ prices'[n + 1] = p
  BY <1>1 DEF TradeInv, TradeTypes
<1>14. a.post \in 1..Len(prices') /\ a.event = Trades!Event(a.post, prices'[a.post]) /\ a.result # "fill"
  BY <1>5, <1>7, <1>8, <1>13
<1>15. p \in Nat \union {None}
  BY DEF Trades!EvidenceAssumption
<1> QED
  BY <1>1, <1>3, <1>4, <1>9, <1>10, <1>12, <1>14, <1>15, QuietStep

\* What a step that fills is made of.
FillMade(i, p, risk, a, f, t) ==
  LET state == entries[Len(entries)].state
      costs == risk.facts.costs
  IN /\ risk = Trades!RiskAt(i, p) /\ costs.price.price > 0 /\ risk.failed = {}
     /\ a = Trades!Made(i, "fill", Trades!EndReason(risk.facts.remaining - costs.quantity),
                        costs.price.event, risk)
     /\ f = Trades!FillOf(a, Len(attempts[i]) + 1)
     /\ Trades!Settles(OrderOf[i], state, costs) /\ t = Trades!Settled(OrderOf[i], state, costs)

LEMMA FillFacts ==
  ASSUME Trades!EvidenceAssumption, TradeInv, NEW i, Trades!Working(i), Trades!Current(i),
         NEW p \in Price, NEW risk, NEW a, NEW f, NEW t, FillMade(i, p, risk, a, f, t),
         NEW s, s = entries[Len(entries)].state
  PROVE  /\ a \in Trades!AttemptRecord /\ a.result = "fill" /\ a.risk = risk
         /\ a.post = Len(prices) + 1 /\ a.event = Trades!Event(Len(prices) + 1, p)
         /\ f \in Trades!FillRecord /\ f.attempt = a /\ f.costs = risk.facts.costs
         /\ f.costs.quantity > 0 /\ f.costs.quantity = risk.facts.candidate
         /\ RightAfter(Trades!History(i), a)
         /\ RiskFor(risk, i, p) /\ risk.facts.candidate \in 1..risk.facts.remaining
         /\ s \in TradeState /\ t \in TradeState /\ Leaves(s, OrderOf[i], f.costs, t)
         /\ OrderOf[i].side # "buy" => f.costs.quantity <= s.positions[Here].quantity
<1>1. PICK h, n, facts, costs, event, left, reason :
        /\ h = Trades!History(i) /\ n = Len(prices) /\ facts = risk.facts /\ costs = facts.costs
        /\ event = costs.price.event /\ left = facts.remaining - costs.quantity
        /\ reason = Trades!EndReason(left)
  OBVIOUS
<1>2. /\ risk = Trades!RiskAt(i, p) /\ costs.price.price > 0 /\ risk.failed = {}
      /\ a = Trades!Made(i, "fill", reason, event, risk)
      /\ f = Trades!FillOf(a, Len(attempts[i]) + 1)
      /\ Trades!Settles(OrderOf[i], s, costs) /\ t = Trades!Settled(OrderOf[i], s, costs)
  BY <1>1 DEF FillMade
<1>3. /\ i \in Trades!Placed /\ i \in Intent /\ ~Trades!IsTerminal(h) /\ Trades!Position(h) = n
      /\ Trades!Now(h).remaining \in Nat /\ Trades!Now(h).remaining > 0
      /\ OrderOf[i] \in Trades!Asked /\ Len(attempts[i]) \in Nat /\ h.attempts = attempts[i]
  BY <1>1, StepFacts
<1>4. n \in Nat \ {0} /\ s \in TradeState
  BY <1>1, TypeFacts DEF TradeInv
<1>5. a.risk = risk /\ a.event = event
  BY <1>2 DEF Trades!Made
<1>6. /\ risk \in Trades!RiskRecord /\ risk # None /\ RiskFor(risk, i, p)
      /\ event = Trades!Event(n + 1, p) /\ event \in Trades!EventRecord /\ event # None
      /\ facts.remaining = Trades!Now(h).remaining
      /\ facts.candidate \in 1..facts.remaining
      /\ Trades!RevalidationHolds(risk) /\ Trades!RiskFollows(h, Len(h.attempts) + 1, a)
  <2>1. h = Trades!History(i)
    BY <1>1
  <2>2. /\ risk = Trades!RiskAt(i, p) /\ risk.facts.costs.price.price > 0 /\ a.risk = risk
        /\ a.event = risk.facts.costs.price.event
    BY <1>1, <1>2, <1>5
  <2>3. /\ risk \in Trades!RiskRecord /\ risk # None /\ RiskFor(risk, i, p)
        /\ a.event = Trades!Event(Len(prices) + 1, p) /\ a.event \in Trades!EventRecord /\ a.event # None
        /\ risk.facts.remaining = Trades!Now(h).remaining
        /\ risk.facts.candidate \in 1..risk.facts.remaining
        /\ Trades!RevalidationHolds(risk) /\ Trades!RiskFollows(h, Len(h.attempts) + 1, a)
    BY <2>1, <2>2, RiskOfTrade
  <2> QED
    BY <1>1, <1>5, <2>3
<1>7. a = [pre |-> n, post |-> n + 1, result |-> "fill", reason |-> reason,
           event |-> event, risk |-> risk]
  BY <1>1, <1>2, <1>6 DEF Trades!Made
<1>8. reason = IF n + 1 = Len(Stream) /\ left > 0 THEN "replay_exhausted" ELSE "none"
  BY <1>1 DEF Trades!EndReason
<1>9. a \in Trades!AttemptRecord
  BY <1>4, <1>6, <1>7, <1>8 DEF Trades!AttemptRecord
<1>10. costs.quantity = facts.candidate
  BY <1>1, <1>6 DEF RiskFor
<1>11. costs \in Trades!CostRecord
  BY <1>1, <1>6 DEF Trades!RiskRecord
<1>12. f = [version |-> Len(attempts[i]) + 1, attempt |-> a, costs |-> costs]
  BY <1>1, <1>2, <1>5, Zenon DEF Trades!FillOf
<1>13. f \in Trades!FillRecord
  BY <1>3, <1>9, <1>11, <1>12 DEF Trades!FillRecord
<1>14. costs.quantity \in Nat /\ costs.quantity > 0 /\ left \in Nat
  <2>1. PICK q, k : q = facts.remaining /\ k = facts.candidate
    OBVIOUS
  <2>2. q \in Nat /\ k \in 1..q
    BY <1>3, <1>6, <2>1
  <2>3. k \in Nat /\ k > 0 /\ q - k \in Nat
    BY <2>2
  <2> QED
    BY <1>1, <1>10, <2>1, <2>3
<1>15. Trades!WellFormed(a)
  <2>1. /\ a.result = "fill" /\ a.post = a.pre + 1 /\ a.event # None /\ a.risk # None
        /\ a.reason \in {"none", "replay_exhausted"} /\ a.risk.failed = {}
    BY <1>2, <1>6, <1>7, <1>8
  <2> QED
    BY <2>1 DEF Trades!WellFormed
<1>16. RightAfter(h, a)
  <2>1. Filling(a) = costs.quantity
    BY <1>1, <1>7 DEF Filling
  <2>2. Trades!Now(h).remaining - Filling(a) = left
    BY <1>1, <1>6, <2>1
  <2>3. left = 0 => a.reason = "none"
    BY <1>7, <1>8
  <2>4. a.result = "fill" /\ a.post = Len(Stream) /\ left > 0 => a.reason = "replay_exhausted"
    BY <1>7, <1>8
  <2>5. left >= 0 /\ a.pre = n
    BY <1>7, <1>14
  <2> QED
    BY <1>3, <1>5, <1>6, <1>15, <2>2, <2>3, <2>4, <2>5 DEF RightAfter
<1>17. OrderOf[i].side \in Trades!Side
  BY <1>3, AskedFacts
<1>18. /\ t \in TradeState /\ Leaves(s, OrderOf[i], costs, t)
       /\ OrderOf[i].side # "buy" => costs.quantity <= s.positions[Here].quantity
  BY <1>2, <1>4, <1>11, <1>14, <1>17, SettledKeeps
<1> QED
  BY <1>1, <1>4, <1>5, <1>6, <1>7, <1>9, <1>10, <1>12, <1>13, <1>14, <1>16, <1>18

\* The link of the fill reconciles with the account event that settles it.
LEMMA FillLinks ==
  ASSUME Trades!EvidenceAssumption, TradeInv, NEW i, Trades!Working(i), Trades!Current(i),
         NEW p \in Price, NEW risk, NEW a, NEW f, NEW t, FillMade(i, p, risk, a, f, t),
         Attempting(i, a), entries' = Append(entries, Trades!Entry(f, t)),
         NEW h, h = Trades!History(i), NEW g, g = Trades!History(i)'
  PROVE  Trades!LinkReconciles(g, Len(h.links) + 1)'
<1>1. PICK n, k, s, o, facts, l :
        /\ n = Len(entries) /\ k = Len(h.links) /\ s = entries[n].state /\ o = OrderOf[i] /\ facts = risk.facts
        /\ l = Trades!Link(f, n + 1)
  OBVIOUS
<1>2. /\ a \in Trades!AttemptRecord /\ a.result = "fill" /\ a.risk = risk
      /\ f \in Trades!FillRecord /\ f.attempt = a /\ f.costs = facts.costs /\ RiskFor(risk, i, p)
      /\ t \in TradeState
  BY <1>1, FillFacts
<1>3. /\ i \in Trades!Placed /\ i \in Intent /\ Trades!Loads(h) /\ Trades!AccountVersion(h) = n
      /\ h.order.intent = i /\ h.attempts = attempts[i] /\ h.fills = fills[i] /\ h.links = links[i]
  BY <1>1, StepFacts
<1>4. f = Trades!FillOf(a, Len(h.attempts) + 1)
  BY <1>3 DEF FillMade
<1>5. /\ g.order = h.order /\ g.links = Append(h.links, l) /\ g.fills = Append(h.fills, f)
  <2>1. OneMore(h, g, a) /\ g.order = h.order
        /\ g.links = Append(h.links, Trades!Link(Trades!FillOf(a, Len(h.attempts) + 1), Len(entries) + 1))
    <3>1. i \in Trades!Placed /\ a \in Trades!AttemptRecord /\ a.result = "fill"
      BY <1>2, <1>3
    <3> QED
      BY <3>1, StepIsOneMore
  <2>2. g.fills = Append(h.fills, f)
    BY <1>2, <1>4, <2>1 DEF OneMore
  <2> QED
    BY <1>1, <1>4, <2>1, <2>2
<1>6. k \in Nat /\ Len(h.fills) = k /\ h.fills \in Seq(Trades!FillRecord) /\ h.links \in Seq(LinkRecord)
  <2>1. h.fills \in Seq(Trades!FillRecord) /\ h.links \in Seq(LinkRecord)
    BY <1>3 DEF TradeInv, TradeTypes
  <2>2. Len(h.links) = Len(h.fills)
    BY <1>3 DEF Trades!Loads
  <2> QED
    BY <1>1, <2>1, <2>2
<1>7. /\ g.links[k + 1] = l /\ g.fills[k + 1] = f /\ \A m \in 1..k : g.links[m] = h.links[m]
  BY <1>1, <1>5, <1>6
<1>8. l.fill = f /\ l.version = n + 1
  BY <1>1 DEF Trades!Link
<1>9. n \in Nat \ {0} /\ Len(entries') = n + 1 /\ entries'[n] = entries[n]
      /\ entries'[n + 1] = Trades!Entry(f, t)
  <2>1. entries \in Seq(EntryRecord) /\ n \in Nat \ {0}
    BY <1>1, TypeFacts DEF TradeInv, TradeTypes
  <2>2. Trades!Entry(f, t) \in EntryRecord
    BY <1>2 DEF Trades!Entry, EntryRecord
  <2> QED
    BY <1>1, <2>1, <2>2
<1>10. l.version = 1 + (IF k + 1 = 1 THEN g.order.account.version ELSE g.links[(k + 1) - 1].version)
  <2>1. CASE k = 0
    <3>1. h.links = <<>>
      <4>1. \A x \in Seq(LinkRecord) : Len(x) = 0 => x = <<>>
        OBVIOUS
      <4> QED
        BY <1>1, <1>6, <2>1, <4>1
    <3> QED
      BY <1>3, <1>5, <1>8, <1>9, <2>1, <3>1 DEF Trades!AccountVersion
  <2>2. CASE k # 0
    <3>1. h.links # <<>> /\ k \in 1..k /\ (k + 1) - 1 = k /\ k + 1 # 1
      BY <1>1, <1>6, <2>2
    <3>2. h.links[k].version = n
      BY <1>1, <1>3, <3>1 DEF Trades!AccountVersion, Trades!Last
    <3> QED
      BY <1>7, <1>8, <1>9, <3>1, <3>2
  <2> QED
    BY <2>1, <2>2
<1>11. l.version \in 2..Len(entries') /\ l.version - 1 = n
  BY <1>8, <1>9
<1>12. facts.head = n /\ facts.cash = s.cash /\ facts.held = Trades!Held(s)
  BY <1>1, <1>2 DEF RiskFor
<1>13. Trades!Settles(o, s, f.costs) /\ t = Trades!Settled(o, s, f.costs)
  BY <1>1, <1>2, Zenon DEF FillMade
<1>14. entries'[n].state = s
  BY <1>1, <1>9
<1>15. OrderOf[g.order.intent] = o /\ f.attempt.risk.facts = facts
  BY <1>1, <1>2, <1>3, <1>5
<1>16. entries'[l.version - 1].state = s /\ entries'[l.version] = Trades!Entry(f, t)
  BY <1>8, <1>9, <1>11, <1>14
<1>17. facts.head = l.version - 1
  BY <1>11, <1>12
<1>18. PICK j : j = k + 1
  OBVIOUS
<1>19. /\ g.links[j] = l /\ g.fills[j] = f
       /\ l.version = 1 + (IF j = 1 THEN g.order.account.version ELSE g.links[j - 1].version)
  BY <1>7, <1>10, <1>18
<1>20. Trades!LinkReconciles(g, j)'
  BY <1>8, <1>11, <1>12, <1>13, <1>15, <1>16, <1>17, <1>19 DEF Trades!LinkReconciles
<1> QED
  BY <1>1, <1>18, <1>20

\* A fill stays within what its order was asked and allowed.
LEMMA FillLimits ==
  ASSUME Trades!EvidenceAssumption, TradeInv, NEW i, Trades!Working(i), Trades!Current(i),
         NEW p \in Price, NEW risk, NEW a, NEW f, NEW t, FillMade(i, p, risk, a, f, t),
         fills' = [fills EXCEPT ![i] = Append(@, f)], Trades!Placed' = Trades!Placed
  PROVE  Trades!StaysWithinLimits'
<1>1. PICK facts, costs, o, rows, more :
        /\ facts = risk.facts /\ costs = facts.costs /\ o = OrderOf[i]
        /\ rows = fills[i] /\ more = fills'[i]
  OBVIOUS
<1>2. /\ f \in Trades!FillRecord /\ f.costs = costs /\ RiskFor(risk, i, p)
      /\ facts.candidate \in 1..facts.remaining
  BY <1>1, FillFacts
<1>3. /\ i \in Trades!Placed /\ i \in Intent /\ o \in Trades!Asked /\ Trades!Loads(Trades!History(i))
  BY <1>1, StepFacts
<1>4. rows \in Seq(Trades!FillRecord) /\ more = Append(rows, f)
  BY <1>1, <1>3 DEF TradeInv, TradeTypes
<1>5. /\ facts.remaining = o.quantity - Trades!FilledOf(rows)
      /\ facts.cumulative = Trades!GrossOf(rows) /\ facts.maxNotional = o.maxNotional
      /\ facts.candidate = Trades!Candidate(o, facts.remaining)
      /\ costs.quantity = facts.candidate
      /\ costs.gross = Trades!Gross(costs.price.price, facts.candidate)
      /\ risk = Trades!Revalidation(facts)
  BY <1>1, <1>2 DEF RiskFor
<1>6. "quantity" \in Sums /\ "gross" \in Sums
  BY DEF Sums
<1>7. /\ Trades!FilledOf(rows) \in Nat /\ Trades!GrossOf(rows) \in Nat
      /\ Trades!FilledOf(more) = Trades!FilledOf(rows) + costs.quantity
      /\ Trades!GrossOf(more) = Trades!GrossOf(rows) + costs.gross
  <2>1. /\ Trades!Total(rows, "quantity") \in Nat /\ Trades!Total(rows, "gross") \in Nat
    BY <1>4, <1>6, RowSums
  <2>2. /\ Trades!Total(more, "quantity") = Trades!Total(rows, "quantity") + costs.quantity
        /\ Trades!Total(more, "gross") = Trades!Total(rows, "gross") + costs.gross
    BY <1>2, <1>4, <1>6, RowMore
  <2> QED
    BY <2>1, <2>2 DEF Trades!FilledOf, Trades!GrossOf
<1>8. PICK x, y, q, k, r, c, d :
        /\ x = Trades!FilledOf(rows) /\ y = Trades!GrossOf(rows) /\ q = o.quantity
        /\ k = facts.candidate /\ r = facts.remaining /\ c = costs.gross
        /\ d = Trades!Gross(costs.price.price, r)
  OBVIOUS
<1>9. x \in Nat /\ y \in Nat /\ q \in Nat /\ r = q - x /\ k \in 1..r
  BY <1>1, <1>2, <1>3, <1>5, <1>7, <1>8, AskedFacts
<1>10. k \in Nat /\ r \in Nat /\ k <= r /\ x + k <= q /\ r > 0
  BY <1>9
<1>11. c \in Nat /\ d \in Nat /\ c <= d
  <2>1. costs.price.price \in Nat
    <3>1. costs \in Trades!CostRecord
      BY <1>2 DEF Trades!FillRecord
    <3>2. costs.price \in Trades!PriceRecord
      BY <3>1 DEF Trades!CostRecord
    <3> QED
      BY <3>2 DEF Trades!PriceRecord
  <2>2. PICK u : u = costs.price.price
    OBVIOUS
  <2>3. Trades!Gross(u, k) \in Nat /\ Trades!Gross(u, r) \in Nat /\ Trades!Gross(u, k) <= Trades!Gross(u, r)
    BY <1>10, <2>1, <2>2, GrossType
  <2>4. c = Trades!Gross(u, k) /\ d = Trades!Gross(u, r)
    BY <1>5, <1>8, <2>2
  <2> QED
    BY <2>3, <2>4
<1>12. Trades!Within(y + d, o.maxNotional)
  <2>1. risk.failed = {}
    BY DEF FillMade
  <2>2. Trades!FailedRules(facts) = {}
    BY <1>5, <2>1 DEF Trades!Revalidation
  <2>3. Trades!NotionalPasses(facts)
    BY <2>2, PassedRules
  <2> QED
    BY <1>1, <1>5, <1>8, <2>3 DEF Trades!NotionalPasses
<1>13. Trades!Within(y + c, o.maxNotional)
  <2>1. o.maxNotional \in Trades!Limit
    BY <1>3, AskedFacts
  <2>2. y + c <= y + d /\ y + c \in Nat /\ y + d \in Nat
    BY <1>9, <1>11
  <2> QED
    BY <1>12, <2>1, <2>2 DEF Trades!Within, Trades!Limit
<1>14. Trades!Within(costs.quantity, o.policy.cap)
  BY <1>3, <1>5, <1>8, <1>10, CandidateIs
<1>15. ASSUME NEW j \in Trades!Placed
       PROVE  /\ Trades!FilledOf(fills[j]) <= OrderOf[j].quantity
              /\ Trades!Within(Trades!GrossOf(fills[j]), OrderOf[j].maxNotional)
              /\ \A n \in 1..Len(fills[j]) : Trades!Within(fills[j][n].costs.quantity, OrderOf[j].policy.cap)
  BY DEF TradeInv, Trades!StaysWithinLimits
<1>16. /\ Trades!FilledOf(more) <= o.quantity
       /\ Trades!Within(Trades!GrossOf(more), o.maxNotional)
       /\ \A n \in 1..Len(more) : Trades!Within(more[n].costs.quantity, o.policy.cap)
  <2>1. Trades!FilledOf(more) <= o.quantity
    BY <1>5, <1>7, <1>8, <1>10
  <2>2. Trades!Within(Trades!GrossOf(more), o.maxNotional)
    BY <1>7, <1>8, <1>13
  <2>3. ASSUME NEW n \in 1..Len(more) PROVE Trades!Within(more[n].costs.quantity, o.policy.cap)
    <3>1. \/ n \in 1..Len(rows) /\ more[n] = rows[n]
          \/ more[n] = f
      BY <1>2, <1>4
    <3>2. \A z \in 1..Len(rows) : Trades!Within(rows[z].costs.quantity, o.policy.cap)
      BY <1>1, <1>3, <1>15
    <3> QED
      BY <1>2, <1>14, <3>1, <3>2
  <2> QED
    BY <2>1, <2>2, <2>3
<1>17. ASSUME NEW j \in Trades!Placed
       PROVE  /\ Trades!FilledOf(fills'[j]) <= OrderOf[j].quantity
              /\ Trades!Within(Trades!GrossOf(fills'[j]), OrderOf[j].maxNotional)
              /\ \A n \in 1..Len(fills'[j]) : Trades!Within(fills'[j][n].costs.quantity, OrderOf[j].policy.cap)
  <2>1. CASE j = i
    BY <1>1, <1>16, <2>1
  <2>2. CASE j # i
    <3>1. fills'[j] = fills[j]
      <4>1. j \in Intent
        BY HistoryIs DEF TradeInv
      <4> QED
        BY <2>2, <4>1 DEF TradeInv, TradeTypes
    <3> QED
      BY <1>15, <3>1
  <2> QED
    BY <2>1, <2>2
<1> QED
  BY <1>17 DEF Trades!StaysWithinLimits

LEMMA FillKeeps ==
  ASSUME Trades!EvidenceAssumption, TradeInv, NEW i, Trades!Working(i), Trades!Current(i),
         NEW p \in Price, NEW risk, risk = Trades!RiskAt(i, p), risk.facts.costs.price.price > 0,
         prices' = Append(prices, p), Trades!StepFill(i, risk), decisions' = decisions, orders' = orders
  PROVE  TradeInv'
<1> USE DEF TradeInv
<1>1. PICK s, costs, a, f, t, h, g :
        /\ s = entries[Len(entries)].state /\ costs = risk.facts.costs
        /\ a = Trades!Made(i, "fill", Trades!EndReason(risk.facts.remaining - costs.quantity),
                           costs.price.event, risk)
        /\ f = Trades!FillOf(a, Len(attempts[i]) + 1) /\ t = Trades!Settled(OrderOf[i], s, costs)
        /\ h = Trades!History(i) /\ g = Trades!History(i)'
  OBVIOUS
<1>2. /\ risk.failed = {} /\ Trades!Settles(OrderOf[i], s, costs)
      /\ attempts' = [attempts EXCEPT ![i] = Append(@, a)] /\ fills' = [fills EXCEPT ![i] = Append(@, f)]
      /\ entries' = Append(entries, Trades!Entry(f, t))
      /\ links' = [links EXCEPT ![i] = Append(@, Trades!Link(f, Len(entries) + 1))]
  BY <1>1, Zenon DEF Trades!StepFill
<1>3. FillMade(i, p, risk, a, f, t)
  BY <1>1, <1>2, Zenon DEF FillMade
<1>4. /\ a \in Trades!AttemptRecord /\ a.result = "fill"
      /\ a.post = Len(prices) + 1 /\ a.event = Trades!Event(Len(prices) + 1, p)
      /\ f \in Trades!FillRecord /\ f.costs = costs /\ f.costs.quantity > 0
      /\ RightAfter(h, a) /\ s \in TradeState /\ t \in TradeState /\ Leaves(s, OrderOf[i], f.costs, t)
      /\ OrderOf[i].side # "buy" => f.costs.quantity <= s.positions[Here].quantity
  <2>0. s = entries[Len(entries)].state
    BY <1>1
  <2>1. /\ a \in Trades!AttemptRecord /\ a.result = "fill"
        /\ a.post = Len(prices) + 1 /\ a.event = Trades!Event(Len(prices) + 1, p)
    BY <1>3, <2>0, FillFacts
  <2>2. /\ f \in Trades!FillRecord /\ f.costs = risk.facts.costs /\ f.costs.quantity > 0
        /\ RightAfter(Trades!History(i), a) /\ t \in TradeState
    BY <1>3, <2>0, FillFacts
  <2>3. s \in TradeState /\ Leaves(s, OrderOf[i], f.costs, t)
        /\ (OrderOf[i].side # "buy" => f.costs.quantity <= s.positions[Here].quantity)
    BY <1>3, <2>0, FillFacts
  <2> QED
    BY <1>1, <2>1, <2>2, <2>3, Zenon
<1>5. i \in Trades!Placed /\ OrderOf[i] \in Trades!Asked
  BY <1>1, StepFacts
<1>6. Attempting(i, a)
  BY <1>1, <1>2, <1>4, Zenon DEF Attempting
<1>7. BothGrow
  BY <1>2, Growing
<1>8. prices' \in Seq(Nat \union {None}) /\ prices' # <<>> /\ Len(prices') = Len(prices) + 1
      /\ prices'[Len(prices) + 1] = p /\ Len(prices) + 1 \in 1..Len(prices')
  <2>1. p \in Nat \union {None} /\ prices \in Seq(Nat \union {None}) /\ Len(prices) \in Nat
    BY DEF Trades!EvidenceAssumption, TradeTypes
  <2>2. prices' \in Seq(Nat \union {None}) /\ prices' # <<>>
    BY <2>1, MoreOf
  <2> QED
    BY <2>1, <2>2
<1>9. entries' \in Seq(EntryRecord) /\ entries' # <<>>
  <2>1. Trades!Entry(f, t) \in EntryRecord
    BY <1>4 DEF Trades!Entry, EntryRecord
  <2> QED
    BY <1>2, <2>1, MoreOf DEF TradeTypes
<1>10. /\ TradeTypes' /\ OneOrderEach' /\ RowsOfOrders' /\ EventsAreThere'
       /\ Trades!Placed' = Trades!Placed
  BY <1>4, <1>5, <1>6, <1>7, <1>8, <1>9, StepRows
<1>11. Trades!HistoriesLoad'
  <2>1. Trades!LinkReconciles(g, Len(h.links) + 1)'
    BY <1>1, <1>2, <1>3, <1>6, FillLinks, Zenon
  <2>2. a.event = Trades!Event(a.post, prices'[a.post])
    BY <1>4, <1>8
  <2>3. /\ i \in Trades!Placed /\ a \in Trades!AttemptRecord /\ Attempting(i, a) /\ BothGrow
        /\ h = Trades!History(i) /\ g = Trades!History(i)' /\ RightAfter(h, a)
        /\ Trades!Placed' = Trades!Placed
    BY <1>1, <1>4, <1>5, <1>6, <1>7, <1>10, Zenon
  <2> QED
    BY ONLY Trades!EvidenceAssumption, TradeInv, <2>1, <2>2, <2>3, StepKeepsHistories, Zenon
<1>12. Trades!StaysWithinLimits'
  BY <1>2, <1>3, <1>10, FillLimits
<1>13. Trades!TradesAddUp'
  <2>1. AddUp
    BY AddUpIs
  <2>2. OrderOf[i].side \in Trades!Side /\ None \notin Trades!FillRecord
    BY <1>5, AskedFacts DEF Trades!EvidenceAssumption
  <2>3. AddUp'
    BY <1>1, <1>2, <1>4, <1>5, <2>1, <2>2, AddUpFills, Zenon
  <2>4. AddUp' <=> Trades!TradesAddUp'
    BY AddUpIs, PTL
  <2> QED
    BY <2>3, <2>4
<1> QED
  BY <1>10, <1>11, <1>12, <1>13

-----------------------------------------------------------------------------
(* Theorems about trades *)

\* The invariant holds, whatever happens.
LEMMA TradesHold ==
  ASSUME Trades!EvidenceAssumption PROVE Trades!Spec => []TradeInv
<1>1. Trades!Init => TradeInv
  BY TradeStart
<1>2. TradeInv /\ [Trades!Next]_(Trades!vars) => TradeInv'
  <2>1. SUFFICES ASSUME TradeInv, [Trades!Next]_(Trades!vars) PROVE TradeInv'
    OBVIOUS
  <2>2. ASSUME NEW i \in Intent, Trades!Decide(i) PROVE TradeInv'
    BY <2>1, <2>2, DecideKeeps
  <2>3. ASSUME NEW i \in Intent, Trades!CreateOrder(i) PROVE TradeInv'
    BY <2>1, <2>3, OrderCreateKeeps
  <2>4. ASSUME NEW i \in Intent, Trades!StepOrder(i) PROVE TradeInv'
    <3>1. /\ Trades!Working(i) /\ Trades!Current(i) /\ decisions' = decisions /\ orders' = orders
          /\ Trades!StepAtBoundary(i) \/ Trades!StepNoFill(i) \/ \E p \in Price : Trades!StepTrade(i, p)
      BY <2>4 DEF Trades!StepOrder
    <3>2. CASE Trades!StepAtBoundary(i)
      BY <2>1, <3>1, <3>2, BoundaryKeeps
    <3>3. CASE Trades!StepNoFill(i)
      BY <2>1, <3>1, <3>3, NoFillKeeps
    <3>4. ASSUME NEW p \in Price, Trades!StepTrade(i, p) PROVE TradeInv'
      <4>1. PICK risk : risk = Trades!RiskAt(i, p)
        OBVIOUS
      <4>2. /\ prices' = Append(prices, p) /\ risk.facts.costs.price.price > 0
            /\ Trades!StepRejected(i, risk) \/ Trades!StepFill(i, risk)
        BY <3>4, <4>1 DEF Trades!StepTrade
      <4>3. CASE Trades!StepRejected(i, risk)
        BY <2>1, <3>1, <4>1, <4>2, <4>3, RejectedKeeps
      <4>4. CASE Trades!StepFill(i, risk)
        BY <2>1, <3>1, <4>1, <4>2, <4>4, FillKeeps
      <4> QED
        BY <4>2, <4>3, <4>4
    <3> QED
      BY <3>1, <3>2, <3>3, <3>4
  <2>5. CASE Trades!AccountMoves
    BY <2>1, <2>5, MovesKeep
  <2>6. CASE UNCHANGED Trades!vars
    <3>1. /\ prices' = prices /\ entries' = entries /\ decisions' = decisions /\ orders' = orders
          /\ attempts' = attempts /\ fills' = fills /\ links' = links
      BY <2>6 DEF Trades!vars
    <3>2. BothGrow
      BY <2>1, <3>1, Growing DEF TradeInv
    <3>3. Trades!Placed' = Trades!Placed
      BY <3>1 DEF Trades!Placed
    <3>4. ASSUME NEW j \in Trades!Placed PROVE Trades!Loads(Trades!History(j))'
      <4>1. decisions'[j] = decisions[j] /\ Trades!History(j)' = Trades!History(j)
        BY <3>1, RowsStay
      <4> QED
        BY <2>1, <3>2, <4>1, LoadsAgain
    <3>5. Trades!HistoriesLoad'
      BY <3>3, <3>4 DEF Trades!HistoriesLoad
    <3>6. Trades!StaysWithinLimits' /\ Trades!TradesAddUp'
      BY <2>1, <3>1, SumsStay
    <3>7. TradeTypes' /\ OneOrderEach' /\ RowsOfOrders' /\ EventsAreThere'
      BY <2>1, <3>1, <3>3 DEF TradeInv, TradeTypes, OneOrderEach, RowsOfOrders, EventsAreThere
    <3> QED
      BY <3>5, <3>6, <3>7 DEF TradeInv
  <2> QED
    BY <2>1, <2>2, <2>3, <2>4, <2>5, <2>6 DEF Trades!Next
<1> QED
  BY <1>1, <1>2, PTL DEF Trades!Spec

\* Rows whose trade met another price do not load: the replay has the price.
LEMMA OtherPrice ==
  ASSUME Trades!EvidenceAssumption, TradeInv, NEW i \in Trades!Placed, NEW h, h = Trades!History(i),
         NEW v \in 1..Len(h.attempts), h.attempts[v].result = "fill",
         NEW p \in Price, p # h.attempts[v].event.price
  PROVE  ~Trades!Loads(Trades!AtPrice(h, v, p))
<1>1. PICK a, g : a = h.attempts[v] /\ g = Trades!AtPrice(h, v, p)
  OBVIOUS
<1>2. h.attempts = attempts[i] /\ attempts[i] \in Seq(Trades!AttemptRecord)
      /\ h = [order |-> h.order, attempts |-> h.attempts, fills |-> h.fills, links |-> h.links]
  BY HistoryIs DEF TradeInv, Trades!History
<1>3. Trades!Loads(h)
  BY DEF TradeInv, Trades!HistoriesLoad
<1>4. a \in Trades!AttemptRecord /\ Trades!AttemptValid(h, v)
  BY <1>1, <1>2, <1>3 DEF Trades!Loads
<1>5. a.event # None /\ a.event = Trades!EventReference(a.post)
  BY <1>1, <1>4 DEF Trades!AttemptValid, Trades!WellFormed
<1>6. a.event \in Trades!EventRecord /\ a.event.price = prices[a.post]
  BY <1>4, <1>5 DEF Trades!AttemptRecord, Trades!EventReference, Trades!Event
<1>7. PICK b : g.attempts = [h.attempts EXCEPT ![v] = b] /\ b.post = a.post
               /\ b.event = [a.event EXCEPT !.price = p]
  <2>1. PICK c : c = Trades!Revalidation([a.risk.facts EXCEPT !.costs =
                   Trades!Costs(Trades!PriceEvidence([a.event EXCEPT !.price = p], OrderOf[h.order.intent].side,
                                                     p, OrderOf[h.order.intent].policy.slip),
                                a.risk.facts.candidate, Trades!Rates(OrderOf[h.order.intent]))])
    OBVIOUS
  <2>2. PICK b : b = [a EXCEPT !.event.price = p, !.risk = c]
    OBVIOUS
  <2>3. g.attempts = [h.attempts EXCEPT ![v] = b]
    BY <1>1, <1>2, <2>1, <2>2, Zenon DEF Trades!AtPrice
  <2>4. b.post = a.post /\ b.event = [a.event EXCEPT !.price = p]
    BY <1>4, <2>2 DEF Trades!AttemptRecord
  <2> QED
    BY <2>3, <2>4
<1>8. b.event \in Trades!EventRecord /\ b.event.price = p
  <2>1. p \in Nat
    BY DEF Trades!EvidenceAssumption
  <2> QED
    BY <1>6, <1>7, <2>1 DEF Trades!EventRecord
<1>9. b.event # None
  BY <1>8 DEF Trades!EvidenceAssumption
<1>10. v \in 1..Len(g.attempts) /\ g.attempts[v] = b
  <2>1. v \in DOMAIN h.attempts /\ DOMAIN h.attempts = 1..Len(h.attempts) /\ Len(h.attempts) \in Nat
    BY <1>2
  <2>2. DOMAIN g.attempts = 1..Len(h.attempts)
    BY <1>7, <2>1
  <2>3. Len(g.attempts) = Len(h.attempts)
    BY <2>1, <2>2
  <2> QED
    BY <1>7, <2>1, <2>3
<1>11. ASSUME Trades!Loads(g) PROVE FALSE
  <2>1. Trades!AttemptValid(g, v)
    BY <1>10, <1>11 DEF Trades!Loads
  <2>2. b.event = Trades!Event(b.post, prices[b.post])
    BY <1>9, <1>10, <2>1 DEF Trades!AttemptValid, Trades!EventReference
  <2>3. b.event.price = prices[a.post]
    BY <1>7, <2>2 DEF Trades!Event
  <2> QED
    BY <1>1, <1>6, <1>8, <2>3
<1> QED
  BY <1>1, <1>11

\* A row less is a row less.
LEMMA OneLess ==
  ASSUME NEW S, NEW s \in Seq(S), NEW n \in 1..Len(s)
  PROVE  Len(Trades!RemoveAt(s, n)) # Len(s)
<1>1. PICK x, y : x = SubSeq(s, 1, n - 1) /\ y = SubSeq(s, n + 1, Len(s))
  OBVIOUS
<1>2. x \in Seq(S) /\ Len(x) = n - 1
  BY <1>1
<1>3. y \in Seq(S) /\ Len(y) = Len(s) - n
  BY <1>1
<1>4. Len(x \o y) = Len(s) - 1
  BY <1>2, <1>3
<1>5. Trades!RemoveAt(s, n) = x \o y
  BY <1>1 DEF Trades!RemoveAt
<1> QED
  BY <1>4, <1>5

\* Rows that do not belong together do not load.
LEMMA WrongRows ==
  ASSUME Trades!EvidenceAssumption, TradeInv PROVE Trades!WrongRowsAreNoticed
<1>1. SUFFICES ASSUME NEW i \in Trades!Placed, NEW h, h = Trades!History(i)
               PROVE  /\ \A v \in 1..Len(h.attempts) : h.attempts[v].result = "fill" =>
                           \A p \in Price \ {h.attempts[v].event.price} :
                             ~Trades!Loads(Trades!AtPrice(h, v, p))
                      /\ \A n \in 1..Len(h.fills) :
                           /\ ~Trades!Loads([h EXCEPT !.fills = Trades!RemoveAt(@, n)])
                           /\ ~Trades!Loads([h EXCEPT !.links = Trades!RemoveAt(@, n)])
  BY DEF Trades!WrongRowsAreNoticed
<1>2. /\ h.fills \in Seq(Trades!FillRecord) /\ h.links \in Seq(LinkRecord)
      /\ h = [order |-> h.order, attempts |-> h.attempts, fills |-> h.fills, links |-> h.links]
  BY <1>1, HistoryIs DEF TradeInv, Trades!History
<1>3. Len(h.links) = Len(h.fills)
  BY <1>1 DEF TradeInv, Trades!HistoriesLoad, Trades!Loads
<1>4. ASSUME NEW n \in 1..Len(h.fills)
      PROVE  /\ ~Trades!Loads([h EXCEPT !.fills = Trades!RemoveAt(@, n)])
             /\ ~Trades!Loads([h EXCEPT !.links = Trades!RemoveAt(@, n)])
  <2>1. PICK f, l : f = [h EXCEPT !.fills = Trades!RemoveAt(@, n)] /\ l = [h EXCEPT !.links = Trades!RemoveAt(@, n)]
    OBVIOUS
  <2>2. /\ Len(Trades!RemoveAt(h.fills, n)) # Len(h.fills)
        /\ Len(Trades!RemoveAt(h.links, n)) # Len(h.links)
    BY <1>2, <1>3, OneLess
  <2>3. f.links = h.links /\ f.fills = Trades!RemoveAt(h.fills, n)
    BY <1>2, <2>1
  <2>4. l.fills = h.fills /\ l.links = Trades!RemoveAt(h.links, n)
    BY <1>2, <2>1
  <2>5. ~Trades!Loads(f)
    BY <1>3, <2>2, <2>3 DEF Trades!Loads
  <2>6. ~Trades!Loads(l)
    BY <1>3, <2>2, <2>4 DEF Trades!Loads
  <2> QED
    BY <2>1, <2>5, <2>6
<1> QED
  BY <1>1, <1>4, OtherPrice

\* What the revalidation of the risk allows of an order on the account that it was
\* evaluated on, the settlement of the account never refuses
\* (create_paper_execution_risk_revalidation, settle_paper_execution_fill): for any policy,
\* prices, limits and orders.
THEOREM EvidenceIsSettled ==
  ASSUME Trades!EvidenceAssumption PROVE Trades!Spec => []Trades!AllowedIsSettled
<1>1. TradeInv => Trades!AllowedIsSettled
  BY AllowedAreSettled
<1> QED
  BY <1>1, TradesHold, PTL

\* Cash, position and cost of the account are what it was opened with, what moved
\* otherwise, and what the evidence of the fills says; no order trades more than was
\* asked or allowed (step_paper_execution_order, whatever the rounding).
THEOREM EvidenceAddsUp ==
  ASSUME Trades!EvidenceAssumption PROVE Trades!Spec => []Trades!TradesAreRight
<1>1. TradeInv => Trades!TradesAreRight
  BY DEF TradeInv, Trades!TradesAreRight
<1> QED
  BY <1>1, TradesHold, PTL

\* load_historical_history accepts the rows of every order again, however much was
\* traded since, and never rows with a trade at another price or without a fill or link.
THEOREM EvidenceIsJudged ==
  ASSUME Trades!EvidenceAssumption PROVE Trades!Spec => []Trades!RowsAreJudged
<1>1. TradeInv => Trades!RowsAreJudged
  BY WrongRows DEF TradeInv, Trades!RowsAreJudged
<1> QED
  BY <1>1, TradesHold, PTL
============================================================================
