-------------------------- MODULE ExecutionEvidence --------------------------
(***************************************************************************)
(* The numbers and the evidence of paper execution (M34).  PaperExecution  *)
(* leaves money out; here an account trades one instrument on one replay,  *)
(* an order after the other, and every step derives a price, its costs, a  *)
(* revalidation of the risk, an attempt, a fill and its settlement, each   *)
(* kept with what it was derived from.  Whoever reads an order derives all *)
(* of it again.  A digest stands for the content it is taken of: what      *)
(* names a record by its digest holds the record.                          *)
(*                                                                         *)
(* Money is counted in quanta (1E-8), quantities in the unit of which      *)
(* Scale make a share, rates in parts of FullRate (10000 basis points).    *)
(***************************************************************************)
EXTENDS Integers, Sequences, FiniteSets, SequencesExt

CONSTANTS
  Intent,     \* what an order stands for: an intent and the execution policy for it
  OrderOf,    \* side, quantity, risk limits, execution policy and session of each
  Opening,    \* what the account may hold when it is opened: cash, quantity, cost
  Stream,     \* whether each event of the replay is a trade
  Price,      \* prices of trades
  Scale, FullRate,
  None,
  MaxOrders,  \* bound: orders
  MaxDecisions, \* bound: decisions
  MaxMoves    \* bound: account events that settle no order

Rate == 0..(FullRate - 1)

\* What an execution policy configures.
Policy == [slip : Rate, commission : Rate, fee : Rate, tax : [buy : Rate, sell : Rate],
           cap : (Nat \ {0}) \union {None}]

Side  == {"buy", "sell"}
Limit == (Nat \ {0}) \union {None}

\* What an order stands for asks and allows.
Asked == [side : Side, quantity : Nat \ {0}, maxQuantity : Limit, maxNotional : Limit,
          policy : Policy,
          close : Nat]  \* when the session closes; the n-th event happens at n

(* The records that are kept. *)
EventRecord == [position : Nat, price : Nat \union {None}]
PriceRecord == [event : EventRecord, side : Side, base : Nat, slip : Rate, price : Nat]
CostRecord  == [price : PriceRecord, quantity : Nat, gross : Nat,
                rates : [commission : Rate, fee : Rate, tax : Rate], charges : Nat]
Rule        == {"position", "quantity", "notional", "cash", "proceeds"}
RiskRecord  ==
  [facts : [version : Nat, head : Nat, cash : Nat, held : Nat, requested : Nat,
            maxQuantity : Limit, maxNotional : Limit,
            remaining : Nat, candidate : Nat, cumulative : Nat, costs : CostRecord],
   failed : SUBSET Rule]
AttemptRecord ==
  [pre : Nat, post : Nat, result : {"boundary_rejected", "no_fill", "risk_rejected", "fill"},
   reason : {"none", "session_exhausted", "replay_exhausted", "execution_risk_rejected"},
   event : EventRecord \union {None}, risk : RiskRecord \union {None}]
FillRecord  == [version : Nat, attempt : AttemptRecord, costs : CostRecord]
DecisionRecord ==
  [account : [version : Nat, status : {"active"}, cash : Nat, held : Nat],
   market : [position : Nat, event : Nat \union {None}, close : Nat], allowed : BOOLEAN]

\* What stands for the lack of a value is none itself.
EvidenceAssumption ==
  /\ Scale \in Nat \ {0} /\ FullRate \in Nat \ {0}
  /\ MaxOrders \in Nat /\ MaxDecisions \in Nat /\ MaxMoves \in Nat
  /\ Price \subseteq Nat \ {0}
  /\ \A i \in Intent : OrderOf[i] \in Asked
  /\ \A o \in Opening : /\ o.cash \in Nat /\ o.quantity \in Nat /\ o.cost \in Nat
                        /\ o.quantity = 0 => o.cost = 0
  /\ None \notin Nat \union EventRecord \union RiskRecord \union FillRecord \union DecisionRecord

VARIABLES
  events,    \* the replay up to its cursor: the price of each event, None unless a trade
  ledger,    \* the account's events: what each posts, and the state it leaves
  decisions, \* the risk decision on each intent, None before
  orders,    \* the orders, in the order of their creation
  attempts, fills, links   \* of each intent's order

vars == <<events, ledger, decisions, orders, attempts, fills, links>>

Instrument == "instrument"
M31 == INSTANCE PaperLedger WITH Symbol <- {Instrument}, Decision <- {}, Corrupt <- None

\* An event of the account: what it settles, None unless a fill, and what it leaves.
Entry(fill, state) == [fill |-> fill, state |-> state]

Init ==
  /\ events \in {<<p>> : p \in Price}
  /\ \E o \in Opening :
       ledger = <<Entry(None, [M31!Genesis EXCEPT
                                 !.status = "active", !.cash = o.cash,
                                 !.positions[Instrument] = [quantity |-> o.quantity, cost |-> o.cost]])>>
  /\ decisions = [i \in Intent |-> None] /\ orders = <<>>
  /\ attempts = [i \in Intent |-> <<>>] /\ fills = attempts /\ links = attempts

-----------------------------------------------------------------------------
(* Price, costs and risk *)

\* Round to a money quantum, half to even.
Rounded(n, d) == M31!HalfEven(n, d)

\* The price of a trade against the side of the order, by the slippage of its policy.
ExecutionPrice(side, base, slip) ==
  Rounded(base * (IF side = "buy" THEN FullRate + slip ELSE FullRate - slip), FullRate)

\* The event at a position of the replay; its price is None unless it is a trade.
Event(position, price) == [position |-> position, price |-> price]

\* What a price is derived from, and the price.
PriceEvidence(event, side, base, slip) ==
  [event |-> event, side |-> side, base |-> base, slip |-> slip,
   price |-> ExecutionPrice(side, base, slip)]

\* Evidence of a price is what its own base and slippage give; the price is positive.
PriceHolds(price) ==
  /\ price.base > 0 /\ price.price > 0
  /\ price = PriceEvidence(price.event, price.side, price.base, price.slip)

Gross(price, quantity) == Rounded(price * quantity, Scale)

\* Commission, fee and tax are each rounded on their own.
Costs(price, quantity, rates) ==
  LET gross == Gross(price.price, quantity)
      Part(rate) == Rounded(gross * rate, FullRate)
  IN [price |-> price, quantity |-> quantity, gross |-> gross, rates |-> rates,
      charges |-> Part(rates.commission) + Part(rates.fee) + Part(rates.tax)]

\* The rates that the policy has for the side of the order.
Rates(o) ==
  [commission |-> o.policy.commission, fee |-> o.policy.fee, tax |-> o.policy.tax[o.side]]

\* Evidence of costs is what its own price, quantity and rates give.
CostsHold(costs) ==
  PriceHolds(costs.price) /\ costs.quantity > 0
  /\ costs = Costs(costs.price, costs.quantity, costs.rates)

Within(n, limit) == limit # None => n <= limit

\* Mutant: what has been filled is not counted.
Ahead(r) == Within(Gross(r.costs.price.price, r.remaining), r.maxNotional)

\* What has been filled and what remains, at this price, is within the limit.
NotionalPasses(r) ==
  Within(r.cumulative + Gross(r.costs.price.price, r.remaining), r.maxNotional)

\* Mutant: the charges are left to the settlement.
CashCovers(r) == r.costs.price.side = "buy" => r.costs.gross <= r.cash

CashPasses(r) == r.costs.price.side = "buy" => r.costs.gross + r.costs.charges <= r.cash

\* The rules of the long-only cash policy that the facts of a revalidation fail.
FailedRules(r) ==
  LET selling == r.costs.price.side = "sell" IN
  {rule \in Rule :
     ~ CASE rule = "position" -> selling => r.candidate <= r.held
         [] rule = "quantity" -> Within(r.requested, r.maxQuantity)
         [] rule = "notional" -> NotionalPasses(r)
         [] rule = "cash"     -> CashPasses(r)
         [] rule = "proceeds" -> selling => r.costs.gross >= r.costs.charges}

\* What of the remaining quantity one trade may fill.
Candidate(o, remaining) ==
  IF o.policy.cap = None \/ remaining <= o.policy.cap THEN remaining ELSE o.policy.cap

Held(s) == s.positions[Instrument].quantity

\* What the revalidation of the risk is made of: before holds the order's state as its
\* history has it, head the account's, price the evidence of the price.
Facts(o, before, head, account, price) ==
  LET candidate == Candidate(o, before.remaining)
  IN [version |-> before.version, head |-> head, cash |-> account.cash, held |-> Held(account),
      requested |-> o.quantity, maxQuantity |-> o.maxQuantity, maxNotional |-> o.maxNotional,
      remaining |-> before.remaining, candidate |-> candidate, cumulative |-> before.gross,
      costs |-> Costs(price, candidate, Rates(o))]

Revalidation(facts) == [facts |-> facts, failed |-> FailedRules(facts)]

\* A revalidation is what its own facts give.
RevalidationHolds(risk) ==
  LET facts == risk.facts IN
  /\ facts.version >= 0 /\ facts.head >= 1
  /\ facts.requested > 0 /\ facts.remaining > 0 /\ facts.candidate > 0
  /\ CostsHold(facts.costs)
  /\ risk = Revalidation(facts)

-----------------------------------------------------------------------------
(* Decide and hand over *)

\* The price that the risk decision takes: the latest trade up to the cursor.
Reference(seen) ==
  LET trades == {p \in 1..Len(seen) : seen[p] # None} IN
  IF trades = {} THEN None ELSE seen[CHOOSE p \in trades : \A q \in trades : q <= p]

\* The notional of the intent is a positive whole number of quanta.
Estimable(o, price) ==
  price # None /\ (o.quantity * price) % Scale = 0 /\ o.quantity * price > 0

\* The rules of the decision; neither costs nor slippage are known to it.
PreTradeAllows(o, account, price) ==
  LET notional == (o.quantity * price) \div Scale IN
  /\ o.side = "sell" => account.held >= o.quantity
  /\ Within(o.quantity, o.maxQuantity) /\ Within(notional, o.maxNotional)
  /\ o.side = "buy" => account.cash >= notional

\* The account at the end of its entries, as an intent and an order refer to it.
AccountHandoff(entries) ==
  LET state == Last(entries).state IN
  [version |-> Len(entries), status |-> state.status, cash |-> state.cash, held |-> Held(state)]

\* The replay at its cursor and the session, as a signal and an order refer to them.
MarketHandoff(o, seen) == [position |-> Len(seen), event |-> Last(seen), close |-> o.close]

\* The decision on an intent is made on the account and the replay that the intent
\* refers to, and names them.
DecisionOn(o, entries, seen) ==
  [account |-> AccountHandoff(entries), market |-> MarketHandoff(o, seen),
   allowed |-> PreTradeAllows(o, AccountHandoff(entries), Reference(seen))]

\* M33 makes the intent and the decision, of an active account within the session.
Decide(i) ==
  /\ decisions[i] = None
  /\ Cardinality({j \in Intent : decisions[j] # None}) < MaxDecisions
  /\ Last(ledger).state.status = "active" /\ Len(events) <= OrderOf[i].close
  /\ Estimable(OrderOf[i], Reference(events))
  /\ decisions' = [decisions EXCEPT ![i] = DecisionOn(OrderOf[i], ledger, events)]
  /\ UNCHANGED <<events, ledger, orders, attempts, fills, links>>

\* The decision on the intent allows it.  It is not evaluated again.
MatchingAllow(i) == decisions[i] # None /\ decisions[i].allowed

\* The account is active, and is what the intent refers to.
AccountHandsOff(i, entries) ==
  Last(entries).state.status = "active" /\ AccountHandoff(entries) = decisions[i].account

\* The replay runs, is at what the intent refers to, and within the session.
MarketHandsOff(i, seen) ==
  /\ Len(seen) \in 1..(Len(Stream) - 1)
  /\ MarketHandoff(OrderOf[i], seen) = decisions[i].market
  /\ Len(seen) <= OrderOf[i].close

CanHandOff(i, entries, seen) ==
  MatchingAllow(i) /\ AccountHandsOff(i, entries) /\ MarketHandsOff(i, seen)

\* The allowing decision, as the order refers to it.
RiskHandoff(i) == [intent |-> i, decision |-> decisions[i]]

\* The order of an intent, on what is handed over to it.
NewOrder(i, entries, seen) ==
  [intent |-> i, risk |-> RiskHandoff(i),
   account |-> AccountHandoff(entries), market |-> MarketHandoff(OrderOf[i], seen)]

\* The handoffs on their own.
RiskHandoffHolds(ref) == ref.decision.allowed
AccountHandoffHolds(ref) ==
  ref.status = "active" /\ ref.version >= 1 /\ ref.cash >= 0 /\ ref.held >= 0
MarketHandoffHolds(ref) == ref.position >= 1 /\ ref.position <= ref.close

\* What an order says of itself holds together.
OrderValid(order) ==
  /\ RiskHandoffHolds(order.risk) /\ order.risk.intent = order.intent
  /\ AccountHandoffHolds(order.account) /\ MarketHandoffHolds(order.market)

\* The order is the one that is created again of its intent and decision, from the
\* account and the replay as they were.
CreatedAgain(order) ==
  /\ order.account.version \in 1..Len(ledger) /\ order.market.position \in 1..Len(events)
  /\ LET then == SubSeq(ledger, 1, order.account.version)
         seen == SubSeq(events, 1, order.market.position)
     IN CanHandOff(order.intent, then, seen) /\ order = NewOrder(order.intent, then, seen)

Placed     == {orders[n].intent : n \in 1..Len(orders)}
OrderRow(i) == orders[CHOOSE n \in 1..Len(orders) : orders[n].intent = i]

-----------------------------------------------------------------------------
(* What the stored rows of an order say *)

\* The sums of the first n amounts, for each n.
Running(amounts) ==
  LET sum[n \in 0..Len(amounts)] == IF n = 0 THEN 0 ELSE sum[n - 1] + amounts[n] IN sum

SumOf(amounts) == Running(amounts)[Len(amounts)]

\* What the fills of the first v attempts come to.
Upto(rows, v, amount) ==
  SumOf([n \in 1..Len(rows) |-> IF rows[n].version <= v THEN rows[n].costs[amount] ELSE 0])
FilledUpto(rows, v) == Upto(rows, v, "quantity")
GrossUpto(rows, v)  == Upto(rows, v, "gross")

History(i) == [order |-> OrderRow(i), attempts |-> attempts[i], fills |-> fills[i], links |-> links[i]]

\* The order before attempt v: its version, what remains and what it cost so far.
Before(h, v) ==
  [version |-> v - 1, gross |-> GrossUpto(h.fills, v - 1),
   remaining |-> OrderOf[h.order.intent].quantity - FilledUpto(h.fills, v - 1)]

Now(h) == Before(h, Len(h.attempts) + 1)

IsTerminal(h) ==
  \/ Now(h).remaining = 0
  \/ Len(h.attempts) > 0 /\ Last(h.attempts).reason # "none"

Position(h) == IF h.attempts = <<>> THEN h.order.market.position ELSE Last(h.attempts).post
AccountVersion(h) == IF h.links = <<>> THEN h.order.account.version ELSE Last(h.links).version

Working(i) == i \in Placed /\ ~IsTerminal(History(i))

\* Mutant: the head of the account is not compared.
CurrentAnyway(i) ==
  Len(events) = Position(History(i)) /\ ledger[Len(ledger)].state.status = "active"

\* validate_current_working_authority: the account and the replay are where the
\* order's history ends.
Current(i) ==
  /\ Len(ledger) = AccountVersion(History(i)) /\ Len(events) = Position(History(i))
  /\ ledger[Len(ledger)].state.status = "active"

\* A reference to the event that an attempt consumed, as the replay has it.
EventReference(position) == Event(position, events[position])

\* The posting that a fill asks of the account.
Settlement(o, costs) ==
  [type |-> "fill", symbol |-> Instrument, side |-> o.side, quantity |-> costs.quantity,
   gross |-> costs.gross, charges |-> costs.charges]

\* The account carries the settlement out: it is active, the gross is positive, a
\* sale has a position and does not cost more than it brings, nothing goes negative.
Settles(o, state, costs) ==
  costs.gross > 0 /\ M31!Applicable(state, Settlement(o, costs))

\* The state of the account once the settlement is posted.
Settled(o, state, costs) ==
  M31!Posted(state, Settlement(o, costs), M31!Effect(state, Settlement(o, costs)))

\* The risk evidence of attempt v follows from the frozen order, the event and the
\* state before.
RiskFollows(h, v, a) ==
  LET o     == OrderOf[h.order.intent]
      facts == a.risk.facts
      price == facts.costs.price
  IN /\ facts.version = v - 1 /\ facts.requested = o.quantity
     /\ facts.remaining = Before(h, v).remaining /\ facts.cumulative = Before(h, v).gross
     /\ facts.maxQuantity = o.maxQuantity /\ facts.maxNotional = o.maxNotional
     /\ a.event.price # None /\ price.event = a.event
     /\ price.side = o.side /\ price.slip = o.policy.slip
     /\ facts.costs.rates = Rates(o) /\ facts.costs.quantity = facts.candidate
     /\ facts.candidate = Candidate(o, Before(h, v).remaining)

\* The shape of an attempt: what its result allows of event, risk and reason.
WellFormed(a) ==
  LET atEnd == a.post = Len(Stream) IN
  CASE a.result = "boundary_rejected" ->
         a.post = a.pre /\ a.event = None /\ a.risk = None /\ a.reason # "none"
    [] a.result = "no_fill" ->
         /\ a.post = a.pre + 1 /\ a.event # None /\ a.risk = None
         /\ a.reason = IF atEnd THEN "replay_exhausted" ELSE "none"
    [] a.result = "risk_rejected" ->
         /\ a.post = a.pre + 1 /\ a.event # None /\ a.risk # None
         /\ a.reason = "execution_risk_rejected" /\ a.risk.failed # {}
    [] a.result = "fill" ->
         /\ a.post = a.pre + 1 /\ a.event # None /\ a.risk # None
         /\ a.reason \in {"none", "replay_exhausted"} /\ a.risk.failed = {}

\* Where the fill rows of attempt v are.
FillsOf(h, v) == {n \in 1..Len(h.fills) : h.fills[n].version = v}

\* The link from a fill to the account event that settles it.
Link(fill, version) == [fill |-> fill, version |-> version]

FillOf(a, v) == [version |-> v, attempt |-> a, costs |-> a.risk.facts.costs]

\* Attempt v continues the history before it, and its fill is the one it derives.
AttemptValid(h, v) ==
  LET a == h.attempts[v] IN
     /\ a.pre = IF v = 1 THEN h.order.market.position ELSE h.attempts[v - 1].post
     /\ WellFormed(a)
     /\ a.event # None => a.event = EventReference(a.post)
     /\ a.risk # None => RevalidationHolds(a.risk) /\ RiskFollows(h, v, a)
     /\ IF a.result = "fill" THEN \E n \in 1..Len(h.fills) : FillsOf(h, v) = {n} /\ h.fills[n] = FillOf(a, v)
                             ELSE FillsOf(h, v) = {}
     /\ Before(h, v).remaining > 0 /\ (v > 1 => h.attempts[v - 1].reason = "none")
     /\ Before(h, v + 1).remaining >= 0
     /\ Before(h, v + 1).remaining = 0 => a.reason = "none"
     /\ a.result = "fill" /\ a.post = Len(Stream) /\ Before(h, v + 1).remaining > 0
          => a.reason = "replay_exhausted"

\* The n-th link names the n-th fill and the account event after the previous one,
\* which the fill settles from exactly the state that its risk was evaluated in.
LinkReconciles(h, n) ==
  LET o == OrderOf[h.order.intent]
      l == h.links[n]
      f == h.fills[n]
      facts == f.attempt.risk.facts
  IN /\ l.fill = f
     /\ l.version = 1 + (IF n = 1 THEN h.order.account.version ELSE h.links[n - 1].version)
     /\ l.version \in 2..Len(ledger)
     /\ facts.head = l.version - 1
     /\ LET prior == ledger[l.version - 1].state IN
        /\ facts.cash = prior.cash /\ facts.held = Held(prior)
        /\ Settles(o, prior, f.costs)
        /\ ledger[l.version] = Entry(f, Settled(o, prior, f.costs))

\* Mutant: only the links that are there are looked at.
LoadsUnlinked(h) ==
  /\ OrderValid(h.order) /\ CreatedAgain(h.order)
  /\ \A v \in 1..Len(h.attempts) : AttemptValid(h, v)
  /\ \A n \in 1..Len(h.links) : LinkReconciles(h, n)

\* load_historical_history accepts the rows of the order.
Loads(h) ==
  /\ OrderValid(h.order) /\ CreatedAgain(h.order)
  /\ \A v \in 1..Len(h.attempts) : AttemptValid(h, v)
  /\ \A n \in 1..Len(h.fills) : h.fills[n].version \in 1..Len(h.attempts)
  /\ Len(h.links) = Len(h.fills)
  /\ \A n \in 1..Len(h.links) : LinkReconciles(h, n)

-----------------------------------------------------------------------------
(* The steps *)

\* No order works on the account and the replay within the same session.
CreateOrder(i) ==
  /\ i \notin Placed /\ Len(orders) < MaxOrders
  /\ CanHandOff(i, ledger, events)
  /\ \A j \in Placed : OrderOf[j].close = OrderOf[i].close => ~Working(j) /\ Loads(History(j))
  /\ orders' = Append(orders, NewOrder(i, ledger, events))
  /\ UNCHANGED <<events, ledger, decisions, attempts, fills, links>>

Made(i, result, reason, event, risk) ==
  [pre |-> Len(events), post |-> IF event = None THEN Len(events) ELSE Len(events) + 1,
   result |-> result, reason |-> reason, event |-> event, risk |-> risk]

\* The reason that an attempt on the next event ends its order for.
EndReason(remaining) ==
  IF Len(events) + 1 = Len(Stream) /\ remaining > 0 THEN "replay_exhausted" ELSE "none"

\* The next event is outside the session, or there is none: nothing is consumed.
StepAtBoundary(i) ==
  /\ Len(events) = Len(Stream) \/ Len(events) + 1 >= OrderOf[i].close
  /\ attempts' = [attempts EXCEPT ![i] = Append(@, Made(i, "boundary_rejected",
       IF Len(events) = Len(Stream) THEN "replay_exhausted" ELSE "session_exhausted", None, None))]
  /\ UNCHANGED <<events, ledger, fills, links>>

NextInSession(i) == Len(events) < Len(Stream) /\ Len(events) + 1 < OrderOf[i].close

\* The next event is not a trade.
StepNoFill(i) ==
  /\ NextInSession(i) /\ ~Stream[Len(events) + 1]
  /\ events' = Append(events, None)
  /\ attempts' = [attempts EXCEPT ![i] =
       Append(@, Made(i, "no_fill", EndReason(1), Event(Len(events) + 1, None), None))]
  /\ UNCHANGED <<ledger, fills, links>>

\* What the next trade, at price p, means for the order.
RiskAt(i, p) ==
  LET h == History(i)
      o == OrderOf[i]
      price == PriceEvidence(Event(Len(events) + 1, p), o.side, p, o.policy.slip)
  IN Revalidation(Facts(o, Now(h), Len(ledger), Last(ledger).state, price))

StepRejected(i, risk) ==
  /\ risk.failed # {}
  /\ attempts' = [attempts EXCEPT ![i] =
       Append(@, Made(i, "risk_rejected", "execution_risk_rejected", risk.facts.costs.price.event, risk))]
  /\ UNCHANGED <<ledger, fills, links>>

\* Attempt, fill, account event and link are one transaction, undone if the account
\* refuses the settlement.
StepFill(i, risk) ==
  LET o     == OrderOf[i]
      costs == risk.facts.costs
      left  == risk.facts.remaining - costs.quantity
      a     == Made(i, "fill", EndReason(left), costs.price.event, risk)
      fill  == FillOf(a, Len(attempts[i]) + 1)
      state == ledger[Len(ledger)].state
  IN /\ risk.failed = {} /\ Settles(o, state, costs)
     /\ attempts' = [attempts EXCEPT ![i] = Append(@, a)]
     /\ fills' = [fills EXCEPT ![i] = Append(@, fill)]
     /\ ledger' = Append(ledger, Entry(fill, Settled(o, state, costs)))
     /\ links' = [links EXCEPT ![i] = Append(@, Link(fill, Len(ledger) + 1))]

\* The next event is a trade at price p.
StepTrade(i, p) ==
  /\ NextInSession(i) /\ Stream[Len(events) + 1]
  /\ events' = Append(events, p)
  /\ LET risk == RiskAt(i, p) IN
     /\ risk.facts.costs.price.price > 0
     /\ StepRejected(i, risk) \/ StepFill(i, risk)

StepOrder(i) ==
  /\ Working(i) /\ Current(i) /\ Loads(History(i))
  /\ StepAtBoundary(i) \/ StepNoFill(i) \/ \E p \in Price : StepTrade(i, p)
  /\ UNCHANGED <<decisions, orders>>

Moved == [type |-> "cash", movement |-> "deposit", amount |-> 1]

\* Any other event of the account, whether or not an order works on it.
AccountMoves ==
  /\ Cardinality({n \in 1..Len(ledger) : ledger[n].fill = None}) <= MaxMoves
  /\ LET s == ledger[Len(ledger)].state IN
       /\ M31!Applicable(s, Moved)
       /\ ledger' = Append(ledger, Entry(None, M31!Posted(s, Moved, M31!Effect(s, Moved))))
  /\ UNCHANGED <<events, decisions, orders, attempts, fills, links>>

Next == \/ \E i \in Intent : Decide(i) \/ CreateOrder(i) \/ StepOrder(i)
        \/ AccountMoves

Spec == Init /\ [][Next]_vars

-----------------------------------------------------------------------------
(* Properties *)

\* What the revalidation of the risk allows, the account settles: a trade at any
\* price leaves an undisturbed order with an attempt, unless its price or its gross
\* rounds to nothing.  The two are written apart, in execution_risk.py and in
\* execution_settlement.py, and a refusal by the second stops the order for good.
AllowedIsSettled ==
  \A i \in Intent : Working(i) /\ Current(i) =>
    \A p \in Price :
      LET risk  == RiskAt(i, p)
          costs == risk.facts.costs
      IN costs.price.price > 0 /\ costs.gross > 0 /\ risk.failed = {} =>
           Settles(OrderOf[i], ledger[Len(ledger)].state, costs)

\* What all fills of an order come to.
Total(rows, amount) == SumOf([n \in 1..Len(rows) |-> rows[n].costs[amount]])
FilledOf(rows) == Total(rows, "quantity")
GrossOf(rows)  == Total(rows, "gross")
PaidBy(rows)   == Total(rows, "gross") + Total(rows, "charges")
EarnedBy(rows) == Total(rows, "gross") - Total(rows, "charges")

\* The account and the fills agree on what was traded: its cash and its position
\* are what it was opened with, what moved otherwise, and what the fills' evidence
\* says; what is paid for a position becomes its cost, and a position sold off has none.
TradesAddUp ==
  LET now    == ledger[Len(ledger)].state
      opened == ledger[1].state
      moved  == SumOf([n \in 1..Len(ledger) |->
                  IF n = 1 \/ ledger[n].fill # None THEN 0
                  ELSE ledger[n].state.cash - ledger[n - 1].state.cash])
      Buys(n) == OrderOf[orders[n].intent].side = "buy"
      Rows(n) == fills[orders[n].intent]
      earned == SumOf([n \in 1..Len(orders) |-> IF Buys(n) THEN 0 ELSE EarnedBy(Rows(n))])
      paid   == SumOf([n \in 1..Len(orders) |-> IF Buys(n) THEN PaidBy(Rows(n)) ELSE 0])
      sold   == SumOf([n \in 1..Len(orders) |-> IF Buys(n) THEN 0 ELSE FilledOf(Rows(n))])
      bought == SumOf([n \in 1..Len(orders) |-> IF Buys(n) THEN FilledOf(Rows(n)) ELSE 0])
      cost   == now.positions[Instrument].cost
      put    == opened.positions[Instrument].cost + paid
  IN /\ now.cash = opened.cash + moved + earned - paid
     /\ Held(now) = Held(opened) + bought - sold
     /\ cost <= put /\ (Held(now) = 0 => cost = 0)
     /\ (\A n \in 1..Len(orders) : Buys(n)) => cost = put

\* Whatever the prices of an order's trades, it stays within what was asked and
\* allowed: its quantity, the cap on each fill, the limit on its notional over all
\* its fills.
StaysWithinLimits ==
  \A i \in Placed :
    /\ FilledOf(fills[i]) <= OrderOf[i].quantity
    /\ Within(GrossOf(fills[i]), OrderOf[i].maxNotional)
    /\ \A n \in 1..Len(fills[i]) : Within(fills[i][n].costs.quantity, OrderOf[i].policy.cap)

\* The rows of every order load again, whatever happened since.
HistoriesLoad == \A i \in Placed : Loads(History(i))

\* Rows as they would be had attempt v met price p.
AtPrice(h, v, p) ==
  LET a == h.attempts[v]
      o == OrderOf[h.order.intent]
      facts == a.risk.facts
      price == PriceEvidence([a.event EXCEPT !.price = p], o.side, p, o.policy.slip)
      other == [facts EXCEPT !.costs = Costs(price, facts.candidate, Rates(o))]
      b == [a EXCEPT !.event.price = p, !.risk = Revalidation(other)]
  IN [h EXCEPT !.attempts[v] = b,
               !.fills = [n \in DOMAIN @ |-> IF @[n].version = v THEN FillOf(b, v) ELSE @[n]],
               !.links = [n \in DOMAIN @ |-> IF @[n].fill.version = v
                                             THEN [@[n] EXCEPT !.fill = FillOf(b, v)] ELSE @[n]]]

\* Rows that do not belong together do not load: those of a trade at another price,
\* though each is well made; an order without one of its fills or links.
WrongRowsAreNoticed ==
  \A i \in Placed :
    LET h == History(i) IN
    /\ \A v \in 1..Len(h.attempts) : h.attempts[v].result = "fill" =>
         \A p \in Price \ {h.attempts[v].event.price} : ~Loads(AtPrice(h, v, p))
    /\ \A n \in 1..Len(h.fills) :
         ~Loads([h EXCEPT !.fills = RemoveAt(@, n)]) /\ ~Loads([h EXCEPT !.links = RemoveAt(@, n)])

\* The account and the fills agree, and no order goes beyond what was asked and allowed.
TradesAreRight == TradesAddUp /\ StaysWithinLimits

\* The rows of every order load again, and rows that do not belong together never do.
RowsAreJudged == HistoriesLoad /\ WrongRowsAreNoticed
==============================================================================
