--------------------------- MODULE StrategyOrder ---------------------------
(***************************************************************************)
(* Strategy signals, order intents and pre-trade risk decisions (M33): a   *)
(* chain of three commands, each with its own idempotency keys, that turns *)
(* the consumed part of a market replay and the head of a paper account    *)
(* into a decision to allow or reject one order.  A command states the     *)
(* cursor position and the account version that its sender read; account   *)
(* and replay move between any two of them.  A row's identity is the       *)
(* authority that it binds, without the command that asked for it.         *)
(***************************************************************************)
EXTENDS Integers, Sequences, MovingAverage

CONSTANTS
  Stream,       \* the replay's events: [instrument, trade, price, open]
  Runtime,      \* strategy runtime references: [fast, slow, quantity]
  RiskPolicy,   \* [quantity, notional], each a set that holds the limit, if there is one
  Entry,        \* what an account version may hold: [active, cash, held]
  Key, Actor,
  MaxMoney,     \* the largest amount a PaperMoney represents
  MaxVersion    \* bound: account versions

Instrument == {Stream[i].instrument : i \in DOMAIN Stream}

ASSUME StrategyOrderAssumption ==
  /\ Len(Stream) \in Nat /\ DOMAIN Stream = 1..Len(Stream)
  /\ \A i \in DOMAIN Stream : Stream[i].price \in Int /\ Stream[i].trade \in BOOLEAN /\ Stream[i].open \in BOOLEAN
  /\ \A r \in Runtime : r.fast \in 1..r.slow - 1 /\ r.slow \in Nat /\ r.quantity \in Nat \ {0}
  /\ \A p \in RiskPolicy : p.quantity \cup p.notional \subseteq Nat \ {0}
  /\ \A e \in Entry : e.active \in BOOLEAN /\ e.cash \in Nat /\ e.held \in [Instrument -> Nat]
  /\ MaxMoney \in Nat /\ MaxVersion \in Nat \ {0}

VARIABLES
  cursor,    \* events of the replay that were consumed
  book,      \* the account's versions
  current,   \* whether the account's projection is that of its head
  signals, intents, decisions,  \* the rows
  receipts,  \* strategy_order_command_receipts
  told       \* the answers that were given

rows == <<signals, intents, decisions>>
vars == <<cursor, book, current, rows, receipts, told>>

Position == 1..Len(Stream)
Version  == 1..MaxVersion
Namespace == {"evaluate_strategy_signal", "derive_order_intent", "evaluate_pre_trade_risk"}

----------------------------------------------------------------------------
(* What a row binds.  A row keeps beside it who first asked for it, and    *)
(* the cursor and the account version at its created_at.                   *)

Signal   == [runtime : Runtime, position : Position, instrument : Instrument, target : Nat]
Account  == [version : Version, cash : Nat, held : Nat]
Intent   == [signal : Signal, account : Account, side : {"buy", "sell"}, quantity : Nat \ {0}]
NoAction == [signal : Signal, account : Account, reason : {"target_satisfied"}]
RiskRule == {"insufficient_position_quantity", "maximum_order_quantity_exceeded",
             "maximum_order_notional_exceeded", "insufficient_available_cash"}
Decision == [intent : Intent, policy : RiskPolicy, priceAt : Position, price : Nat \ {0},
             notional : Nat \ {0}, reasons : SUBSET RiskRule, outcome : {"allow", "reject"}]

Origin  == [key : Key, actor : Actor]
Moment  == [cursor : 0..Len(Stream), version : Version]
Row(T)  == [is : T, origin : Origin, at : Moment]
Result  == Signal \union Intent \union NoAction \union Decision
Receipt == [ns : Namespace, key : Key, actor : Actor, result : Result]

Identity(row) == row.is
\* The row for an authority: the stored one, or a new one.
Add(table, row) == IF \E r \in table : Identity(r) = Identity(row) THEN table ELSE table \union {row}
Has(table, is)  == \E r \in table : r.is = is

TypeOK ==
  /\ cursor \in 0..Len(Stream)
  /\ book \in Seq(Entry) /\ Len(book) \in Version
  /\ current \in BOOLEAN
  /\ signals \subseteq Row(Signal) /\ intents \subseteq Row(Intent) /\ decisions \subseteq Row(Decision)
  /\ receipts \subseteq Receipt
  /\ \A t \in told : t.ns \in Namespace /\ t.key \in Key /\ t.result \in Result

Init ==
  /\ cursor = 0
  /\ book \in [{1} -> Entry] /\ current = TRUE
  /\ signals = {} /\ intents = {} /\ decisions = {} /\ receipts = {} /\ told = {}

----------------------------------------------------------------------------
(* The authorities that a command reads in its own transaction.            *)

\* The account: its projection must be that of its replayed ledger, its head the expected one.
AccountState == current
AccountMatches(expected) == Len(book) = expected

HeadEntry == book[Len(book)]
\* Anchors of the head; only an active account has any.
HasAccountReference == HeadEntry.active
AccountReference(i) == [version |-> Len(book), cash |-> HeadEntry.cash, held |-> HeadEntry.held[i]]

\* The market: the cursor must stand where the command says, at an event of the session.
Market(expected) == cursor = expected /\ expected >= 1
HasMarketReference == Stream[cursor].open

Trades(i, n) == {k \in 1..n : Stream[k].instrument = i /\ Stream[k].trade}
LatestTrade(i, n) == CHOOSE k \in Trades(i, n) : \A j \in Trades(i, n) : j <= k
\* The prices of the trades among the first n events, in order.
TradePrices(i, n) ==
  LET prices[k \in 0..n] ==
        IF k = 0 THEN <<>>
        ELSE IF k \in Trades(i, n) THEN Append(prices[k - 1], Stream[k].price)
        ELSE prices[k - 1]
  IN  prices[n]
\* A price may enter research only if positive, and only after slow_window + 1 trades.
Evaluable(r, i, n) ==
  /\ \A k \in Trades(i, n) : Stream[k].price > 0
  /\ Len(TradePrices(i, n)) >= r.slow + 1

Target(r, i, n) == IF LatestPosition(TradePrices(i, n), r.fast, r.slow) = 0 THEN 0 ELSE r.quantity

----------------------------------------------------------------------------
(* A key that was used answers from its receipt, when the request is the   *)
(* one that the stored result and the receipt bear out.                    *)

Existing(ns, key) == {r \in receipts : r.ns = ns /\ r.key = key}
Now == [cursor |-> cursor, version |-> Len(book)]
Tell(ns, key, asked, result) ==
  told' = told \union {[ns |-> ns, key |-> key, asked |-> asked, result |-> result]}
Store(ns, key, actor, asked, result) ==
  /\ receipts' = receipts \union {[ns |-> ns, key |-> key, actor |-> actor, result |-> result]}
  /\ Tell(ns, key, asked, result)
Stored(ns, key, actor) == {r.result : r \in {x \in Existing(ns, key) : x.actor = actor}}
Repeat(ns, key, asked, matching) ==
  /\ \E result \in matching : Tell(ns, key, asked, result)
  /\ UNCHANGED <<cursor, book, current, rows, receipts>>

\* As SignalMatches when a key's stored result is returned without a look at it.
AnySignal(result, runtime, position) == TRUE

SignalMatches(result, runtime, position) == result.runtime = runtime /\ result.position = position
EvaluateSignal(key, actor, runtime, position) ==
  LET ns == "evaluate_strategy_signal"
      asked == <<actor, runtime, position>>
      i == Stream[position].instrument
      signal == [runtime |-> runtime, position |-> position, instrument |-> i,
                 target |-> Target(runtime, i, position)]
  IN  \/ Repeat(ns, key, asked, {s \in Stored(ns, key, actor) : SignalMatches(s, runtime, position)})
      \/ /\ Existing(ns, key) = {}
         /\ Market(position) /\ HasMarketReference
         /\ Evaluable(runtime, i, position)
         /\ signals' = Add(signals, [is |-> signal, origin |-> [key |-> key, actor |-> actor], at |-> Now])
         /\ Store(ns, key, actor, asked, signal)
         /\ UNCHANGED <<cursor, book, current, intents, decisions>>

\* The order that takes the account from what it holds to the signal's target.
Derived(signal, account) ==
  IF signal.target = account.held
  THEN [signal |-> signal, account |-> account, reason |-> "target_satisfied"]
  ELSE IF signal.target > account.held
  THEN [signal |-> signal, account |-> account, side |-> "buy", quantity |-> signal.target - account.held]
  ELSE [signal |-> signal, account |-> account, side |-> "sell", quantity |-> account.held - signal.target]
IsNoAction(result) == "reason" \in DOMAIN result

IntentMatches(result, signal, version) == result.signal = signal /\ result.account.version = version
DeriveIntent(key, actor, signal, version) ==
  LET ns == "derive_order_intent"
      asked == <<actor, signal, version>>
      result == Derived(signal, AccountReference(signal.instrument))
  IN  \/ Repeat(ns, key, asked, {x \in Stored(ns, key, actor) : IntentMatches(x, signal, version)})
      \/ /\ Existing(ns, key) = {}
         /\ Has(signals, signal)
         /\ AccountState /\ AccountMatches(version) /\ HasAccountReference
         /\ intents' = IF IsNoAction(result) THEN intents
                       ELSE Add(intents, [is |-> result, origin |-> [key |-> key, actor |-> actor], at |-> Now])
         /\ Store(ns, key, actor, asked, result)
         /\ UNCHANGED <<cursor, book, current, signals, decisions>>

\* The rules that fail; a rule that does not apply passes.
Failed(intent, policy, notional) ==
  {rule \in RiskRule :
     \/ /\ rule = "insufficient_position_quantity"
        /\ intent.side = "sell" /\ ~(intent.account.held >= intent.quantity)
     \/ /\ rule = "maximum_order_quantity_exceeded"
        /\ \E limit \in policy.quantity : ~(intent.quantity <= limit)
     \/ /\ rule = "maximum_order_notional_exceeded"
        /\ \E limit \in policy.notional : ~(notional <= limit)
     \/ /\ rule = "insufficient_available_cash"
        /\ intent.side = "buy" /\ ~(intent.account.cash >= notional)}

Decided(intent, policy) ==
  LET at == LatestTrade(intent.signal.instrument, cursor)
      notional == intent.quantity * Stream[at].price
      failed == Failed(intent, policy, notional)
  IN  [intent |-> intent, policy |-> policy, priceAt |-> at, price |-> Stream[at].price,
       notional |-> notional, reasons |-> failed, outcome |-> IF failed = {} THEN "allow" ELSE "reject"]

\* The account and the market must be those that the intent is bound to.
SameAccount(intent) == AccountReference(intent.signal.instrument) = intent.account
\* As SameMarket when the intent's market anchor is not compared again.
AnyMarket(intent) == TRUE

SameMarket(intent)  == cursor = intent.signal.position

DecisionMatches(result, intent, policy, version, position) ==
  /\ result.intent = intent /\ result.policy = policy
  /\ result.intent.account.version = version /\ result.intent.signal.position = position
EvaluateRisk(key, actor, intent, policy, version, position) ==
  LET ns == "evaluate_pre_trade_risk"
      asked == <<actor, intent, policy, version, position>>
      decision == Decided(intent, policy)
  IN  \/ Repeat(ns, key, asked, {d \in Stored(ns, key, actor) : DecisionMatches(d, intent, policy, version, position)})
      \/ /\ Existing(ns, key) = {}
         /\ Has(intents, intent) /\ Has(signals, intent.signal)
         /\ AccountState /\ AccountMatches(version) /\ HasAccountReference
         /\ SameAccount(intent)
         /\ Market(position) /\ HasMarketReference
         /\ SameMarket(intent)
         /\ decision.price > 0 /\ decision.notional <= MaxMoney
         /\ decisions' = Add(decisions, [is |-> decision, origin |-> [key |-> key, actor |-> actor], at |-> Now])
         /\ Store(ns, key, actor, asked, decision)
         /\ UNCHANGED <<cursor, book, current, signals, intents>>

----------------------------------------------------------------------------
(* The account (M31) and the replay (M32) move on their own.               *)

AccountMoves ==
  /\ Len(book) < MaxVersion /\ HeadEntry.active
  /\ book' \in {Append(book, e) : e \in Entry}
  /\ current' \in BOOLEAN
  /\ UNCHANGED <<cursor, rows, receipts, told>>
Reconciled ==
  /\ ~current /\ current' = TRUE
  /\ UNCHANGED <<cursor, book, rows, receipts, told>>
ReplayAdvances ==
  /\ cursor < Len(Stream) /\ cursor' = cursor + 1
  /\ UNCHANGED <<book, current, rows, receipts, told>>

Commands(key, actor) ==
  \/ \E runtime \in Runtime, position \in Position : EvaluateSignal(key, actor, runtime, position)
  \/ \E signal \in {r.is : r \in signals}, version \in 1..Len(book) :
       DeriveIntent(key, actor, signal, version)
  \/ \E intent \in {r.is : r \in intents}, policy \in RiskPolicy, version \in 1..Len(book), position \in Position :
       EvaluateRisk(key, actor, intent, policy, version, position)

Next ==
  \/ \E key \in Key, actor \in Actor : Commands(key, actor)
  \/ AccountMoves \/ Reconciled \/ ReplayAdvances

Spec == Init /\ [][Next]_vars

----------------------------------------------------------------------------
(* Properties.                                                             *)

\* One key has one answer in its namespace, whoever repeats the command, at
\* whatever time, however far account and replay have moved on, and although
\* the row it names may have been stored for another key.
AnswersAgree ==
  \A s, t \in told : s.ns = t.ns /\ s.key = t.key => s = t

\* Commands that differ only in key, actor or time converge on one row
\* (docs/architecture/strategy-to-order-and-pre-trade-risk.md:212, :266), and
\* every receipt finds the row it names.
OneRowPerAuthority ==
  /\ \A table \in {signals, intents, decisions} : \A r, s \in table : r.is = s.is => r = s
  /\ \A r \in receipts :
       \/ r.ns = "evaluate_strategy_signal" /\ Has(signals, r.result)
       \/ r.ns = "derive_order_intent" /\ (IsNoAction(r.result) \/ Has(intents, r.result))
       \/ r.ns = "evaluate_pre_trade_risk" /\ Has(decisions, r.result)

\* Signal, intent and decision are taken at one moment: the replay stood still
\* from the signal to the decision, and the account from the intent to it.
OneMoment ==
  \A d \in decisions : \E s \in signals, i \in intents :
    /\ i.is = d.is.intent /\ s.is = i.is.signal
    /\ s.at.cursor = d.at.cursor /\ i.at = d.at

\* Filled whole at its reference price against the very account version it
\* was decided on, an allowed order spends no cash and sells no share that the
\* account lacks, keeps the policy's limits, and ends at the signal's target.
AllowedOrderFits ==
  \A r \in decisions :
    LET d == r.is
        i == d.intent
        e == book[i.account.version]
        before == e.held[i.signal.instrument]
    IN  d.outcome = "allow" =>
          /\ e.active
          /\ IF i.side = "buy" THEN /\ e.cash - i.quantity * d.price >= 0
                                    /\ before + i.quantity = i.signal.target
                               ELSE before - i.quantity = i.signal.target
          /\ \A limit \in d.policy.quantity : i.quantity <= limit
          /\ \A limit \in d.policy.notional : i.quantity * d.price <= limit

\* A signal wants the position exactly when, in the trades up to its own event
\* and no later one, the fast average rose above the slow one after a bar on
\* which it was not above, and has not been below since.
SignalFromThePast ==
  \A r \in signals :
    LET s == r.is
        seen == TradePrices(s.instrument, s.position)
        sign(n) == Spread(seen, n, s.runtime.fast, s.runtime.slow)
        long == \E n \in s.runtime.slow + 1..Len(seen) :
                  /\ sign(n - 1) <= 0 /\ sign(n) > 0
                  /\ \A k \in n..Len(seen) : sign(k) >= 0
    IN  s.target = IF long THEN s.runtime.quantity ELSE 0

\* The price of a decision is the last that was traded before it: no trade of
\* its instrument lies between that price and the cursor of the moment.
PriceIsLatest ==
  \A r \in decisions :
    /\ r.is.priceAt <= r.at.cursor /\ r.is.price = Stream[r.is.priceAt].price
    /\ Stream[r.is.priceAt].trade /\ Stream[r.is.priceAt].instrument = r.is.intent.signal.instrument
    /\ \A k \in r.is.priceAt + 1..r.at.cursor :
         ~(Stream[k].trade /\ Stream[k].instrument = r.is.intent.signal.instrument)

\* Commands under one key have one answer, and those that differ in nothing but key, actor
\* or time converge on one row.
CommandsConverge == AnswersAgree /\ OneRowPerAuthority

\* Signal, intent and decision are of one moment, and an allowed order fits the account
\* version it was decided on, at the latest price there was, and wants what the averages of
\* the trades up to its signal say.
AllowedOrdersAreRight ==
  TypeOK /\ OneMoment /\ AllowedOrderFits /\ PriceIsLatest /\ SignalFromThePast
=============================================================================
