-------------------------- MODULE StrategyRecords --------------------------
(***************************************************************************)
(* The stored rows of strategy signals, order intents and risk decisions   *)
(* (M33).  A row holds its record whole (payload_json) and, to be found    *)
(* and listed by, columns that repeat parts of it.  Whoever reads a row    *)
(* derives all of it again from its own payload, and holds it against the  *)
(* row that it refers to; a command that was answered is answered again    *)
(* from such a reading.  Here rows are lost or changed by hand between two *)
(* commands, and the readings must notice.  StrategyOrder has the commands *)
(* with what they read of the market and the account, and rows that stay.  *)
(*                                                                         *)
(* A digest stands for the content it is taken of: what names a record by  *)
(* its digest holds its content.  The parts of a record that have digests  *)
(* of their own (account, price, policy, rule, snapshot) are changed       *)
(* together with these here, so the model has none for them.  There is one *)
(* account, one replay and one instrument, and created_at is left out.     *)
(***************************************************************************)
EXTENDS Integers, FiniteSets

CONSTANTS
  Runtime,    \* strategy runtime references
  Configured, \* the position that each of them is configured to take
  Wants,      \* Wants[r][n]: the position r wants after n events of the replay
  Trade,      \* Trade[n]: where the latest trade among n events is, and its price
  Account,    \* Account[v]: cash and quantity held at version v of the account
  Policy,     \* [quantity, notional], each a set that holds the limit, if there is one
  Key, Actor,
  MaxReceipts, \* bound: commands that are carried out
  MaxHarm     \* bound: rows lost or changed by hand

Position == DOMAIN Trade
Version  == DOMAIN Account

StrategyRecordsAssumption ==
  /\ \A r \in Runtime : Configured[r] \in Nat \ {0} /\ \A n \in Position : Wants[r][n] \in {0, Configured[r]}
  /\ Position \subseteq Nat \ {0} /\ Version \subseteq Nat \ {0}
  /\ \A n \in Position : Trade[n].at \in 1..n /\ Trade[n].price \in Nat \ {0}
  /\ \A v \in Version : Account[v].cash \in Nat /\ Account[v].held \in Nat
  /\ \A p \in Policy : p.quantity \union p.notional \subseteq Nat \ {0}
  /\ MaxReceipts \in Nat /\ MaxHarm \in Nat

VARIABLES
  db,    \* the tables: signals, intents, decisions, receipts
  now,   \* how far the replay and the account are: [position, version]
  told,  \* the answers that were given: [ns, key, asked, result]
  harms  \* rows that were lost or changed by hand

vars == <<db, now, told, harms>>

Init ==
  /\ db = [signals |-> {}, intents |-> {}, decisions |-> {}, receipts |-> {}]
  /\ now \in {[position |-> n, version |-> v] : n \in {k \in Position : \A j \in Position : k <= j},
                                                v \in {k \in Version : \A j \in Version : k <= j}}
  /\ told = {} /\ harms = 0

-----------------------------------------------------------------------------
(* What the records say, and when a payload holds together                 *)

\* The position that a runtime wants after so many events of the replay.
Signal(runtime, position, target) == [runtime |-> runtime, position |-> position, target |-> target]

SignalHolds(p) ==
  /\ p.is.position \in Nat \ {0}
  /\ p.is.target \in {0, Configured[p.is.runtime]}
  /\ p.digest = p.is

AccountReference(v) == [version |-> v, cash |-> Account[v].cash, held |-> Account[v].held]
AccountHolds(a) == a.version \in Nat \ {0} /\ a.cash \in Nat /\ a.held \in Nat

SideTo(target, held) ==
  CASE target > held -> "buy" [] target < held -> "sell" [] OTHER -> "none"
Delta(target, held) == IF target > held THEN target - held ELSE held - target

\* The order from what the account holds to a target; no action, with the side "none",
\* when it holds that.  It names the signal and repeats its position and its target.
Order(signal, position, account, target) ==
  [signal |-> signal, position |-> position, account |-> account,
   target |-> target, current |-> account.held,
   side |-> SideTo(target, account.held), requested |-> Delta(target, account.held)]

\* The digest of the command that asks for it.
DeriveCommand(i, key, actor) ==
  [signal |-> i.signal, account |-> i.account, key |-> key, actor |-> actor]

OrderHolds(p) ==
  /\ p.is.position \in Nat \ {0} /\ p.is.target \in Nat /\ AccountHolds(p.is.account)
  /\ p.is.current = p.is.account.held
  /\ p.is.side = SideTo(p.is.target, p.is.current)
  /\ p.is.requested = Delta(p.is.target, p.is.current)
  /\ p.origin.command = DeriveCommand(p.is, p.origin.key, p.origin.actor)
  /\ p.digest = p.is

IntentHolds(p)   == OrderHolds(p) /\ p.is.side # "none"
NoActionHolds(p) == OrderHolds(p) /\ p.is.side = "none"

\* Evidence of one rule: what is observed must reach, or keep within, the threshold.
RuleEvidence(applicable, observed, threshold, passed) ==
  [applicable |-> applicable, observed |-> {n \in {observed} : applicable},
   threshold |-> {n \in threshold : applicable}, passed |-> applicable => passed]

RiskRule == {"position", "quantity", "notional", "cash"}

\* The rules on an order of what is held, at what it is estimated to cost.
RulesOn(side, requested, cash, held, notional, policy) ==
  LET Limited(limits, n) ==
        RuleEvidence(limits # {}, n, limits, \A limit \in limits : n <= limit)
  IN [position |-> RuleEvidence(side = "sell", held, {requested}, held >= requested),
      quantity |-> Limited(policy.quantity, requested),
      notional |-> Limited(policy.notional, notional),
      cash     |-> RuleEvidence(side = "buy", cash, {notional}, cash >= notional)]

PriceReference(n, trade) == [position |-> n, at |-> trade.at, price |-> trade.price]
PriceHolds(price) == price.at \in 1..price.position /\ price.price \in Nat \ {0}

\* What the risk of an intent is evaluated on.  It names the intent and repeats its
\* position, account, side and quantity.
Snapshot(intent, like, policy, price) ==
  LET notional == like.requested * price.price IN
  [intent |-> intent, position |-> like.position, account |-> like.account,
   side |-> like.side, requested |-> like.requested, policy |-> policy, price |-> price,
   cash |-> like.account.cash, held |-> like.account.held, notional |-> notional,
   rules |-> RulesOn(like.side, like.requested, like.account.cash, like.account.held,
                     notional, policy)]

\* Each part that a snapshot is put together from holds on its own.
PartsHold(s) == AccountHolds(s.account) /\ PriceHolds(s.price)

SnapshotHolds(s) ==
  /\ PartsHold(s)
  /\ s.side \in {"buy", "sell"} /\ s.requested \in Nat \ {0} /\ s.notional \in Nat \ {0}
  /\ s.cash = s.account.cash /\ s.held = s.account.held
  /\ s.price.position = s.position
  /\ s.notional = s.requested * s.price.price
  /\ s.rules = RulesOn(s.side, s.requested, s.cash, s.held, s.notional, s.policy)

Reasons(rules) == {rule \in RiskRule : rules[rule].applicable /\ ~rules[rule].passed}

Decision(snapshot) ==
  LET reasons == Reasons(snapshot.rules)
  IN [snapshot |-> snapshot, reasons |-> reasons,
      outcome |-> IF reasons = {} THEN "allow" ELSE "reject"]

RiskCommand(d, key, actor) ==
  [intent |-> d.snapshot.intent, policy |-> d.snapshot.policy, key |-> key, actor |-> actor]

DecisionHolds(p) ==
  /\ SnapshotHolds(p.is.snapshot)
  /\ p.is.reasons = Reasons(p.is.snapshot.rules)
  /\ p.is.outcome = IF p.is.reasons = {} THEN "allow" ELSE "reject"
  /\ p.origin.command = RiskCommand(p.is, p.origin.key, p.origin.actor)
  /\ p.digest = p.is

SignalCommand(s, key, actor) ==
  [runtime |-> s.runtime, position |-> s.position, key |-> key, actor |-> actor]

-----------------------------------------------------------------------------
(* Rows, and what the repositories read of them                            *)

Payload(is, origin) == [is |-> is, digest |-> is, origin |-> origin]

\* A signal does not name the command it comes from, an order and a decision do.
NoOrigin == [key |-> {}]
Origin(command) == [key |-> command.key, actor |-> command.actor, command |-> command]

\* The columns repeat the payload: its id, its digest, what it is about.
Row(p) == [id |-> p.digest, digest |-> p.digest, about |-> p.is, payload |-> p]

\* The columns agree with the payload.
ColumnsAgree(r) == r = Row(r.payload)

SignalReads(r) == SignalHolds(r.payload) /\ ColumnsAgree(r)

WithId(table, id) == {r \in table : r.id = id}

\* get: the record in the row that was found; none if there is no row, or it does not read.
Get(found, readable) == {r.payload : r \in {x \in found : found \subseteq readable}}

GetSignal(d, id) ==
  LET found == WithId(d.signals, id) IN Get(found, {r \in found : SignalReads(r)})

\* Mutant: the intent names the signal, and that is enough.
IntentNamesSignal(i, s) == i.signal = s.digest

IntentMatchesSignal(i, s) ==
  i.signal = s.digest /\ i.position = s.is.position /\ i.target = s.is.target

\* The intent's signal is there, reads, and agrees with it.
IntentFits(d, i) == \E s \in GetSignal(d, i.signal) : IntentMatchesSignal(i, s)

IntentReads(d, r) == IntentHolds(r.payload) /\ ColumnsAgree(r) /\ IntentFits(d, r.payload.is)

GetIntent(d, id) ==
  LET found == WithId(d.intents, id) IN Get(found, {r \in found : IntentReads(d, r)})

DecisionMatchesIntent(s, i) ==
  /\ s.intent = i.digest /\ s.position = i.is.position /\ s.account = i.is.account
  /\ s.side = i.is.side /\ s.requested = i.is.requested

DecisionFits(d, decision) ==
  \E i \in GetIntent(d, decision.snapshot.intent) : DecisionMatchesIntent(decision.snapshot, i)

DecisionReads(d, r) == DecisionHolds(r.payload) /\ ColumnsAgree(r) /\ DecisionFits(d, r.payload.is)

GetDecision(d, id) ==
  LET found == WithId(d.decisions, id) IN Get(found, {r \in found : DecisionReads(d, r)})

\* add: rows with the same id or digest are read, and stand for the new one.
Same(table, p) == {r \in table : r.id = p.digest \/ r.digest = p.digest}
Stands(r, p)   == r.id = p.digest /\ r.digest = p.digest
Added(table, p) == IF Same(table, p) = {} THEN table \union {Row(p)} ELSE table

-----------------------------------------------------------------------------
(* Receipts                                                                *)

Namespace == {"evaluate_strategy_signal", "derive_order_intent", "evaluate_pre_trade_risk"}

CommandOf(kind, is, key, actor) ==
  CASE kind = "strategy_signal"   -> SignalCommand(is, key, actor)
    [] kind = "pre_trade_risk_decision" -> RiskCommand(is, key, actor)
    [] OTHER                      -> DeriveCommand(is, key, actor)

NamespaceOf(kind) ==
  CASE kind = "strategy_signal"   -> "evaluate_strategy_signal"
    [] kind = "pre_trade_risk_decision" -> "evaluate_pre_trade_risk"
    [] OTHER                      -> "derive_order_intent"

\* Only the receipt of a no-action result keeps it: there is no row of its own for it.
Receipt(kind, key, actor, p) ==
  [ns |-> NamespaceOf(kind), key |-> key, actor |-> actor,
   command |-> CommandOf(kind, p.is, key, actor),
   kind |-> kind, id |-> p.digest, digest |-> p.digest,
   payload |-> IF kind = "order_intent_no_action" THEN {p} ELSE {}]

\* The result that a receipt names, if it reads.
ResultOf(d, rc) ==
  CASE rc.kind = "strategy_signal" -> GetSignal(d, rc.id)
    [] rc.kind = "order_intent"    -> GetIntent(d, rc.id)
    [] rc.kind = "pre_trade_risk_decision" -> GetDecision(d, rc.id)
    [] OTHER ->
         {p \in rc.payload : NoActionHolds(p) /\ IntentFits(d, p.is)}

\* resolve: the result is the one named, and the command is the one that asks for it.
Resolved(d, rc) ==
  {p \in ResultOf(d, rc) :
     /\ rc.ns = NamespaceOf(rc.kind) /\ rc.id = p.digest /\ rc.digest = p.digest
     /\ rc.command = CommandOf(rc.kind, p.is, rc.key, rc.actor)}

Under(ns, key) == {rc \in db.receipts : rc.ns = ns /\ rc.key = key}

CanReceipt(d, rc) ==
  /\ Resolved(d, rc) # {}
  /\ \A other \in d.receipts :
       other.ns = rc.ns /\ (other.key = rc.key \/ other.command = rc.command) => other = rc

-----------------------------------------------------------------------------
(* The commands.  A key that was used is answered from its receipt.        *)

Tell(ns, key, asked, result) ==
  told' = told \union {[ns |-> ns, key |-> key, asked |-> asked, result |-> result]}

\* What the receipt under a key of this actor names.
Existing(ns, key, actor) ==
  UNION {{p.is : p \in Resolved(db, rc)} : rc \in {x \in Under(ns, key) : x.actor = actor}}

Repeat(ns, key, asked, is) == Tell(ns, key, asked, is) /\ UNCHANGED <<db, now, harms>>

\* The key has not been used.
Fresh(ns, key) == Under(ns, key) = {} /\ Cardinality(db.receipts) < MaxReceipts

\* d are the tables with the result in them.
Store(d, kind, key, asked, p) ==
  LET rc == Receipt(kind, key, asked.actor, p) IN
  /\ CanReceipt(d, rc)
  /\ db' = [d EXCEPT !.receipts = @ \union {rc}]
  /\ Tell(rc.ns, key, asked, p.is)
  /\ UNCHANGED <<now, harms>>

\* The caller states the position it read.
EvaluateSignal(key, actor, runtime, position) ==
  LET asked == [actor |-> actor, runtime |-> runtime, position |-> position]
      p == Payload(Signal(runtime, position, Wants[runtime][position]), NoOrigin)
  IN \/ \E s \in Existing("evaluate_strategy_signal", key, actor) :
          /\ s.runtime = runtime /\ s.position = position
          /\ Repeat("evaluate_strategy_signal", key, asked, s)
     \/ /\ Fresh("evaluate_strategy_signal", key) /\ now.position = position
        /\ \A r \in Same(db.signals, p) : SignalReads(r) /\ Stands(r, p)
        /\ Store([db EXCEPT !.signals = Added(@, p)], "strategy_signal", key, asked, p)

OrderPayload(i, key, actor)    == Payload(i, Origin(DeriveCommand(i, key, actor)))
DecisionPayload(d, key, actor) == Payload(d, Origin(RiskCommand(d, key, actor)))

\* The caller states the signal and the account version it read.
DeriveIntent(key, actor, id, version) ==
  LET asked == [actor |-> actor, id |-> id, version |-> version] IN
  \/ \E i \in Existing("derive_order_intent", key, actor) :
       /\ i.signal = id /\ i.account.version = version
       /\ Repeat("derive_order_intent", key, asked, i)
  \/ /\ Fresh("derive_order_intent", key) /\ now.version = version
     /\ \E s \in GetSignal(db, id) :
          LET p == OrderPayload(Order(id, s.is.position, AccountReference(version), s.is.target), key, actor)
          IN \/ /\ p.is.side = "none"
                /\ Store(db, "order_intent_no_action", key, asked, p)
             \/ /\ p.is.side # "none" /\ IntentFits(db, p.is)
                /\ \A r \in Same(db.intents, p) : IntentReads(db, r) /\ Stands(r, p)
                /\ Store([db EXCEPT !.intents = Added(@, p)], "order_intent", key, asked, p)

\* The caller states the intent, and the account version and the position it read,
\* which must still be those of the intent.
EvaluateRisk(key, actor, id, policy, version, position) ==
  LET asked == [actor |-> actor, id |-> id, policy |-> policy, version |-> version, position |-> position] IN
  \/ \E d \in Existing("evaluate_pre_trade_risk", key, actor) :
       /\ d.snapshot.intent = id /\ d.snapshot.policy = policy
       /\ d.snapshot.account.version = version /\ d.snapshot.position = position
       /\ Repeat("evaluate_pre_trade_risk", key, asked, d)
  \/ /\ Fresh("evaluate_pre_trade_risk", key)
     /\ now.version = version /\ now.position = position
     /\ \E i \in GetIntent(db, id) :
          LET price == PriceReference(position, Trade[position])
              p == DecisionPayload(Decision(Snapshot(id, i.is, policy, price)), key, actor)
          IN /\ AccountReference(version) = i.is.account /\ position = i.is.position
             /\ DecisionFits(db, p.is)
             /\ \A r \in Same(db.decisions, p) : DecisionReads(db, r) /\ Stands(r, p)
             /\ Store([db EXCEPT !.decisions = Added(@, p)], "pre_trade_risk_decision", key, asked, p)

\* The ids that a caller may know.
Known(table, ns) == {r.id : r \in table} \union {t.asked.id : t \in {u \in told : u.ns = ns}}

Commands(key, actor) ==
  \/ \E runtime \in Runtime, position \in Position : EvaluateSignal(key, actor, runtime, position)
  \/ \E id \in Known(db.signals, "derive_order_intent"), version \in Version :
       DeriveIntent(key, actor, id, version)
  \/ \E id \in Known(db.intents, "evaluate_pre_trade_risk"), policy \in Policy,
        version \in Version, position \in Position :
       EvaluateRisk(key, actor, id, policy, version, position)

\* The replay and the account move on.
Moves ==
  /\ \/ now.position + 1 \in Position /\ now' = [now EXCEPT !.position = @ + 1]
     \/ now.version + 1 \in Version /\ now' = [now EXCEPT !.version = @ + 1]
  /\ UNCHANGED <<db, told, harms>>

-----------------------------------------------------------------------------
(* Rows change by hand.  A whole record may be put in another's place, made *)
(* out well in itself.                                                     *)

Quantities == {0} \union {Configured[r] : r \in Runtime}

OtherSignals(p) ==
  {Payload(Signal(r, n, t), NoOrigin) : r \in Runtime, n \in Position, t \in Quantities}

Likely(i) ==
  {Order(i.signal, n, AccountReference(v), t) : n \in Position, v \in Version, t \in Quantities}
  \union {[i EXCEPT !.signal.target = t] : t \in Quantities}
  \union {[i EXCEPT !.requested = @ + 1], [i EXCEPT !.account.cash = @ + 1]}

OtherIntents(p) == {OrderPayload(i, p.origin.key, p.origin.actor) : i \in Likely(p.is)}

OtherDecisions(p) ==
  LET s == p.is.snapshot
      With(like, policy, price) == Decision(Snapshot(s.intent, like, policy, price))
  IN {DecisionPayload(d, p.origin.key, p.origin.actor) : d \in
        {With(like, s.policy, s.price) : like \in {i \in Likely(s.intent) : i.side # "none"}}
        \union {With(s, policy, s.price) : policy \in Policy}
        \union {With(s, s.policy, [s.price EXCEPT !.price = @ + 1]),
                [p.is EXCEPT !.outcome = IF @ = "allow" THEN "reject" ELSE "allow"],
                [p.is EXCEPT !.snapshot.notional = @ + 1]}}

\* A column, the payload, the payload with its digest, or the whole row is changed.
Changed(r, p) ==
  {[r EXCEPT !.id = p.digest], [r EXCEPT !.digest = p.digest], [r EXCEPT !.about = p.is],
   [r EXCEPT !.payload.is = p.is], [r EXCEPT !.payload = p], Row(p)}

\* Two rows of a table have neither id nor digest in common.
Unique(table) == \A r, s \in table : r.id = s.id \/ r.digest = s.digest => r = s

\* The table with one of its rows changed towards another record.
Edits(table, others) ==
  {t \in UNION {{(table \ {r}) \union {c} : c \in UNION {Changed(r, p) : p \in others[r]}} : r \in table} :
     t # table /\ Unique(t)}

\* The receipt of another command, or of the same with another result.
OtherReceipts(rc) ==
  {[rc EXCEPT !.key = k] : k \in Key} \union {[rc EXCEPT !.actor = a] : a \in Actor \union {"nobody"}}
  \union {[rc EXCEPT !.id = x.id, !.digest = x.digest] : x \in db.receipts}
  \union {[x EXCEPT !.key = rc.key, !.command.key = rc.key] : x \in {y \in db.receipts : y.ns = rc.ns}}

UniqueReceipts(receipts) ==
  \A x, y \in receipts : x.ns = y.ns /\ (x.key = y.key \/ x.command = y.command) => x = y

EditedReceipts ==
  {t \in UNION {{(db.receipts \ {rc}) \union {c} : c \in OtherReceipts(rc)} : rc \in db.receipts} :
     t # db.receipts /\ UniqueReceipts(t)}

Lost(table) == {table \ {r} : r \in table}

ByHand ==
  /\ harms < MaxHarm /\ harms' = harms + 1
  /\ \/ \E t \in Lost(db.signals) \union Edits(db.signals, [r \in db.signals |-> OtherSignals(r.payload)]) :
          db' = [db EXCEPT !.signals = t]
     \/ \E t \in Lost(db.intents) \union Edits(db.intents, [r \in db.intents |-> OtherIntents(r.payload)]) :
          db' = [db EXCEPT !.intents = t]
     \/ \E t \in Lost(db.decisions) \union Edits(db.decisions, [r \in db.decisions |-> OtherDecisions(r.payload)]) :
          db' = [db EXCEPT !.decisions = t]
     \/ \E t \in Lost(db.receipts) \union EditedReceipts : db' = [db EXCEPT !.receipts = t]
  /\ UNCHANGED <<now, told>>

Next == (\E key \in Key, actor \in Actor : Commands(key, actor)) \/ Moves \/ ByHand

Spec == Init /\ [][Next]_vars

-----------------------------------------------------------------------------
(* Properties                                                              *)

\* Whatever was changed by hand, a decision that reads stands on an intent and a signal
\* that read, and the three agree: its order takes the account from what it held to the
\* signal's target, and it allows the order only if the account has what it takes.
ReadsHangTogether ==
  \A r \in db.decisions : DecisionReads(db, r) =>
    \E i \in db.intents, s \in db.signals :
      LET d == r.payload.is.snapshot IN
      /\ i.id = d.intent /\ IntentReads(db, i) /\ s.id = i.payload.is.signal /\ SignalReads(s)
      /\ d.position = s.payload.is.position
      /\ d.side = "buy"  => d.held + d.requested = s.payload.is.target
      /\ d.side = "sell" => d.held - d.requested = s.payload.is.target
      /\ r.payload.is.outcome = "allow" =>
           /\ d.side = "buy" => d.requested * d.price.price <= d.account.cash
           /\ \A limit \in d.policy.quantity : d.requested <= limit
           /\ \A limit \in d.policy.notional : d.requested * d.price.price <= limit

\* As long as nobody changes a row by hand, every row reads, and every command that was
\* answered is answered so again.
UntouchedRowsRead ==
  harms = 0 =>
    /\ \A r \in db.signals : SignalReads(r)
    /\ \A r \in db.intents : IntentReads(db, r)
    /\ \A r \in db.decisions : DecisionReads(db, r)
    /\ \A t \in told : \E rc \in Under(t.ns, t.key) : \E p \in Resolved(db, rc) : p.is = t.result

\* Whatever was changed by hand, nothing but what was answered is read under the id of
\* an answer.
AnswersAreRead ==
  \A t \in told :
    \A p \in GetSignal(db, t.result) \union GetIntent(db, t.result) \union GetDecision(db, t.result) :
      p.is = t.result

\* A request that was answered gets the same answer or none, though a row that the
\* answer rests on was lost or changed between the two.
AnswersStay ==
  \A t, u \in told : t.ns = u.ns /\ t.key = u.key /\ t.asked = u.asked => t.result = u.result

\* Readings hang together, and give what was answered or nothing, whatever was done to a row.
RecordsAreSound == ReadsHangTogether /\ UntouchedRowsRead /\ AnswersAreRead /\ AnswersStay
=============================================================================
