--------------------------- MODULE PaperExecution ---------------------------
(***************************************************************************)
(* Paper execution (M34): orders created and stepped by commands that may  *)
(* be repeated, on paper accounts and market replays that several orders   *)
(* share.  Create and Step are transactions (BEGIN IMMEDIATE .. COMMIT),   *)
(* so each is one action with all it writes: order or attempt, fill,       *)
(* account event, settlement link, replay checkpoint and command receipt.  *)
(* A command that is refused, or repeated under its key, writes nothing    *)
(* and is no action.                                                       *)
(*                                                                         *)
(* An Order is what makes create commands converge: an intent, its risk    *)
(* decision and an execution policy.  The intent names the account version *)
(* and the replay position it was taken at and is placed only there, so    *)
(* both are recorded when the order is created.  Money is abstracted: the  *)
(* risk revalidation of a fill allows or rejects.                          *)
(***************************************************************************)
EXTENDS Naturals, Sequences, FiniteSets

CONSTANTS
  Order, Account, Replay, Instrument,
  NoOrder,       \* an account event that settles no order
  AccountOf,     \* the account of an order's intent
  ReplayOf,      \* the replay of an order's intent
  SessionOf,     \* its trading session, by open and close time
  InstrumentOf,  \* its instrument
  Requested,     \* its requested quantity
  Cap,           \* the most its policy fills per trade event
  Stream,        \* the events of a replay; a trade is one with a usable price
  Seeded,        \* the position a replay has when trading on it begins
  ListLimit,     \* list_orders' default limit
  MaxRepeats,    \* bound: commands answered with a result that was there
  MaxMoves       \* bound: account events that settle no order

MarketEvent == [time : Nat, instrument : Instrument, kind : {"trade", "other"}]

ASSUME ExecutionAssumption ==
  /\ NoOrder \notin Order
  /\ AccountOf \in [Order -> Account] /\ ReplayOf \in [Order -> Replay]
  /\ SessionOf \in [Order -> [open : Nat, close : Nat]]
  /\ InstrumentOf \in [Order -> Instrument]
  /\ Requested \in [Order -> Nat \ {0}] /\ Cap \in [Order -> Nat \ {0}]
  /\ \A r \in Replay :
       /\ Stream[r] \in Seq(MarketEvent)
       /\ Seeded[r] \in 1..Len(Stream[r])
  /\ ListLimit \in Nat \ {0} /\ MaxRepeats \in Nat /\ MaxMoves \in Nat

VARIABLES
  orders,    \* the orders, in the order of their creation
  handoff,   \* account version and replay position an order was created at
  attempts,  \* the attempts of each order
  ledger,    \* the events of each account: the attempt they settle, if any
  cursor,    \* the position of each replay
  createReceipts,  \* of each order, the commands answered with its creation
  stepReceipts,    \* of each attempt of each order, the commands answered with it
  repeats    \* bound: answers that repeated one

receipts == <<createReceipts, stepReceipts>>
vars     == <<orders, handoff, attempts, ledger, cursor, receipts, repeats>>

Placed == {orders[i] : i \in 1..Len(orders)}

Result == {"no_fill", "fill", "risk_rejected", "boundary_rejected"}
Reason == {"none", "replay_exhausted", "session_exhausted", "execution_risk_rejected"}

\* An attempt with the cursors around it, the quantity filled in all, and the
\* account version of the order's last settlement link once it is made.
Attempt == [pre : Nat, post : Nat, result : Result, reason : Reason, filled : Nat, head : Nat]
Entry   == [order : Order \union {NoOrder}, version : Nat]

\* Every variable keeps its type.
TypeOK ==
  /\ orders \in Seq(Order)
  /\ handoff \in [Order -> [head : Nat, position : Nat]]
  /\ attempts \in [Order -> Seq(Attempt)]
  /\ ledger \in [Account -> Seq(Entry)]
  /\ cursor \in [Replay -> Nat]
  /\ createReceipts \in [Order -> Nat] /\ stepReceipts \in [Order -> Seq(Nat)]
  /\ repeats \in Nat

NoSettlement == [order |-> NoOrder, version |-> 0]

\* Accounts begin with the event of their creation.
Init ==
  /\ orders = <<>>
  /\ handoff = [o \in Order |-> [head |-> 0, position |-> 0]]
  /\ attempts = [o \in Order |-> <<>>]
  /\ ledger = [a \in Account |-> <<NoSettlement>>]
  /\ cursor = [r \in Replay |-> Seeded[r]]
  /\ createReceipts = [o \in Order |-> 0] /\ stepReceipts = [o \in Order |-> <<>>]
  /\ repeats = 0

-----------------------------------------------------------------------------
(* What the stored history of an order says *)

Version(o)     == Len(attempts[o])
Last(o)        == attempts[o][Version(o)]
Events(o)      == Stream[ReplayOf[o]]
Position(o)    == cursor[ReplayOf[o]]
AccountHead(o) == Len(ledger[AccountOf[o]])

Handoff(o) == [post |-> handoff[o].position, filled |-> 0, head |-> handoff[o].head]
After(o, i) == IF i = 0 THEN Handoff(o)
               ELSE [post |-> attempts[o][i].post, filled |-> attempts[o][i].filled,
                     head |-> attempts[o][i].head]
Now(o) == After(o, Version(o))

Ends(o, t)  == t.reason # "none" \/ t.filled = Requested[o]
Terminal(o) == Version(o) > 0 /\ Ends(o, Last(o))
Working(o)  == o \in Placed /\ ~Terminal(o)

\* The account head and the replay cursor are where the order left them.
Current(o) == AccountHead(o) = Now(o).head /\ Position(o) = Now(o).post

During(o, p) == SessionOf[o].open <= Events(o)[p].time /\ Events(o)[p].time < SessionOf[o].close
Executable(o, p) == Events(o)[p].instrument = InstrumentOf[o] /\ Events(o)[p].kind = "trade"

FillQuantity(o, filled) == IF Requested[o] - filled < Cap[o] THEN Requested[o] - filled ELSE Cap[o]

\* Position p can be handed to the order: the replay still runs there, and the
\* event it is at is of the order's instrument and within its session.
CanHandOff(o, p) ==
  /\ p \in 1..(Len(Events(o)) - 1)
  /\ Events(o)[p].instrument = InstrumentOf[o]
  /\ SessionOf[o].open <= Events(o)[p].time /\ Events(o)[p].time <= SessionOf[o].close

\* Attempt i continues what was there before it.
Continues(o, i) ==
  LET t == attempts[o][i]
      b == After(o, i - 1)
  IN /\ t.pre = b.post
     /\ IF t.result = "boundary_rejected" THEN t.post = b.post /\ t.reason # "none"
        ELSE t.post = b.post + 1 /\ t.post <= Len(Events(o))
     /\ t.filled <= Requested[o]
     /\ IF t.result = "fill"
        THEN /\ Executable(o, t.post)
             /\ t.filled = b.filled + FillQuantity(o, b.filled)
             /\ t.filled = Requested[o] => t.reason = "none"
             /\ t.post = Len(Events(o)) /\ t.filled < Requested[o] => t.reason = "replay_exhausted"
             /\ t.head = b.head + 1 /\ t.head <= AccountHead(o)
             /\ ledger[AccountOf[o]][t.head] = [order |-> o, version |-> i]
        ELSE t.filled = b.filled /\ t.head = b.head

\* load_historical_history accepts what is stored of the order.
Replays(o) ==
  /\ handoff[o].head \in 1..AccountHead(o)
  /\ CanHandOff(o, handoff[o].position)
  /\ \A i \in 1..Version(o) : Continues(o, i)
  /\ \A i \in 1..(Version(o) - 1) : ~Ends(o, attempts[o][i])

-----------------------------------------------------------------------------
(* Create *)

SameMarket(o, p) ==
  AccountOf[o] = AccountOf[p] /\ ReplayOf[o] = ReplayOf[p] /\ SessionOf[o] = SessionOf[p]

\* Mutant: list_orders with its oldest orders first.
ListedOldest(o) ==
  {orders[i] : i \in {i \in 1..Len(orders) :
     /\ SameMarket(orders[i], o)
     /\ Cardinality({j \in 1..(i - 1) : SameMarket(orders[j], o)}) < ListLimit}}

\* The orders list_orders returns for the market of o: the newest ones.
Listed(o) ==
  {orders[i] : i \in {i \in 1..Len(orders) :
     /\ SameMarket(orders[i], o)
     /\ Cardinality({j \in (i + 1)..Len(orders) : SameMarket(orders[j], o)}) < ListLimit}}

\* Mutant: no look for an order that was created before.
CreateOrderAnew(o) ==
  /\ CanHandOff(o, Position(o))
  /\ \A p \in Listed(o) : Replays(p) /\ Terminal(p)
  /\ orders' = Append(orders, o)
  /\ handoff' = [handoff EXCEPT ![o] = [head |-> AccountHead(o), position |-> Position(o)]]
  /\ createReceipts' = [createReceipts EXCEPT ![o] = 1]
  /\ UNCHANGED <<attempts, ledger, cursor, stepReceipts, repeats>>

CreateOrder(o) ==
  /\ o \notin Placed
  /\ CanHandOff(o, Position(o))
  /\ \A p \in Listed(o) : Replays(p) /\ Terminal(p)
  /\ orders' = Append(orders, o)
  /\ handoff' = [handoff EXCEPT ![o] = [head |-> AccountHead(o), position |-> Position(o)]]
  /\ createReceipts' = [createReceipts EXCEPT ![o] = 1]
  /\ UNCHANGED <<attempts, ledger, cursor, stepReceipts, repeats>>

Repeat == repeats < MaxRepeats /\ repeats' = repeats + 1

\* A create command under another key finds the order.
CreateConverges(o) ==
  /\ o \in Placed /\ Replays(o)
  /\ Repeat
  /\ createReceipts' = [createReceipts EXCEPT ![o] = @ + 1]
  /\ UNCHANGED <<orders, handoff, attempts, ledger, cursor, stepReceipts>>

-----------------------------------------------------------------------------
(* Step *)

\* Mutant: the replay checkpoint is not replaced.
CommitWithoutCheckpoint(o, t) ==
  /\ attempts' = [attempts EXCEPT ![o] = Append(@, t)]
  /\ stepReceipts' = [stepReceipts EXCEPT ![o] = Append(@, 1)]
  /\ UNCHANGED <<orders, handoff, cursor, createReceipts, repeats>>

\* Attempt t is committed: the replay checkpoint moves with it.
Commit(o, t) ==
  /\ attempts' = [attempts EXCEPT ![o] = Append(@, t)]
  /\ cursor' = [cursor EXCEPT ![ReplayOf[o]] = t.post]
  /\ stepReceipts' = [stepReceipts EXCEPT ![o] = Append(@, 1)]
  /\ UNCHANGED <<orders, handoff, createReceipts, repeats>>

Made(o, result, reason, post, filled, head) ==
  [pre |-> Position(o), post |-> post, result |-> result, reason |-> reason,
   filled |-> filled, head |-> head]

Exhausted(o)      == Position(o) >= Len(Events(o))
SessionOver(o)    == ~Exhausted(o) /\ ~During(o, Position(o) + 1)
EventInSession(o) == ~Exhausted(o) /\ During(o, Position(o) + 1)
LastEvent(o)      == Position(o) + 1 = Len(Events(o))

\* Mutant: an event outside the session is waited for.
RejectAtReplayEnd(o) ==
  /\ Exhausted(o)
  /\ Commit(o, Made(o, "boundary_rejected", "replay_exhausted",
                    Position(o), Now(o).filled, Now(o).head))
  /\ UNCHANGED ledger

\* No event is consumed: there is none, or the next one is outside the session.
RejectAtBoundary(o) ==
  /\ Exhausted(o) \/ SessionOver(o)
  /\ Commit(o, Made(o, "boundary_rejected",
                    IF Exhausted(o) THEN "replay_exhausted" ELSE "session_exhausted",
                    Position(o), Now(o).filled, Now(o).head))
  /\ UNCHANGED ledger

NoFill(o) ==
  /\ EventInSession(o) /\ ~Executable(o, Position(o) + 1)
  /\ Commit(o, Made(o, "no_fill", IF LastEvent(o) THEN "replay_exhausted" ELSE "none",
                    Position(o) + 1, Now(o).filled, Now(o).head))
  /\ UNCHANGED ledger

RejectByRisk(o) ==
  /\ EventInSession(o) /\ Executable(o, Position(o) + 1)
  /\ Commit(o, Made(o, "risk_rejected", "execution_risk_rejected",
                    Position(o) + 1, Now(o).filled, Now(o).head))
  /\ UNCHANGED ledger

\* Mutant: the remainder is left to events that will not come.
FillOpenEnded(o) ==
  LET filled == Now(o).filled + FillQuantity(o, Now(o).filled)
  IN /\ EventInSession(o) /\ Executable(o, Position(o) + 1)
     /\ Commit(o, Made(o, "fill", "none", Position(o) + 1, filled, AccountHead(o) + 1))
     /\ ledger' = [ledger EXCEPT ![AccountOf[o]] =
                     Append(@, [order |-> o, version |-> Version(o) + 1])]

Fill(o) ==
  LET filled == Now(o).filled + FillQuantity(o, Now(o).filled)
      reason == IF LastEvent(o) /\ filled # Requested[o] THEN "replay_exhausted" ELSE "none"
  IN /\ EventInSession(o) /\ Executable(o, Position(o) + 1)
     /\ Commit(o, Made(o, "fill", reason, Position(o) + 1, filled, AccountHead(o) + 1))
     /\ ledger' = [ledger EXCEPT ![AccountOf[o]] =
                     Append(@, [order |-> o, version |-> Version(o) + 1])]

\* Mutant: the account head and the replay cursor are not compared.
StepStaleOrder(o) ==
  /\ Working(o) /\ Replays(o)
  /\ RejectAtBoundary(o) \/ NoFill(o) \/ RejectByRisk(o) \/ Fill(o)

StepOrder(o) ==
  /\ Working(o) /\ Replays(o) /\ Current(o)
  /\ RejectAtBoundary(o) \/ NoFill(o) \/ RejectByRisk(o) \/ Fill(o)

\* Mutant: the fill that is found is settled again.
StepConvergesSettling(o, i) ==
  /\ i \in 1..Version(o) /\ Replays(o)
  /\ Repeat
  /\ stepReceipts' = [stepReceipts EXCEPT ![o][i] = @ + 1]
  /\ ledger' = [ledger EXCEPT ![AccountOf[o]] = Append(@, [order |-> o, version |-> i])]
  /\ UNCHANGED <<orders, handoff, attempts, cursor, createReceipts>>

\* A Step under another key expects a version that has been attempted.
StepConverges(o, i) ==
  /\ i \in 1..Version(o) /\ Replays(o)
  /\ Repeat
  /\ stepReceipts' = [stepReceipts EXCEPT ![o][i] = @ + 1]
  /\ UNCHANGED <<orders, handoff, attempts, ledger, cursor, createReceipts>>

\* Any other event of an account: cash, position, freeze, reactivation, closure.
AccountMoves(a) ==
  /\ Cardinality({n \in 1..Len(ledger[a]) : ledger[a][n] = NoSettlement}) <= MaxMoves
  /\ ledger' = [ledger EXCEPT ![a] = Append(@, NoSettlement)]
  /\ UNCHANGED <<orders, handoff, attempts, cursor, receipts, repeats>>

Next ==
  \/ \E o \in Order : \/ CreateOrder(o) \/ CreateConverges(o) \/ StepOrder(o)
                      \/ \E i \in 1..Version(o) : StepConverges(o, i)
  \/ \E a \in Account : AccountMoves(a)

Spec == Init /\ [][Next]_vars

\* A runtime keeps stepping each order it was given.
FairSpec == Spec /\ \A o \in Order : WF_vars(StepOrder(o))

-----------------------------------------------------------------------------
(* Properties *)

\* What is stored of every order is accepted by the code that reads it back, and
\* nothing is stored of an order that was never created.
HistoriesReplay ==
  \A o \in Order : IF o \in Placed THEN Replays(o) ELSE attempts[o] = <<>>

\* Two orders never work on one account, replay and session, although a new one
\* looks only at the newest orders of its market and an old one may be stuck.
OneWorkingOrder ==
  \A o, p \in Order : Working(o) /\ Working(p) /\ SameMarket(o, p) => o = p

Consumes(o, i) == attempts[o][i].result # "boundary_rejected"

\* Orders that share a replay consume each event behind its seeded position once:
\* none is left out between two of them and none is given to both.
EventsConsumedOnce ==
  /\ \A r \in Replay : \A p \in (Seeded[r] + 1)..cursor[r] :
       \E o \in Order : \E i \in 1..Version(o) :
         ReplayOf[o] = r /\ Consumes(o, i) /\ attempts[o][i].post = p
  /\ \A o, q \in Order : \A i \in 1..Version(o), j \in 1..Version(q) :
       /\ Consumes(o, i) /\ Consumes(q, j)
       /\ ReplayOf[o] = ReplayOf[q] /\ attempts[o][i].post = attempts[q][j].post
       => o = q /\ i = j

\* An account has one event for each fill of its orders, the one the fill's
\* settlement link names, and no settlement of anything that is not a fill.
FillsSettledOnce ==
  /\ \A o \in Order : \A i \in 1..Version(o) :
       attempts[o][i].result = "fill" =>
         {n \in 1..AccountHead(o) : ledger[AccountOf[o]][n] = [order |-> o, version |-> i]}
           = {attempts[o][i].head}
  /\ \A a \in Account : \A n \in 1..Len(ledger[a]) :
       LET e == ledger[a][n] IN
       e.order # NoOrder => /\ AccountOf[e.order] = a
                            /\ e.version \in 1..Version(e.order)
                            /\ attempts[e.order][e.version].result = "fill"

\* However often a Step is sent and whoever shares account and replay: no event is
\* consumed twice or left out, and no fill is settled twice or left unsettled.
NothingTwice == EventsConsumedOnce /\ FillsSettledOnce

\* A working order that nobody disturbed has an event to consume: an order is
\* ended by the attempt that consumes the last event, never by one that finds none.
WorkingHasEvent ==
  \A o \in Order : Working(o) /\ Current(o) => Position(o) < Len(Events(o))

\* Whatever commands do later, what a command was answered with stays what it is:
\* its order, and the attempt it made or met, with a receipt that names it.
AnswersKept ==
  [][\A o \in Placed :
       /\ o \in Placed' /\ handoff'[o] = handoff[o]
       /\ createReceipts'[o] >= createReceipts[o] /\ createReceipts[o] > 0
       /\ \A i \in 1..Version(o) :
            /\ i \in DOMAIN attempts'[o] /\ attempts'[o][i] = attempts[o][i]
            /\ stepReceipts'[o][i] >= stepReceipts[o][i] /\ stepReceipts[o][i] > 0]_vars

\* An order as those who step it see it.
View(o) == [version |-> Version(o),
            status  |-> IF Terminal(o) THEN "terminal" ELSE "working",
            chain   |-> IF o \in Placed /\ ~Current(o) THEN "stale" ELSE "current"]

Authority(o) == INSTANCE OrderAuthority WITH order <- View(o), MaxVersion <- Len(Events(o)) - 1

\* Every order keeps the contract of OrderAuthority, whatever happens to the others:
\* \A o \in Order : Authority(o)!Spec, in the form TLC evaluates.
OrdersKeepContract ==
  /\ \A o \in Order : Authority(o)!Init
  /\ [][\A o \in Order : [Authority(o)!Next]_(View(o))]_vars

\* An order that somebody keeps stepping ends, unless its account or its replay
\* is moved by others: then no Step is accepted any more.
OrdersEnd == \A o \in Order : o \in Placed ~> Terminal(o) \/ ~Current(o)
=============================================================================
