----------------------------- MODULE PaperLedger -----------------------------
(***************************************************************************)
(* The rules of a paper account's ledger (M31): what each command posts,   *)
(* when it may be posted, and the replay that derives the account's state  *)
(* from its events.  An event keeps its command and its postings; both are *)
(* read again by the replay, which trusts neither.                         *)
(***************************************************************************)
EXTENDS Integers, Sequences

CONSTANTS
  Symbol,
  Decision,  \* approved portfolio-review decisions
  Corrupt    \* what the replay of an invalid ledger gives

Flat == [quantity |-> 0, cost |-> 0]

Genesis == [status |-> "none", cash |-> 0, positions |-> [s \in Symbol |-> Flat], links |-> {}]

Status == {"none", "active", "frozen", "closed"}
State  == [status : Status, cash : Int, positions : [Symbol -> [quantity : Int, cost : Int]],
           links : SUBSET Decision]

ASSUME CorruptAssumption == Corrupt \notin State

\* The sign of a cash movement.
Signed(c) ==
  IF c.movement \in {"withdrawal", "fee", "commission", "tax"} THEN -c.amount ELSE c.amount

HalfEven(n, d) ==
  LET q == n \div d
      r == n % d
  IN CASE 2 * r < d -> q [] 2 * r > d -> q + 1 [] OTHER -> q + (q % 2)

\* The share of the cost basis that a sale takes away: all of it with the last
\* lot, otherwise in proportion, rounded half to even.
RemovedCost(p, quantity) ==
  IF quantity = p.quantity THEN p.cost ELSE HalfEven(p.cost * quantity, p.quantity)

\* What a fill posts: cash, quantity and cost basis.
FillEffect(s, c) ==
  IF c.side = "buy"
  THEN [cash |-> -(c.gross + c.charges), quantity |-> c.quantity, cost |-> c.gross + c.charges]
  ELSE [cash |-> c.gross - c.charges, quantity |-> -c.quantity,
        cost |-> -RemovedCost(s.positions[c.symbol], c.quantity)]

Nothing == [cash |-> 0, quantity |-> 0, cost |-> 0]

\* What a command posts in a state.
Effect(s, c) ==
  CASE c.type = "create"   -> [Nothing EXCEPT !.cash = c.cash]
    [] c.type = "cash"     -> [Nothing EXCEPT !.cash = Signed(c)]
    [] c.type = "position" -> [cash |-> 0, quantity |-> c.quantity, cost |-> c.cost]
    [] c.type = "fill"     -> FillEffect(s, c)
    [] OTHER               -> Nothing

Moves(c) == c.type \in {"position", "fill"}

\* The state once a posting is made and the command has had its other effects.
Posted(s, c, e) ==
  [status    |-> CASE c.type \in {"create", "reactivate"} -> "active"
                   [] c.type = "freeze" -> "frozen"
                   [] c.type = "close"  -> "closed"
                   [] OTHER             -> s.status,
   cash      |-> s.cash + e.cash,
   positions |-> IF Moves(c)
                 THEN [s.positions EXCEPT ![c.symbol] =
                         [quantity |-> @.quantity + e.quantity, cost |-> @.cost + e.cost]]
                 ELSE s.positions,
   links     |-> IF c.type = "link" THEN s.links \union {c.decision} ELSE s.links]

Empty(s) == s.cash = 0 /\ \A y \in Symbol : s.positions[y] = Flat

\* Long only, never overdrawn, no cost without a quantity.
Solvent(s) ==
  /\ s.cash >= 0
  /\ \A y \in Symbol : LET p == s.positions[y] IN
       p.quantity >= 0 /\ p.cost >= 0 /\ (p.quantity = 0 => p.cost = 0)

Transitions == {<<"active", "freeze">>, <<"frozen", "reactivate">>,
                <<"active", "close">>, <<"frozen", "close">>}

FillAllowed(s, c) ==
  /\ s.status = "active"
  /\ c.side = "sell" => /\ s.positions[c.symbol].quantity >= c.quantity
                        /\ c.gross >= c.charges

\* Mutant: an account that holds something is closed.
ClosedUnsold(s, c) == <<s.status, c.type>> \in Transitions /\ (c.type = "close" => s.cash = 0)

LifecycleAllowed(s, c) ==
  <<s.status, c.type>> \in Transitions /\ (c.type = "close" => Empty(s))

\* What a command requires of the state, apart from what it leaves behind.
Allowed(s, c) ==
  CASE c.type = "create" -> s.status = "none"
    [] c.type = "cash" -> s.status = "active" /\ (c.movement # "manual_adjustment" => c.amount > 0)
    [] c.type = "position" -> s.status = "active" /\ ~(c.quantity = 0 /\ c.cost = 0)
    [] c.type = "fill" -> FillAllowed(s, c)
    [] c.type = "link" -> s.status = "active" /\ c.decision \notin s.links
    [] OTHER -> LifecycleAllowed(s, c)

\* The writer appends the event only if this holds.
Applicable(s, c) == Allowed(s, c) /\ Solvent(Posted(s, c, Effect(s, c)))

\* One event of replay_paper_account_ledger: the postings are the command's, and
\* they lead from a state that allows them to one that is solvent.
Replayed(s, event) ==
  IF s = Corrupt THEN Corrupt
  ELSE IF /\ Allowed(s, event.command)
          /\ event.effect = Effect(s, event.command)
          /\ Solvent(Posted(s, event.command, event.effect))
       THEN Posted(s, event.command, event.effect)
       ELSE Corrupt

\* The event that carries a command out in a state, with what the replay makes of it.
NewEvent(s, c, k, expected) ==
  LET event == [key |-> k, expected |-> expected, command |-> c, effect |-> Effect(s, c)] IN
  [key |-> k, expected |-> expected, command |-> c, effect |-> event.effect,
   state |-> Replayed(s, event)]

\* The replay of a ledger.  An event never changes, and neither do those before it,
\* so that what the replay makes of each event is kept with it.
Rebuild(events) == IF events = <<>> THEN Genesis ELSE events[Len(events)].state
=============================================================================
