------------------------- MODULE ExecutionRefinement -------------------------
(***************************************************************************)
(* The numbers of ExecutionEvidence seen as PaperExecution sees them: its  *)
(* orders on the one account and replay, each attempt with what it filled  *)
(* and where it left the account, each account event with the order it     *)
(* belongs to.  What PaperExecution leaves to choice, whether the risk     *)
(* allows a fill and how much is filled, is computed there.                *)
(***************************************************************************)
EXTENDS ExecutionEvidence

\* What PaperExecution keeps of an order: the account version after an attempt, and
\* the owner of an account event.
HeadAfter(i, v) ==
  LET made == {n \in 1..Len(links[i]) : links[i][n].fill.version <= v} IN
  IF made = {} THEN OrderRow(i).account.version ELSE links[i][Cardinality(made)].version
OwnerOf(e) == CHOOSE i \in Intent : \E n \in 1..Len(fills[i]) : fills[i][n] = e.fill

Execution == INSTANCE PaperExecution WITH
  Order <- Intent, Account <- {Instrument}, Replay <- {Instrument}, Instrument <- {Instrument},
  NoOrder <- None,
  AccountOf <- [i \in Intent |-> Instrument], ReplayOf <- [i \in Intent |-> Instrument],
  SessionOf <- [i \in Intent |-> [open |-> 0, close |-> OrderOf[i].close]],
  InstrumentOf <- [i \in Intent |-> Instrument],
  Requested <- [i \in Intent |-> OrderOf[i].quantity],
  Cap <- [i \in Intent |-> IF OrderOf[i].policy.cap = None THEN OrderOf[i].quantity
                            ELSE OrderOf[i].policy.cap],
  Stream <- [r \in {Instrument} |->
              [p \in 1..Len(Stream) |->
                 [time |-> p, instrument |-> Instrument, kind |-> IF Stream[p] THEN "trade" ELSE "other"]]],
  Seeded <- [r \in {Instrument} |-> 1],
  ListLimit <- Cardinality(Intent), MaxRepeats <- 0,
  orders <- [n \in 1..Len(orders) |-> orders[n].intent],
  handoff <- [i \in Intent |-> IF i \in Placed
                               THEN [head |-> OrderRow(i).account.version,
                                     position |-> OrderRow(i).market.position]
                               ELSE [head |-> 0, position |-> 0]],
  attempts <- [i \in Intent |-> [v \in 1..Len(attempts[i]) |->
                 [pre |-> attempts[i][v].pre, post |-> attempts[i][v].post,
                  result |-> attempts[i][v].result, reason |-> attempts[i][v].reason,
                  filled |-> FilledUpto(fills[i], v), head |-> HeadAfter(i, v)]]],
  ledger <- [a \in {Instrument} |-> [n \in 1..Len(ledger) |->
               IF ledger[n].fill = None THEN [order |-> None, version |-> 0]
               ELSE [order |-> OwnerOf(ledger[n]), version |-> ledger[n].fill.version]]],
  cursor <- [r \in {Instrument} |-> Len(events)],
  createReceipts <- [i \in Intent |-> IF i \in Placed THEN 1 ELSE 0],
  stepReceipts <- [i \in Intent |-> [v \in 1..Len(attempts[i]) |-> 1]],
  repeats <- 0

\* The orders, their attempts and what they leave in the account are those of
\* PaperExecution, whose nondeterministic risk the numbers decide here.
FollowsExecution == Execution!Spec
=============================================================================
