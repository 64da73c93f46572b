-------------------------- MODULE MCStrategyOrder --------------------------
(* Strategy orders and the replays they are evaluated on, for TLC.  A          *)
(* behaviour is one of five: commands repeated under their keys, a chain of    *)
(* signal, intent and decision while account and replay move on               *)
(* (StrategyOrder), rows that are lost or changed by hand between commands     *)
(* (StrategyRecords), processes that checkpoint one replay, and two replays    *)
(* that share events (MarketReplay).  The variables of the other modules keep  *)
(* their first state.                                                         *)
EXTENDS StrategyOrders, TLC

CONSTANTS k1, a1, a2, r1, r2, x, y

VARIABLE question
allVars == <<question, vars, replayVars, recordVars>>

Event(i, t, pr, o) == [instrument |-> i, trade |-> t, price |-> pr, open |-> o]

\* The average of "a" crosses upwards at 3 and downwards at 7; 5 is a quote, 6 a
\* trade outside the session.
MCStream == <<Event("a", TRUE, 3, TRUE), Event("a", TRUE, 2, TRUE), Event("a", TRUE, 4, TRUE),
              Event("b", TRUE, 9, TRUE), Event("a", FALSE, 1, TRUE), Event("a", TRUE, 4, FALSE),
              Event("a", TRUE, 1, TRUE)>>

MCRuntime == {[fast |-> 1, slow |-> 2, quantity |-> 2], [fast |-> 2, slow |-> 3, quantity |-> 1]}
MCRiskPolicy == {[quantity |-> {}, notional |-> {}], [quantity |-> {1}, notional |-> {4}]}

Account0(c, h) == [active |-> TRUE, cash |-> c, held |-> [i \in {"a", "b"} |-> IF i = "a" THEN h ELSE 0]]
Closed == [active |-> FALSE, cash |-> 0, held |-> [i \in {"a", "b"} |-> 0]]
MCEntry == {Account0(8, 0), Account0(7, 0), Account0(4, 1), Account0(0, 2), Closed}

Chain == INSTANCE StrategyOrder WITH Key <- {k1}, Actor <- {a1}
Keyed == INSTANCE StrategyOrder WITH
  Stream <- SubSeq(MCStream, 1, 3), Entry <- {Account0(8, 0), Account0(0, 2)},
  Runtime <- {[fast |-> 1, slow |-> 2, quantity |-> 2]},
  RiskPolicy <- {[quantity |-> {}, notional |-> {}]}

One == INSTANCE MarketReplay WITH
  Replay <- {r1}, Process <- {a1, a2}, EventId <- 1..3, Time <- {1, 2}, Payload <- {x}, MaxEvents <- 3
Two == INSTANCE MarketReplay WITH
  Replay <- {r1, r2}, Process <- {a1}, EventId <- 1..2, Time <- {1}, Payload <- {x, y}, MaxEvents <- 2

\* The target is bought at the first version of the account and sold at the second; the
\* first version affords it, and one of the policies forbids it.
MCConfigured == [r |-> 2]
MCWants == [r |-> <<2, 0>>]
MCTrade == <<[at |-> 1, price |-> 3], [at |-> 1, price |-> 3]>>
MCAccountAt == <<[cash |-> 8, held |-> 0], [cash |-> 2, held |-> 2]>>
MCRecordPolicy == {[quantity |-> {}, notional |-> {}], [quantity |-> {1}, notional |-> {}]}
Written == INSTANCE StrategyRecords WITH
  Runtime <- RecordRuntime, Account <- AccountAt, Policy <- RecordPolicy, told <- answers, Actor <- {a1}

ASSUME Replays!MarketReplayAssumption /\ Records!StrategyRecordsAssumption

MCInit ==
  /\ question \in {"chain", "keys", "records", "one replay", "two replays"}
  /\ Init /\ Replays!Init /\ Records!Init
  /\ question # "chain" => book[1] \in {Account0(8, 0), Account0(0, 2)}
  /\ question \in {"records", "one replay", "two replays"} => book = <<Account0(8, 0)>>

MCNext ==
  \/ question = "chain" /\ Chain!Next /\ UNCHANGED <<question, replayVars, recordVars>>
  \/ question = "keys" /\ Keyed!Next /\ UNCHANGED <<question, replayVars, recordVars>>
  \/ question = "records" /\ Written!Next /\ UNCHANGED <<question, vars, replayVars>>
  \/ question = "one replay" /\ One!Next /\ UNCHANGED <<question, vars, recordVars>>
  \/ question = "two replays" /\ Two!Next /\ UNCHANGED <<question, vars, recordVars>>

MCSpec == MCInit /\ [][MCNext]_allVars

MCSymmetry ==
  Permutations(Key) \union Permutations(Actor) \union Permutations({r1, r2}) \union Permutations({x, y})
=============================================================================
