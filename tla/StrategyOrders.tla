--------------------------- MODULE StrategyOrders ---------------------------
(***************************************************************************)
(* Strategy orders as a whole: the commands (StrategyOrder), the replays   *)
(* they are evaluated on (MarketReplay), and the rows they are stored in   *)
(* (StrategyRecords).  StrategyOrder has a replay as the stream it plays,  *)
(* and StrategyRecords the commands as what they store, so that the three  *)
(* stand side by side, each with variables of its own.                     *)
(***************************************************************************)
EXTENDS StrategyOrder

CONSTANTS
  Replay, Process, EventId, Time, EventPayload, MaxEvents,       \* of MarketReplay
  RecordRuntime, Configured, Wants, Trade, AccountAt, RecordPolicy,
  MaxReceipts, MaxHarm                                        \* of StrategyRecords

VARIABLES
  store, streams, cursors, engines, consumed,                 \* of MarketReplay
  db, now, answers, harms                                     \* of StrategyRecords

Replays == INSTANCE MarketReplay WITH Payload <- EventPayload
Records == INSTANCE StrategyRecords WITH
  Runtime <- RecordRuntime, Account <- AccountAt, Policy <- RecordPolicy, told <- answers

replayVars == <<store, streams, cursors, engines, consumed>>
recordVars == <<db, now, answers, harms>>

\* The events of a replay are handed out once and in order, it restores, and its
\* checkpoint never moves back.
EventsHandedOutOnce ==
  /\ [](Replays!TypeOK /\ Replays!EachEventOnce /\ Replays!EveryReplayRestores)
  /\ Replays!OnlyForward

\* The rows of signals, intents and decisions read as they were written, or not at all.
RecordsAreSound == Records!RecordsAreSound
=============================================================================
