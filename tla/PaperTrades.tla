----------------------------- MODULE PaperTrades -----------------------------
(***************************************************************************)
(* A paper account and what its orders leave in it: the commands on an     *)
(* account (PaperAccount), and the orders, attempts and fills that settle  *)
(* in one (ExecutionEvidence).  Both post to a ledger by PaperLedger; the  *)
(* evidence has a ledger of its own, of one account and one instrument, so *)
(* that the two stand side by side, each with variables of its own.        *)
(***************************************************************************)
EXTENDS PaperAccount

CONSTANTS
  Intent, OrderOf, Opening, Stream, Price, Scale, FullRate, None,
  MaxOrders, MaxDecisions, MaxMoves                           \* of ExecutionEvidence

VARIABLES
  prices, entries, decisions, orders, attempts, fills, links  \* of ExecutionEvidence

Trades == INSTANCE ExecutionEvidence WITH events <- prices, ledger <- entries
=============================================================================
