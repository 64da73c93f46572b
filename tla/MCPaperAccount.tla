--------------------------- MODULE MCPaperAccount ---------------------------
(* PaperAccount for TLC.  A behaviour asks one of five questions: which       *)
(* ledgers can be written, whether repeated commands are answered as before,  *)
(* what becomes of a damaged projection, what a reader sees of an account     *)
(* that moves on, and what loads once rows were lost, edited or put back.     *)
(* Each has the accounts, commands, keys and bounds it needs.                 *)
EXTENDS PaperAccount, TLC

CONSTANTS s1, d1, a1, a2, Absent, Refused, MaxRows, MaxHarm

VARIABLES question, tables, copy, written, harms


Opened     == [type |-> "create", cash |-> 3]
Deposit    == [type |-> "cash", movement |-> "deposit", amount |-> 1]
Withdrawal == [type |-> "cash", movement |-> "withdrawal", amount |-> 3]
Received   == [type |-> "position", symbol |-> s1, quantity |-> 3, cost |-> 4]
Delivered  == [type |-> "position", symbol |-> s1, quantity |-> -3, cost |-> -4]
Bought     == [type |-> "fill", symbol |-> s1, side |-> "buy", quantity |-> 1, gross |-> 2, charges |-> 1]
Sold       == [type |-> "fill", symbol |-> s1, side |-> "sell", quantity |-> 1, gross |-> 2, charges |-> 2]
Linked     == [type |-> "link", decision |-> d1]

AllCommands ==
  {Opened, Deposit, Withdrawal, Received, Delivered, Bought, Sold, Linked} \union
  {[type |-> t] : t \in {"freeze", "reactivate", "close"}}

RowCommands ==
  {Opened, Deposit, Withdrawal, Received, Bought, Linked} \union {[type |-> t] : t \in {"freeze", "close"}}

ReadCommands == {Opened, Deposit, Received, [type |-> "freeze"]}

Ledgers == INSTANCE PaperAccount WITH
  Account <- {a1}, OpKey <- {}, Reader <- {}, MaxDamage <- 0
Promises == INSTANCE PaperAccount WITH
  Key <- {1, 2, 3}, Command <- {Opened, [Opened EXCEPT !.cash = 0], Deposit}, MaxVersion <- 3,
  OpKey <- {}, Reader <- {}, MaxDamage <- 0
Projections == INSTANCE PaperAccount WITH
  Account <- {a1}, Command <- {Opened, Deposit, Received}, MaxVersion <- 3, Reader <- {}
Readers == INSTANCE PaperAccount WITH
  Account <- {a1}, Command <- ReadCommands, MaxVersion <- 3, OpKey <- {}, MaxDamage <- 1
Stored == INSTANCE StoredLedger WITH Command <- RowCommands, MaxVersion <- MaxRows
rowVars == <<tables, copy, written, harms>>
allVars == <<vars, question, rowVars>>

\* The keys are used one after the other, and the answers get lost.
InTurn ==
  /\ \A n \in 1..Len(ledger'[a1]) : ledger'[a1][n].key = n
  /\ UNCHANGED history

\* Which key is which makes no difference; a2 has one event at most.
Renamed ==
  LET used == {k \in 1..3 : creations'[k] # NoReceipt \/
                \E a \in Account : \E n \in 1..Len(ledger'[a]) : ledger'[a][n].key = k}
  IN (\E n \in 0..3 : used = 1..n) /\ Len(ledger'[a2]) <= 1

\* Commands on the account and on its copy together.
FewCommits == Cardinality(written') <= 4

MCInit ==
  /\ question \in {"ledger", "promise", "projection", "reader", "rows"}
  /\ Init /\ Stored!StoredInit

MCNext ==
  /\ UNCHANGED question
  /\ \/ /\ UNCHANGED rowVars
        /\ \/ question = "ledger" /\ Ledgers!Next /\ InTurn
           \/ question = "promise" /\ Promises!Next /\ Renamed
           \/ question = "projection" /\ Projections!Next /\ InTurn
           \/ question = "reader" /\ Readers!Next /\ InTurn
     \/ question = "rows" /\ Stored!StoredNext /\ FewCommits /\ UNCHANGED vars

MCSpec == MCInit /\ [][MCNext]_allVars

\* Nothing is damaged: the account of these readers was written by the program alone.
SoundSpec ==
  /\ Init /\ Stored!StoredInit /\ question = "reader"
  /\ [][/\ Readers!Next /\ InTurn /\ damages' = 0
         /\ UNCHANGED <<question, rowVars>>]_allVars

\* The rows of an account load as what was written, in one piece or not at all, whole or
\* page by page, and the functions that never see the positions do no harm to them.
RowsAreSound ==
  question = "rows" =>
    /\ Stored!WrittenLoads /\ Stored!OnlyWrittenLoads /\ Stored!PagesAreOfHistory
    /\ Stored!CashReplayAgrees /\ Stored!ClosedIsEmpty

\* Commands per account, and creations, keep the promise of idempotent commands, and
\* none builds on a projection that is lost or differs from the ledger.
CommandsKeepPromises ==
  /\ [][question = "promise" =>
          /\ [Promises!Commands!Next]_<<ledger, told>>
          /\ [Promises!Creations!Next]_<<creations, toldCreations>>]_allVars
  /\ GrowsOnSoundProjection
=============================================================================
