------------------------- MODULE MCPaperExecution -------------------------
(* PaperExecution for TLC: four orders on one replay. *)
EXTENDS PaperExecution

CONSTANTS o1, o2, o3, o4, a1, a2, r1, x

Event(time, instrument, kind) == [time |-> time, instrument |-> instrument, kind |-> kind]
Day  == [open |-> 1, close |-> 9]
Half == [open |-> 1, close |-> 3]

\* The replay ends on a trade, which may leave an order partly filled.
MCStream == [r \in {r1} |->
  <<Event(1, x, "trade"), Event(2, x, "trade"), Event(3, x, "other"), Event(4, x, "trade")>>]
MCSeeded == [r \in {r1} |-> 1]

\* o1, o2 and o3 wait for one another on one market; o4 shares its replay, but neither
\* account nor session.
MCAccountOf == [o \in {o1, o2, o3, o4} |-> IF o = o4 THEN a2 ELSE a1]
MCReplayOf  == [o \in {o1, o2, o3, o4} |-> r1]
MCSessionOf == [o \in {o1, o2, o3, o4} |-> IF o = o4 THEN Half ELSE Day]

MCInstrumentOf == [o \in {o1, o2, o3, o4} |-> x]
MCRequested    == [o \in {o1, o2, o3, o4} |-> IF o \in {o1, o2} THEN 2 ELSE IF o = o3 THEN 3 ELSE 1]
MCCap          == [o \in {o1, o2, o3, o4} |-> IF o = o2 THEN 1 ELSE 2]
=============================================================================
