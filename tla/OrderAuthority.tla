--------------------------- MODULE OrderAuthority ---------------------------
(***************************************************************************)
(* What an execution order (M34) promises to those who step it, a runtime  *)
(* above all: attempts are numbered one after the other, the last one is   *)
(* final, there are finitely many of them, each is made on the chain the   *)
(* previous one left, and a chain once left is never found again.          *)
(* PaperRuntime relies on it, PaperExecution implements it.                *)
(***************************************************************************)
EXTENDS Naturals

CONSTANT MaxVersion  \* no order makes more attempts

VARIABLE order       \* version, status, chain

Init == order = [version |-> 0, status |-> "working", chain |-> "current"]

\* One attempt, by whoever asked for it first.
Attempt ==
  /\ order.status = "working" /\ order.chain = "current" /\ order.version < MaxVersion
  /\ \E status \in {"working", "terminal"} :
       /\ order.version + 1 = MaxVersion => status = "terminal"
       /\ order' = [version |-> order.version + 1, status |-> status, chain |-> order.chain]

\* The account head or the replay cursor moves on without the order.
Diverge ==
  /\ order.chain = "current"
  /\ order' = [order EXCEPT !.chain = "stale"]

Next == Attempt \/ Diverge

Spec == Init /\ [][Next]_order
=============================================================================
