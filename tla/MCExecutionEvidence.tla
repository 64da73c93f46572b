------------------------ MODULE MCExecutionEvidence ------------------------
(* ExecutionEvidence for TLC: an order or two on an account, at prices that    *)
(* make every rounding happen: a share is four units, a rate has ten parts.    *)
EXTENDS ExecutionRefinement, TLC

Free  == [slip |-> 0, commission |-> 0, fee |-> 0, tax |-> [buy |-> 0, sell |-> 0], cap |-> None]
Dear  == [Free EXCEPT !.slip = 1, !.commission = 3, !.fee = 2, !.tax = [buy |-> 0, sell |-> 5], !.cap = 4]
Steep == [Free EXCEPT !.slip = 5, !.commission = 3, !.cap = 3]

Buy(q, policy)  == [side |-> "buy", quantity |-> q, policy |-> policy,
                    maxQuantity |-> None, maxNotional |-> None, close |-> 9]
Sell(q, policy) == [Buy(q, policy) EXCEPT !.side = "sell"]

MCIntent == {"free", "dear", "limited", "out", "dust", "off"}
MCOrderOf ==
  [i \in MCIntent |->
     CASE i = "free"    -> Buy(8, [Free EXCEPT !.cap = 5])
       [] i = "dear"    -> Buy(8, Dear)
       [] i = "limited" -> [Buy(8, [Free EXCEPT !.cap = 4]) EXCEPT !.maxNotional = 4, !.maxQuantity = 8]
       [] i = "out"     -> Sell(8, Dear)
       [] i = "dust"    -> Sell(4, [Steep EXCEPT !.cap = 1])
       [] i = "off"     -> [Sell(8, Steep) EXCEPT !.close = 4]]

MCOpening == {[cash |-> 7, quantity |-> 0, cost |-> 0], [cash |-> 10, quantity |-> 4, cost |-> 3],
              [cash |-> 0, quantity |-> 8, cost |-> 5]}
MCStream == <<TRUE, TRUE, TRUE, FALSE, TRUE>>

ASSUME Assumed == EvidenceAssumption
=============================================================================
