--------------------------- MODULE MovingAverage ---------------------------
(***************************************************************************)
(* The moving-average crossover that research and M33 signals share: two   *)
(* simple moving averages of the closes, the bars at which the fast one    *)
(* crosses the slow one, and the long-only position that the crossings     *)
(* leave.  Prices are integers, whose means the code's floats order        *)
(* exactly, so averages are compared as cross-multiplied sums.             *)
(***************************************************************************)
EXTENDS Integers, Sequences

Last(s, n) == SubSeq(s, Len(s) - n + 1, Len(s))
Total(s) ==
  LET sum[n \in 0..Len(s)] == IF n = 0 THEN 0 ELSE sum[n - 1] + s[n]
  IN  sum[Len(s)]

\* The sign of fast - slow after n bars; before the slow window is full there is no average.
HasAverages(n, slow) == n >= slow
Spread(prices, n, fast, slow) ==
  LET seen == SubSeq(prices, 1, n)
  IN  Total(Last(seen, fast)) * slow - Total(Last(seen, slow)) * fast

Bullish(prices, n, fast, slow) ==
  /\ HasAverages(n - 1, slow)
  /\ Spread(prices, n, fast, slow) > 0 /\ Spread(prices, n - 1, fast, slow) <= 0
Bearish(prices, n, fast, slow) ==
  /\ HasAverages(n - 1, slow)
  /\ Spread(prices, n, fast, slow) < 0 /\ Spread(prices, n - 1, fast, slow) >= 0

\* The position after each bar: a bullish event buys, a bearish one sells, any other holds.
Positions(prices, fast, slow) ==
  LET held[n \in 0..Len(prices)] ==
        IF n = 0 THEN 0
        ELSE IF Bullish(prices, n, fast, slow) THEN 1
        ELSE IF Bearish(prices, n, fast, slow) THEN 0
        ELSE held[n - 1]
  IN  [n \in 1..Len(prices) |-> held[n]]

LatestPosition(prices, fast, slow) == Positions(prices, fast, slow)[Len(prices)]
=============================================================================
