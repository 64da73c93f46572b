------------------------ MODULE StrategyOrder_proofs ------------------------
(* Proofs about StrategyOrder, for every stream of events, every runtime and   *)
(* policy, and all versions of the account; and, at the end, about the replays *)
(* they are evaluated on (MarketReplay) and their stored rows (StrategyRecords).*)
EXTENDS StrategyOrders, FiniteSetTheorems, SequenceTheorems, TLAPS

-----------------------------------------------------------------------------
(* Naturals, and functions defined along them *)

\* The sets 0..m are ordered as the numbers m are.
LEMMA Least ==
  ASSUME NEW T, T \subseteq Nat, T # {}
  PROVE  \E m \in T : \A k \in T : m <= k
<1> DEFINE Below == {0..m : m \in T}
<1>1. Below \subseteq FiniteSubsetsOf(Nat) /\ Below # {}
  <2>1. \A m \in T : m \in Nat /\ IsFiniteSet(0..m) /\ 0..m \subseteq Nat
    BY FS_Interval
  <2> QED
    BY <2>1 DEF FiniteSubsetsOf
<1>2. PICK S \in Below : \A U \in Below : ~ (<<U, S>> \in StrictSubsetOrdering(Nat))
  BY <1>1, FS_StrictSubsetOrderingWellFounded, WFMin
<1>3. PICK m \in T : S = 0..m
  BY <1>2
<1>4. ASSUME NEW k \in T, k < m
      PROVE  <<0..k, S>> \in StrictSubsetOrdering(Nat)
  <2>1. 0..k \subseteq S /\ m \in S /\ m \notin 0..k
    BY <1>3, <1>4
  <2> QED
    BY <1>3, <1>4, <2>1 DEF StrictSubsetOrdering
<1>5. \A k \in T : 0..k \in Below
  OBVIOUS
<1>6. \A k \in T : ~ (k < m)
  BY <1>2, <1>4, <1>5
<1> QED
  BY <1>6

\* What holds of 0 and goes from each number to the next holds of all: as a set, since a
\* predicate cannot be a parameter.
LEMMA Induction ==
  ASSUME NEW T, 0 \in T, \A n \in Nat : n \in T => n + 1 \in T
  PROVE  Nat \subseteq T
<1> SUFFICES ASSUME Nat \ T # {} PROVE FALSE
  OBVIOUS
<1>1. PICK m \in Nat \ T : \A k \in Nat \ T : m <= k
  BY Least
<1>2. m - 1 \in Nat /\ (m - 1) + 1 = m
  BY <1>1
<1>3. m - 1 \in T
  BY <1>1, <1>2
<1> QED
  BY <1>1, <1>2, <1>3

\* A first value and a step to the next one define a function.
Follows(f, V, N, v0, step) ==
  f \in [0..N -> V] /\ f[0] = v0 /\ \A n \in 1..N : f[n] = step[n][f[n - 1]]

LEMMA Recursion ==
  ASSUME NEW V, NEW v0 \in V, NEW N \in Nat, NEW step \in [1..N -> [V -> V]]
  PROVE  \E f : Follows(f, V, N, v0, step)
<1> DEFINE Good(m, f) == f[0] = v0 /\ \A n \in 1..m : f[n] = step[n][f[n - 1]]
           T == {m \in Nat : m <= N => \E f \in [0..m -> V] : Good(m, f)}
<1>1. 0 \in T
  <2>1. [n \in 0..0 |-> v0] \in [0..0 -> V] /\ Good(0, [n \in 0..0 |-> v0])
    OBVIOUS
  <2> QED
    BY <2>1
<1>2. ASSUME NEW m \in Nat, m \in T, m + 1 <= N
      PROVE  \E f \in [0..(m + 1) -> V] : Good(m + 1, f)
  <2>1. PICK f \in [0..m -> V] : Good(m, f)
    BY <1>2
  <2> DEFINE g == [n \in 0..(m + 1) |-> IF n = m + 1 THEN step[m + 1][f[m]] ELSE f[n]]
  <2>2. step[m + 1] \in [V -> V] /\ f[m] \in V
    BY <1>2, <2>1
  <2>3. g \in [0..(m + 1) -> V]
    BY <2>2
  <2>4. \A n \in 0..m : g[n] = f[n]
    OBVIOUS
  <2>5. g[m + 1] = step[m + 1][g[m]]
    BY <2>4
  <2> HIDE DEF g
  <2>6. \A n \in 1..m : g[n] = step[n][g[n - 1]]
    BY <2>1, <2>4
  <2>7. Good(m + 1, g)
    BY <2>1, <2>4, <2>5, <2>6
  <2> QED
    BY <2>3, <2>7
<1> HIDE DEF Good
<1>3. \A m \in Nat : m \in T => m + 1 \in T
  <2> SUFFICES ASSUME NEW m \in Nat, m \in T, m + 1 <= N
               PROVE  \E f \in [0..(m + 1) -> V] : Good(m + 1, f)
    OBVIOUS
  <2> QED
    BY <1>2
<1> HIDE DEF T
<1>4. N \in T
  BY <1>1, <1>3, Induction
<1> QED
  BY <1>4 DEF T, Good, Follows

-----------------------------------------------------------------------------
(* Averages *)

LEMMA TotalType ==
  ASSUME NEW s \in Seq(Int)
  PROVE  Total(s) \in Int
<1> DEFINE N == Len(s)
           Sums(f) == f = [n \in 0..N |-> IF n = 0 THEN 0 ELSE f[n - 1] + s[n]]
           sum == CHOOSE f : Sums(f)
           step == [n \in 1..N |-> [v \in Int |-> v + s[n]]]
<1>1. N \in Nat /\ \A n \in 1..N : s[n] \in Int
  OBVIOUS
<1>2. step \in [1..N -> [Int -> Int]]
  BY <1>1
<1>3. PICK f : Follows(f, Int, N, 0, step)
  <2> HIDE DEF step, N
  <2>1. \A v0 \in Int : \E f : Follows(f, Int, N, v0, step)
    BY <1>1, <1>2, Recursion
  <2> QED
    BY <2>1
<1>4. \A n \in 1..N : f[n] = f[n - 1] + s[n]
  <2> SUFFICES ASSUME NEW n \in 1..N PROVE f[n] = f[n - 1] + s[n]
    OBVIOUS
  <2>1. n - 1 \in 0..N
    BY <1>1
  <2> QED
    BY <1>3, <2>1 DEF Follows
<1>5. Sums(f)
  BY <1>3, <1>4 DEF Follows
<1>6. Sums(sum)
  BY <1>5, Zenon
<1>7. Total(s) = sum[N]
  BY Zenon DEF Total
<1> HIDE DEF sum, N
<1>8. sum[0] = 0 /\ \A n \in 1..N : sum[n] = sum[n - 1] + s[n]
  BY <1>1, <1>6
<1> DEFINE T == {n \in Nat : n \in 0..N => sum[n] \in Int}
<1>9. 0 \in T
  BY <1>8
<1>10. ASSUME NEW n \in Nat, n \in T
       PROVE  n + 1 \in T
  <2>1. CASE n + 1 \in 0..N
    <3>1. n \in 0..N /\ n + 1 \in 1..N /\ (n + 1) - 1 = n
      BY <2>1, <1>1
    <3>2. sum[n + 1] = sum[n] + s[n + 1]
      BY <1>8, <3>1
    <3> QED
      BY <1>1, <1>10, <3>1, <3>2
  <2>2. CASE n + 1 \notin 0..N
    BY <2>2
  <2> QED
    BY <2>1, <2>2
<1> HIDE DEF T
<1>11. Nat \subseteq T
  BY <1>9, <1>10, Induction
<1> QED
  BY <1>1, <1>7, <1>11 DEF T

\* An average is there once its window is full.
LEMMA SpreadType ==
  ASSUME NEW s \in Seq(Int), NEW fast \in Nat, NEW slow \in Nat, NEW n \in Nat,
         fast <= n, slow <= n, n <= Len(s)
  PROVE  Spread(s, n, fast, slow) \in Int
<1> DEFINE seen == SubSeq(s, 1, n)
<1>1. seen \in Seq(Int) /\ Len(seen) = n
  OBVIOUS
<1> HIDE DEF seen
<1>2. Last(seen, fast) \in Seq(Int) /\ Last(seen, slow) \in Seq(Int)
  BY <1>1 DEF Last
<1>3. Total(Last(seen, fast)) \in Int /\ Total(Last(seen, slow)) \in Int
  BY <1>2, TotalType
<1>4. Spread(s, n, fast, slow) = Total(Last(seen, fast)) * slow - Total(Last(seen, slow)) * fast
  BY DEF Spread, seen
<1> QED
  BY <1>3, <1>4

\* The position is long exactly when a bar crossed upwards and none downwards after it.
LEMMA PositionFollowsCrossings ==
  ASSUME NEW s, NEW fast, NEW slow, Len(s) \in Nat \ {0}
  PROVE  LatestPosition(s, fast, slow) =
           IF \E m \in 1..Len(s) : /\ Bullish(s, m, fast, slow)
                                   /\ \A k \in m + 1..Len(s) : ~Bearish(s, k, fast, slow)
           THEN 1 ELSE 0
<1> DEFINE N == Len(s)
           Up   == {n \in 1..N : Bullish(s, n, fast, slow)}
           Down == {n \in 1..N : Bearish(s, n, fast, slow)}
           Long(n) == \E m \in 1..n : m \in Up /\ \A k \in m + 1..n : k \notin Down
           Moves(f) == f = [n \in 0..N |-> IF n = 0 THEN 0
                                           ELSE IF n \in Up THEN 1
                                           ELSE IF n \in Down THEN 0 ELSE f[n - 1]]
           Holds(f) == f = [n \in 0..N |-> IF n = 0 THEN 0
                                           ELSE IF Bullish(s, n, fast, slow) THEN 1
                                           ELSE IF Bearish(s, n, fast, slow) THEN 0 ELSE f[n - 1]]
           held == CHOOSE f : Holds(f)
<1>1. \A f : Holds(f) <=> Moves(f)
  <2>1. \A n \in 0..N : n # 0 => /\ Bullish(s, n, fast, slow) <=> n \in Up
                                 /\ Bearish(s, n, fast, slow) <=> n \in Down
    OBVIOUS
  <2> HIDE DEF Up, Down
  <2> QED
    BY <2>1
<1>2. N \in Nat /\ N # 0
  OBVIOUS
<1>3. LatestPosition(s, fast, slow) = held[N]
  <2>1. Positions(s, fast, slow) = [n \in 1..N |-> held[n]]
    BY Zenon DEF Positions
  <2>2. N \in 1..N
    BY <1>2
  <2> HIDE DEF N, held
  <2> QED
    BY <2>1, <2>2 DEF LatestPosition, N
<1> HIDE DEF N, Up, Down
<1>4. \A n \in Nat : Long(n + 1) <=> n + 1 \in Up \/ (n + 1 \notin Down /\ Long(n))
  <2> SUFFICES ASSUME NEW n \in Nat
               PROVE  Long(n + 1) <=> n + 1 \in Up \/ (n + 1 \notin Down /\ Long(n))
    OBVIOUS
  <2>1. ASSUME Long(n + 1)
        PROVE  n + 1 \in Up \/ (n + 1 \notin Down /\ Long(n))
    <3>1. PICK m \in 1..n + 1 : m \in Up /\ \A k \in m + 1..n + 1 : k \notin Down
      BY <2>1
    <3>2. CASE m = n + 1
      BY <3>1, <3>2
    <3>3. CASE m # n + 1
      <4>1. m \in 1..n /\ n + 1 \in m + 1..n + 1 /\ m + 1..n \subseteq m + 1..n + 1
        BY <3>3
      <4> QED
        BY <3>1, <4>1
    <3> QED
      BY <3>2, <3>3
  <2>2. ASSUME n + 1 \in Up
        PROVE  Long(n + 1)
    <3>1. n + 1 \in 1..n + 1 /\ (n + 1) + 1..n + 1 = {}
      OBVIOUS
    <3> QED
      BY <2>2, <3>1
  <2>3. ASSUME n + 1 \notin Down, Long(n)
        PROVE  Long(n + 1)
    <3>1. PICK m \in 1..n : m \in Up /\ \A k \in m + 1..n : k \notin Down
      BY <2>3
    <3>2. m \in 1..n + 1 /\ \A k \in m + 1..n + 1 : k \in m + 1..n \/ k = n + 1
      OBVIOUS
    <3> QED
      BY <2>3, <3>1, <3>2
  <2> QED
    BY <2>1, <2>2, <2>3
<1>5. ~Long(0)
  OBVIOUS
<1> HIDE DEF Long
<1>6. Moves([n \in 0..N |-> IF Long(n) THEN 1 ELSE 0])
  <2> DEFINE g == [n \in 0..N |-> IF Long(n) THEN 1 ELSE 0]
  <2>1. \A n \in 0..N : n # 0 => n - 1 \in 0..N /\ (n - 1) + 1 = n /\ n - 1 \in Nat
    BY <1>2
  <2>2. g[0] = 0
    BY <1>2, <1>5
  <2>3. \A n \in 0..N : n # 0 =>
          g[n] = IF n \in Up THEN 1 ELSE IF n \in Down THEN 0 ELSE g[n - 1]
    BY <1>4, <2>1
  <2>4. g = [n \in 0..N |-> g[n]]
    OBVIOUS
  <2> HIDE DEF g
  <2>5. g = [n \in 0..N |-> IF n = 0 THEN 0 ELSE IF n \in Up THEN 1
                            ELSE IF n \in Down THEN 0 ELSE g[n - 1]]
    BY <2>2, <2>3, <2>4
  <2> QED
    BY <2>5 DEF g
<1>7. Holds(held)
  <2> HIDE DEF Moves, Holds
  <2>1. \E f : Holds(f)
    BY <1>1, <1>6
  <2> QED
    BY <2>1, Zenon
<1>8. held[0] = 0 /\ \A n \in 1..N : held[n] = IF n \in Up THEN 1 ELSE IF n \in Down THEN 0 ELSE held[n - 1]
  <2>1. Moves(held)
    BY <1>1, <1>7
  <2> HIDE DEF held
  <2> QED
    BY <1>2, <2>1
<1> HIDE DEF held
<1> DEFINE T == {n \in Nat : n <= N => held[n] = IF Long(n) THEN 1 ELSE 0}
<1>9. 0 \in T
  BY <1>5, <1>8
<1>10. ASSUME NEW n \in Nat, n \in T
       PROVE  n + 1 \in T
  <2>1. CASE n + 1 <= N
    <3>1. n <= N /\ n + 1 \in 1..N /\ (n + 1) - 1 = n
      BY <1>2, <2>1
    <3>2. held[n + 1] = IF n + 1 \in Up THEN 1 ELSE IF n + 1 \in Down THEN 0 ELSE held[n]
      BY <1>8, <3>1
    <3>3. held[n] = IF Long(n) THEN 1 ELSE 0
      BY <1>10, <3>1
    <3>4. Long(n + 1) <=> n + 1 \in Up \/ (n + 1 \notin Down /\ Long(n))
      BY <1>4
    <3>5. held[n + 1] = IF Long(n + 1) THEN 1 ELSE 0
      BY <3>2, <3>3, <3>4
    <3> QED
      BY <3>5
  <2>2. CASE ~(n + 1 <= N)
    BY <2>2
  <2> QED
    BY <2>1, <2>2
<1> HIDE DEF T
<1>11. Nat \subseteq T
  BY <1>9, <1>10, Induction
<1>12. held[N] = IF Long(N) THEN 1 ELSE 0
  BY <1>2, <1>11 DEF T
<1>13. Long(N) <=> \E m \in 1..N : /\ Bullish(s, m, fast, slow)
                                   /\ \A k \in m + 1..N : ~Bearish(s, k, fast, slow)
  <2>1. \A m \in 1..N : \A k \in m + 1..N : k \in 1..N
    BY <1>2
  <2> QED
    BY <2>1 DEF Long, Up, Down
<1> QED
  BY <1>3, <1>12, <1>13 DEF N

\* What the crossings amount to: the fast average rose above the slow one at some bar, after
\* one at which it was not above, and has not been below since.
LEMMA LongSince ==
  ASSUME NEW s \in Seq(Int), NEW slow \in Nat, NEW fast \in 1..slow - 1, Len(s) >= 1
  PROVE  LatestPosition(s, fast, slow) =
           IF \E n \in slow + 1..Len(s) : /\ Spread(s, n - 1, fast, slow) <= 0
                                          /\ Spread(s, n, fast, slow) > 0
                                          /\ \A k \in n..Len(s) : Spread(s, k, fast, slow) >= 0
           THEN 1 ELSE 0
<1> DEFINE N == Len(s)
           sign(n) == Spread(s, n, fast, slow)
           Since(n) == sign(n - 1) <= 0 /\ sign(n) > 0 /\ \A k \in n..N : sign(k) >= 0
<1>1. N \in Nat \ {0} /\ fast \in Nat /\ fast <= slow
  OBVIOUS
<1>2. \A n \in slow..N : sign(n) \in Int
  <2> SUFFICES ASSUME NEW n \in slow..N PROVE sign(n) \in Int
    OBVIOUS
  <2>1. n \in Nat /\ fast <= n /\ slow <= n /\ n <= Len(s)
    BY <1>1
  <2> QED
    BY <1>1, <2>1, SpreadType
<1> HIDE DEF sign
<1>3. \A n \in Int : Bullish(s, n, fast, slow) <=> n - 1 >= slow /\ sign(n) > 0 /\ sign(n - 1) <= 0
  BY DEF Bullish, HasAverages, sign
<1>4. \A n \in Int : Bearish(s, n, fast, slow) <=> n - 1 >= slow /\ sign(n) < 0 /\ sign(n - 1) >= 0
  BY DEF Bearish, HasAverages, sign
<1> HIDE DEF N
<1>5. ASSUME NEW n \in slow + 1..N, Since(n)
      PROVE  \E m \in 1..N : /\ Bullish(s, m, fast, slow)
                             /\ \A k \in m + 1..N : ~Bearish(s, k, fast, slow)
  <2>1. n \in 1..N /\ n - 1 >= slow /\ n \in Int
    BY <1>1
  <2>2. Bullish(s, n, fast, slow)
    BY <1>3, <1>5, <2>1
  <2>3. ASSUME NEW k \in n + 1..N PROVE ~Bearish(s, k, fast, slow)
    <3>1. k \in n..N /\ k \in slow..N /\ k \in Int
      BY <1>1, <2>1
    <3>2. sign(k) >= 0 /\ sign(k) \in Int
      BY <1>2, <1>5, <3>1
    <3> QED
      BY <1>4, <3>1, <3>2
  <2> QED
    BY <2>1, <2>2, <2>3
<1>6. ASSUME NEW m \in 1..N, Bullish(s, m, fast, slow),
             \A k \in m + 1..N : ~Bearish(s, k, fast, slow)
      PROVE  m \in slow + 1..N /\ Since(m)
  <2>1. m \in Int /\ m - 1 >= slow /\ sign(m) > 0 /\ sign(m - 1) <= 0
    BY <1>3, <1>6
  <2> DEFINE Fallen == {k \in Nat : k \in m..N /\ sign(k) < 0}
  <2>2. Fallen = {}
    <3> SUFFICES ASSUME Fallen # {} PROVE FALSE
      OBVIOUS
    <3>1. PICK k \in Fallen : \A j \in Fallen : k <= j
      BY Least
    <3>2. k \in m..N /\ sign(k) < 0 /\ k \in slow..N /\ m \in slow..N
      BY <1>1, <2>1, <3>1
    <3>3. k # m
      BY <1>2, <2>1, <3>2
    <3>4. k \in m + 1..N /\ k - 1 \in m..N /\ k - 1 \in slow..N /\ k - 1 \in Nat /\ ~(k <= k - 1)
      BY <1>1, <2>1, <3>2, <3>3
    <3>5. k - 1 \notin Fallen
      BY <3>1, <3>4
    <3>6. sign(k - 1) >= 0
      BY <1>2, <3>4, <3>5
    <3>7. Bearish(s, k, fast, slow)
      BY <1>4, <2>1, <3>2, <3>4, <3>6
    <3> QED
      BY <1>6, <3>4, <3>7
  <2>3. ASSUME NEW k \in m..N PROVE sign(k) >= 0
    <3>1. k \in Nat /\ k \in slow..N
      BY <1>1, <2>1
    <3> QED
      BY <1>2, <2>2, <3>1
  <2> QED
    BY <1>1, <2>1, <2>3
<1>7. (\E m \in 1..N : /\ Bullish(s, m, fast, slow)
                       /\ \A k \in m + 1..N : ~Bearish(s, k, fast, slow))
        <=> \E n \in slow + 1..N : Since(n)
  <2> HIDE DEF Since
  <2> QED
    BY <1>5, <1>6
<1>8. (\E n \in slow + 1..N : Since(n))
        <=> \E n \in slow + 1..N : /\ sign(n - 1) <= 0 /\ sign(n) > 0
                                   /\ \A k \in n..N : sign(k) >= 0
  OBVIOUS
<1> QED
  BY <1>1, <1>7, <1>8, PositionFollowsCrossings DEF N, sign

-----------------------------------------------------------------------------
(* The trades of a stream *)

LEMMA TradePricesFacts ==
  ASSUME NEW i, NEW n \in 0..Len(Stream), Len(Stream) \in Nat, DOMAIN Stream = 1..Len(Stream)
  PROVE  /\ TradePrices(i, n) \in Seq(Int)
         /\ Trades(i, n) = {} => TradePrices(i, n) = <<>>
<1> DEFINE Prices(f) == f = [k \in 0..n |-> IF k = 0 THEN <<>>
                               ELSE IF k \in Trades(i, n) THEN Append(f[k - 1], Stream[k].price)
                               ELSE f[k - 1]]
           prices == CHOOSE f : Prices(f)
           step == [k \in 1..n |-> [v \in Seq(Int) |->
                      IF k \in Trades(i, n) THEN Append(v, Stream[k].price) ELSE v]]
<1>1. n \in Nat /\ \A k \in 1..n : Stream[k].price \in Int
  BY StrategyOrderAssumption DEF StrategyOrderAssumption
<1>2. step \in [1..n -> [Seq(Int) -> Seq(Int)]]
  <2>1. \A k \in 1..n : \A v \in Seq(Int) :
          (IF k \in Trades(i, n) THEN Append(v, Stream[k].price) ELSE v) \in Seq(Int)
    BY <1>1
  <2> QED
    BY <2>1
<1>3. PICK f : Follows(f, Seq(Int), n, <<>>, step)
  <2>1. <<>> \in Seq(Int)
    OBVIOUS
  <2> HIDE DEF step
  <2>2. \A v0 \in Seq(Int) : \E f : Follows(f, Seq(Int), n, v0, step)
    BY <1>1, <1>2, Recursion
  <2> QED
    BY <2>1, <2>2
<1>4. ASSUME NEW k \in 1..n
      PROVE  f[k] = IF k \in Trades(i, n) THEN Append(f[k - 1], Stream[k].price) ELSE f[k - 1]
  <2>1. k - 1 \in 0..n
    BY <1>1
  <2>2. f[k - 1] \in Seq(Int) /\ f[k] = step[k][f[k - 1]]
    BY <1>3, <2>1 DEF Follows
  <2> QED
    BY <2>2
<1>5. Prices(f)
  <2>1. f \in [0..n -> Seq(Int)] /\ f[0] = <<>>
    BY <1>3 DEF Follows
  <2>2. f = [k \in 0..n |-> f[k]]
    BY <2>1
  <2>3. \A k \in 0..n : k = 0 \/ k \in 1..n
    BY <1>1
  <2> QED
    BY <1>4, <2>1, <2>2, <2>3
<1>6. Prices(prices)
  BY <1>5, Zenon
<1>7. TradePrices(i, n) = prices[n]
  BY Zenon DEF TradePrices
<1> HIDE DEF prices
<1>8. /\ prices[0] = <<>>
      /\ \A k \in 1..n : prices[k] = IF k \in Trades(i, n) THEN Append(prices[k - 1], Stream[k].price)
                                     ELSE prices[k - 1]
  <2>1. \A k \in 0..n : prices[k] =
          IF k = 0 THEN <<>> ELSE IF k \in Trades(i, n) THEN Append(prices[k - 1], Stream[k].price)
          ELSE prices[k - 1]
    BY <1>6, Zenon
  <2>2. 0 \in 0..n /\ \A k \in 1..n : k \in 0..n /\ k # 0
    BY <1>1
  <2> QED
    BY <2>1, <2>2, Zenon
<1> DEFINE T == {k \in Nat : k <= n => /\ prices[k] \in Seq(Int)
                                       /\ Trades(i, n) = {} => prices[k] = <<>>}
<1>9. 0 \in T
  <2>1. <<>> \in Seq(Int) /\ 0 \in Nat
    OBVIOUS
  <2> QED
    BY <1>8, <2>1, Zenon
<1>10. ASSUME NEW k \in Nat, k \in T
       PROVE  k + 1 \in T
  <2>1. CASE k + 1 <= n
    <3>1. k <= n /\ k + 1 \in 1..n /\ (k + 1) - 1 = k
      BY <1>1, <2>1
    <3>2. prices[k + 1] = IF k + 1 \in Trades(i, n) THEN Append(prices[k], Stream[k + 1].price)
                          ELSE prices[k]
      <4>1. prices[(k + 1) - 1] = prices[k]
        BY <3>1
      <4> QED
        BY <1>8, <3>1, <4>1, Zenon
    <3>3. prices[k] \in Seq(Int) /\ (Trades(i, n) = {} => prices[k] = <<>>)
      BY <1>10, <3>1
    <3>4. Append(prices[k], Stream[k + 1].price) \in Seq(Int)
      BY <1>1, <3>1, <3>3
    <3>5. prices[k + 1] \in Seq(Int)
      BY <3>2, <3>3, <3>4, Zenon
    <3>6. Trades(i, n) = {} => prices[k + 1] = <<>>
      BY <3>2, <3>3, Zenon
    <3>7. k + 1 \in Nat
      OBVIOUS
    <3> QED
      BY <3>5, <3>6, <3>7, Zenon
  <2>2. CASE ~(k + 1 <= n)
    BY <2>2
  <2> QED
    BY <2>1, <2>2
<1> HIDE DEF T
<1>11. Nat \subseteq T
  BY <1>9, <1>10, Induction
<1> QED
  BY <1>1, <1>7, <1>11 DEF T

\* The last of some trades.
LEMMA LatestTradeFacts ==
  ASSUME NEW i, NEW n \in 0..Len(Stream), Len(Stream) \in Nat, Trades(i, n) # {}
  PROVE  LatestTrade(i, n) \in Trades(i, n) /\ \A j \in Trades(i, n) : j <= LatestTrade(i, n)
<1> DEFINE T == {n - k : k \in Trades(i, n)}
<1>1. n \in Nat /\ Trades(i, n) \subseteq 1..n
  BY DEF Trades
<1>2. T \subseteq Nat /\ T # {}
  BY <1>1
<1>3. PICK m \in T : \A j \in T : m <= j
  BY <1>2, Least
<1>4. PICK k \in Trades(i, n) : m = n - k
  BY <1>3
<1>5. \A j \in Trades(i, n) : n - j \in T /\ n \in Int /\ j \in Int /\ k \in Int
  BY <1>1
<1>6. \A j \in Trades(i, n) : j <= k
  <2> SUFFICES ASSUME NEW j \in Trades(i, n) PROVE j <= k
    OBVIOUS
  <2>1. n - k <= n - j
    BY <1>3, <1>4, <1>5
  <2> QED
    BY <1>5, <2>1
<1> QED
  BY <1>4, <1>6 DEF LatestTrade

-----------------------------------------------------------------------------
(* The invariant *)

\* A signal is of the event the cursor stood at, and of enough trades before it.
SignalRight(r) ==
  /\ r.is.position = r.at.cursor /\ r.is.position \in 1..cursor
  /\ r.is.target = Target(r.is.runtime, r.is.instrument, r.is.position)
  /\ Evaluable(r.is.runtime, r.is.instrument, r.is.position)

\* An intent binds a version of the account that is still there, and comes after its signal.
IntentRight(r) ==
  LET i == r.is
      a == i.account
  IN  /\ Has(signals, i.signal)
      /\ a.version \in 1..Len(book) /\ book[a.version].active
      /\ a.cash = book[a.version].cash /\ a.held = book[a.version].held[i.signal.instrument]
      /\ i = Derived(i.signal, a)
      /\ r.at.version = a.version
      /\ i.signal.position <= r.at.cursor /\ r.at.cursor <= cursor

\* A decision is of the moment of its intent, and of the event of its signal.
DecisionRight(r) ==
  LET d == r.is
      latest == LatestTrade(d.intent.signal.instrument, r.at.cursor)
  IN  /\ \E i \in intents : i.is = d.intent /\ i.at = r.at
      /\ Has(signals, d.intent.signal)
      /\ r.at.cursor = d.intent.signal.position
      /\ d.priceAt = latest /\ d.price = Stream[latest].price
      /\ d.notional = d.intent.quantity * d.price
      /\ d.reasons = Failed(d.intent, d.policy, d.notional)
      /\ d.outcome = "allow" => d.reasons = {}

Single(table) == \A r, s \in table : r.is = s.is => r = s

RowsRight ==
  /\ Single(signals) /\ Single(intents) /\ Single(decisions)
  /\ \A r \in signals : SignalRight(r)
  /\ \A r \in intents : IntentRight(r)
  /\ \A r \in decisions : DecisionRight(r)

\* What was asked is read off the stored result and its receipt.
Asked(r) ==
  IF r.ns = "evaluate_strategy_signal" THEN <<r.actor, r.result.runtime, r.result.position>>
  ELSE IF r.ns = "derive_order_intent"
  THEN <<r.actor, r.result.signal, r.result.account.version>>
  ELSE <<r.actor, r.result.intent, r.result.policy, r.result.intent.account.version,
         r.result.intent.signal.position>>
Telling(r) == [ns |-> r.ns, key |-> r.key, asked |-> Asked(r), result |-> r.result]

Found(r) ==
  \/ r.ns = "evaluate_strategy_signal" /\ Has(signals, r.result)
  \/ r.ns = "derive_order_intent" /\ (IsNoAction(r.result) \/ Has(intents, r.result))
  \/ r.ns = "evaluate_pre_trade_risk" /\ Has(decisions, r.result)

AnswersRight ==
  /\ \A r, s \in receipts : r.ns = s.ns /\ r.key = s.key => r = s
  /\ \A r \in receipts : Found(r)
  /\ \A t \in told : \E r \in receipts : t = Telling(r)

IInv == TypeOK /\ RowsRight /\ AnswersRight

StreamFacts == /\ Len(Stream) \in Nat /\ DOMAIN Stream = 1..Len(Stream)
               /\ \A i \in 1..Len(Stream) : Stream[i].price \in Int /\ Stream[i].instrument \in Instrument
LEMMA StreamIs == StreamFacts
BY StrategyOrderAssumption DEF StrategyOrderAssumption, StreamFacts, Instrument

LEMMA SignalFacts ==
  ASSUME NEW s \in Signal
  PROVE  /\ s.position \in 1..Len(Stream) /\ s.position \in Nat /\ s.target \in Nat
         /\ s.instrument \in Instrument /\ s.runtime \in Runtime
         /\ s = [runtime |-> s.runtime, position |-> s.position, instrument |-> s.instrument,
                 target |-> s.target]
<1>1. /\ s.position \in Position /\ s.target \in Nat
      /\ s.instrument \in Instrument /\ s.runtime \in Runtime
  BY DEF Signal
<1>2. s.position \in 1..Len(Stream) /\ s.position \in Nat
  BY <1>1, StreamIs DEF StreamFacts, Position
<1>3. s = [runtime |-> s.runtime, position |-> s.position, instrument |-> s.instrument,
           target |-> s.target]
  BY DEF Signal
<1> QED
  BY <1>1, <1>2, <1>3

LEMMA AccountFacts ==
  ASSUME NEW a \in Account
  PROVE  a.version \in Version /\ a.version \in Nat /\ a.cash \in Nat /\ a.held \in Nat
<1>1. a.version \in Version /\ a.cash \in Nat /\ a.held \in Nat
  BY DEF Account
<1>2. a.version \in Nat
  BY <1>1, StrategyOrderAssumption DEF Version, StrategyOrderAssumption
<1> QED
  BY <1>1, <1>2

LEMMA IntentFacts ==
  ASSUME NEW i \in Intent
  PROVE  /\ i.signal \in Signal /\ i.account \in Account /\ i.quantity \in Nat \ {0}
         /\ i.side \in {"buy", "sell"} /\ ~IsNoAction(i)
BY DEF Intent, IsNoAction

LEMMA DecisionFacts ==
  ASSUME NEW d \in Decision
  PROVE  /\ d.intent \in Intent /\ d.policy \in RiskPolicy
         /\ d.price \in Nat /\ d.notional \in Nat
BY DEF Decision

LEMMA RowFacts ==
  /\ \A T : \A r \in Row(T) : r.is \in T /\ r.at.cursor \in 0..Len(Stream) /\ r.at.version \in Version
  /\ \A n \in 0..Len(Stream) : n \in Nat
  /\ \A n \in Version : n \in Nat
<1>1. \A T : \A r \in Row(T) : r.is \in T /\ r.at.cursor \in 0..Len(Stream) /\ r.at.version \in Version
  BY DEF Row, Moment
<1>2. \A n \in 0..Len(Stream) : n \in Nat
  BY StreamIs DEF StreamFacts
<1>3. \A n \in Version : n \in Nat
  BY DEF Version
<1> QED
  BY <1>1, <1>2, <1>3

\* What an intent is derived to be: the order that ends at its signal's target.
LEMMA DerivedIs ==
  ASSUME NEW s \in Signal, NEW a \in Account
  PROVE  /\ Derived(s, a).signal = s /\ Derived(s, a).account = a
         /\ IsNoAction(Derived(s, a)) => Derived(s, a) \in NoAction
         /\ ~IsNoAction(Derived(s, a)) =>
              /\ Derived(s, a) \in Intent
              /\ Derived(s, a).side = "buy" => a.held + Derived(s, a).quantity = s.target
              /\ Derived(s, a).side = "sell" => a.held - Derived(s, a).quantity = s.target
<1>1. a.held \in Nat /\ s.target \in Nat
  BY AccountFacts, SignalFacts
<1>2. CASE s.target = a.held
  <2>1. Derived(s, a) = [signal |-> s, account |-> a, reason |-> "target_satisfied"]
    BY <1>2, Zenon DEF Derived
  <2> QED
    BY <2>1 DEF IsNoAction, NoAction
<1>3. CASE s.target > a.held
  <2> DEFINE n == s.target - a.held
  <2>1. s.target # a.held /\ n \in Nat \ {0} /\ a.held + n = s.target
    BY <1>1, <1>3
  <2>2. Derived(s, a) = [signal |-> s, account |-> a, side |-> "buy", quantity |-> n]
    BY <1>3, <2>1, Zenon DEF Derived
  <2> HIDE DEF n
  <2> QED
    BY <2>1, <2>2 DEF IsNoAction, Intent
<1>4. CASE a.held > s.target
  <2> DEFINE n == a.held - s.target
  <2>1. s.target # a.held /\ n \in Nat \ {0} /\ a.held - n = s.target /\ ~(s.target > a.held)
    BY <1>1, <1>4
  <2>2. Derived(s, a) = [signal |-> s, account |-> a, side |-> "sell", quantity |-> n]
    BY <2>1, Zenon DEF Derived
  <2> HIDE DEF n
  <2> QED
    BY <2>1, <2>2 DEF IsNoAction, Intent
<1> QED
  BY <1>1, <1>2, <1>3, <1>4

\* Some trade was seen by every signal, at an event of the stream.
LEMMA TradeSeen ==
  ASSUME IInv, NEW s \in signals
  PROVE  /\ s.is.position \in 0..Len(Stream) /\ s.is.position \in Nat
         /\ LatestTrade(s.is.instrument, s.is.position) \in Trades(s.is.instrument, s.is.position)
         /\ \A j \in Trades(s.is.instrument, s.is.position) :
              j <= LatestTrade(s.is.instrument, s.is.position)
<1> DEFINE n == s.is.position
           i == s.is.instrument
<1>1. SignalRight(s) /\ s.is \in Signal
  BY RowFacts DEF IInv, TypeOK, RowsRight
<1>2. Len(Stream) \in Nat /\ DOMAIN Stream = 1..Len(Stream)
  BY StreamIs DEF StreamFacts
<1>3. n \in 0..Len(Stream) /\ n \in Nat /\ s.is.runtime \in Runtime
  BY <1>1, <1>2, SignalFacts
<1>4. Trades(i, n) # {}
  <2>1. Len(TradePrices(i, n)) >= s.is.runtime.slow + 1
    BY <1>1 DEF SignalRight, Evaluable
  <2>2. s.is.runtime.slow \in Nat
    BY <1>3, StrategyOrderAssumption DEF StrategyOrderAssumption
  <2>3. Trades(i, n) = {} => TradePrices(i, n) = <<>>
    BY <1>2, <1>3, TradePricesFacts
  <2>4. Len(<<>>) = 0
    OBVIOUS
  <2> QED
    BY <2>1, <2>2, <2>3, <2>4
<1>5. LatestTrade(i, n) \in Trades(i, n) /\ \A j \in Trades(i, n) : j <= LatestTrade(i, n)
  BY <1>2, <1>3, <1>4, LatestTradeFacts
<1> QED
  BY <1>3, <1>5

-----------------------------------------------------------------------------
(* What the invariant says of orders *)

LEMMA AllowedFits ==
  ASSUME IInv
  PROVE  OneMoment /\ AllowedOrderFits
<1>1. ASSUME NEW r \in decisions
      PROVE  /\ r \in Row(Decision) /\ DecisionRight(r)
             /\ \E i \in intents : i \in Row(Intent) /\ IntentRight(i) /\ i.is = r.is.intent /\ i.at = r.at
             /\ \E s \in signals : s \in Row(Signal) /\ SignalRight(s) /\ s.is = r.is.intent.signal
  BY DEF IInv, TypeOK, RowsRight, DecisionRight, Has
<1>2. OneMoment
  <2> SUFFICES ASSUME NEW d \in decisions
               PROVE  \E s \in signals, i \in intents :
                        /\ i.is = d.is.intent /\ s.is = i.is.signal
                        /\ s.at.cursor = d.at.cursor /\ i.at = d.at
    BY DEF OneMoment
  <2>1. PICK i \in intents : i.is = d.is.intent /\ i.at = d.at
    BY <1>1
  <2>2. PICK s \in signals : SignalRight(s) /\ s.is = d.is.intent.signal
    BY <1>1
  <2>3. s.at.cursor = s.is.position
    BY <2>2 DEF SignalRight
  <2>4. DecisionRight(d)
    BY <1>1
  <2>5. d.at.cursor = d.is.intent.signal.position
    BY <2>4 DEF DecisionRight
  <2> QED
    BY <2>1, <2>2, <2>3, <2>5
<1>3. AllowedOrderFits
  <2> SUFFICES ASSUME NEW r \in decisions, r.is.outcome = "allow"
               PROVE  LET d == r.is
                          i == d.intent
                          e == book[i.account.version]
                          before == e.held[i.signal.instrument]
                      IN  /\ e.active
                          /\ IF i.side = "buy" THEN /\ e.cash - i.quantity * d.price >= 0
                                                    /\ before + i.quantity = i.signal.target
                                               ELSE before - i.quantity = i.signal.target
                          /\ \A limit \in d.policy.quantity : i.quantity <= limit
                          /\ \A limit \in d.policy.notional : i.quantity * d.price <= limit
    BY DEF AllowedOrderFits
  <2> DEFINE d == r.is
             i == d.intent
             a == i.account
             e == book[a.version]
  <2>1. d \in Decision /\ i \in Intent /\ a \in Account /\ i.signal \in Signal
    <3>1. d \in Decision
      BY <1>1, RowFacts
    <3>2. i \in Intent
      BY <3>1, DecisionFacts
    <3> QED
      BY <3>1, <3>2, IntentFacts
  <2>2. /\ e.active /\ a.cash = e.cash /\ a.held = e.held[i.signal.instrument]
        /\ i = Derived(i.signal, a)
    BY <1>1 DEF IntentRight
  <2>3. Failed(i, d.policy, d.notional) = {} /\ d.notional = i.quantity * d.price
    BY <1>1 DEF DecisionRight
  <2>4. /\ i.side = "buy" => a.cash >= d.notional
        /\ \A limit \in d.policy.quantity : i.quantity <= limit
        /\ \A limit \in d.policy.notional : d.notional <= limit
    BY <2>3 DEF Failed, RiskRule
  <2>5. a.cash \in Nat /\ a.held \in Nat /\ i.signal.target \in Nat /\ d.notional \in Nat
    BY <2>1, AccountFacts, SignalFacts, DecisionFacts
  <2>6. IF i.side = "buy" THEN a.held + i.quantity = i.signal.target
                          ELSE a.held - i.quantity = i.signal.target
    <3>1. i.side \in {"buy", "sell"} /\ ~IsNoAction(i)
      BY <2>1, IntentFacts
    <3> HIDE DEF i, a
    <3>2. /\ i.side = "buy" => a.held + i.quantity = i.signal.target
          /\ i.side = "sell" => a.held - i.quantity = i.signal.target
      <4>1. ~IsNoAction(Derived(i.signal, a))
        BY <2>2, <3>1, Zenon
      <4>2. \A s \in Signal, x \in Account : ~IsNoAction(Derived(s, x)) =>
              /\ Derived(s, x).side = "buy" => x.held + Derived(s, x).quantity = s.target
              /\ Derived(s, x).side = "sell" => x.held - Derived(s, x).quantity = s.target
        BY DerivedIs, Zenon
      <4>3. /\ Derived(i.signal, a).side = "buy" => a.held + Derived(i.signal, a).quantity = i.signal.target
            /\ Derived(i.signal, a).side = "sell" => a.held - Derived(i.signal, a).quantity = i.signal.target
        BY <2>1, <4>1, <4>2, Zenon
      <4> QED
        BY <2>2, <4>3, Zenon
    <3> QED
      BY <3>1, <3>2
  <2>7. i.side = "buy" => a.cash - d.notional >= 0
    BY <2>4, <2>5
  <2> HIDE DEF d, i, a, e
  <2>8. /\ e.active
        /\ IF i.side = "buy" THEN /\ e.cash - i.quantity * d.price >= 0
                                  /\ e.held[i.signal.instrument] + i.quantity = i.signal.target
                             ELSE e.held[i.signal.instrument] - i.quantity = i.signal.target
        /\ \A limit \in d.policy.quantity : i.quantity <= limit
        /\ \A limit \in d.policy.notional : i.quantity * d.price <= limit
    BY <2>2, <2>3, <2>4, <2>6, <2>7
  <2> QED
    BY <2>8 DEF d, i, a, e
<1> QED
  BY <1>2, <1>3


LEMMA PriceOfLatest ==
  ASSUME IInv
  PROVE  PriceIsLatest
<1> SUFFICES ASSUME NEW r \in decisions
             PROVE  /\ r.is.priceAt <= r.at.cursor /\ r.is.price = Stream[r.is.priceAt].price
                    /\ Stream[r.is.priceAt].trade
                    /\ Stream[r.is.priceAt].instrument = r.is.intent.signal.instrument
                    /\ \A k \in r.is.priceAt + 1..r.at.cursor :
                         ~(Stream[k].trade /\ Stream[k].instrument = r.is.intent.signal.instrument)
  BY DEF PriceIsLatest
<1> DEFINE d == r.is
           n == r.at.cursor
           i == d.intent.signal.instrument
<1>1. DecisionRight(r) /\ d \in Decision /\ n \in 0..Len(Stream) /\ n \in Nat
  BY RowFacts DEF IInv, TypeOK, RowsRight
<1>2. PICK s \in signals : SignalRight(s) /\ s.is = d.intent.signal
  BY <1>1 DEF DecisionRight, Has, IInv, RowsRight
<1>3. s.is.position = n /\ s.is.instrument = i /\ s.is.runtime \in Runtime
  <2>1. s.is \in Signal
    BY RowFacts DEF IInv, TypeOK
  <2> QED
    BY <1>1, <1>2, <2>1, SignalFacts DEF DecisionRight
<1>5. LatestTrade(i, n) \in Trades(i, n) /\ \A j \in Trades(i, n) : j <= LatestTrade(i, n)
  BY <1>2, <1>3, TradeSeen
<1>6. d.priceAt = LatestTrade(i, n) /\ d.price = Stream[d.priceAt].price
  BY <1>1 DEF DecisionRight
<1> HIDE DEF n, i
<1>7. d.priceAt \in 1..n /\ Stream[d.priceAt].trade /\ Stream[d.priceAt].instrument = i
  BY <1>5, <1>6 DEF Trades
<1>8. ASSUME NEW k \in d.priceAt + 1..n, Stream[k].trade, Stream[k].instrument = i
      PROVE  FALSE
  <2>1. k \in 1..n /\ k > d.priceAt /\ ~(k <= d.priceAt)
    BY <1>1, <1>7
  <2>2. k \in Trades(i, n)
    BY <1>8, <2>1 DEF Trades
  <2> QED
    BY <1>5, <1>6, <2>1, <2>2
<1>9. d.priceAt <= n
  BY <1>1, <1>7
<1> QED
  BY <1>6, <1>7, <1>8, <1>9 DEF n, i

LEMMA SignalsOfThePast ==
  ASSUME IInv
  PROVE  SignalFromThePast
<1> DEFINE Long(r) == LET s == r.is
                          seen == TradePrices(s.instrument, s.position)
                          sign(n) == Spread(seen, n, s.runtime.fast, s.runtime.slow)
                      IN  \E n \in s.runtime.slow + 1..Len(seen) :
                            /\ sign(n - 1) <= 0 /\ sign(n) > 0
                            /\ \A k \in n..Len(seen) : sign(k) >= 0
<1> SUFFICES ASSUME NEW r \in signals
             PROVE  r.is.target = IF Long(r) THEN r.is.runtime.quantity ELSE 0
  BY DEF SignalFromThePast
<1> DEFINE s == r.is
           seen == TradePrices(s.instrument, s.position)
           fast == s.runtime.fast
           slow == s.runtime.slow
<1>1. SignalRight(r) /\ s \in Signal
  BY RowFacts DEF IInv, TypeOK, RowsRight
<1>2. s.position \in 0..Len(Stream) /\ s.runtime \in Runtime
  BY <1>1, SignalFacts, StreamIs DEF StreamFacts
<1>3. slow \in Nat /\ fast \in 1..slow - 1
  BY <1>2, StrategyOrderAssumption DEF StrategyOrderAssumption
<1>4. seen \in Seq(Int)
  BY <1>2, StreamIs, TradePricesFacts DEF StreamFacts
<1>5. Len(seen) >= 1
  <2>1. Len(seen) >= slow + 1
    BY <1>1 DEF SignalRight, Evaluable
  <2>2. Len(seen) \in Nat
    BY <1>4
  <2> QED
    BY <1>3, <2>1, <2>2
<1>6. LatestPosition(seen, fast, slow) = IF Long(r) THEN 1 ELSE 0
  <2> HIDE DEF s
  <2> HIDE DEF seen, fast, slow
  <2>1. LatestPosition(seen, fast, slow) =
           IF \E n \in slow + 1..Len(seen) : /\ Spread(seen, n - 1, fast, slow) <= 0
                                             /\ Spread(seen, n, fast, slow) > 0
                                             /\ \A k \in n..Len(seen) : Spread(seen, k, fast, slow) >= 0
           THEN 1 ELSE 0
    BY <1>3, <1>4, <1>5, LongSince
  <2> QED
    BY <2>1, Zenon DEF s, seen, fast, slow
<1>7. s.target = IF LatestPosition(seen, fast, slow) = 0 THEN 0 ELSE s.runtime.quantity
  BY <1>1 DEF SignalRight, Target
<1> HIDE DEF Long, seen, fast, slow
<1> QED
  BY <1>6, <1>7

-----------------------------------------------------------------------------
(* What the invariant says of answers *)

LEMMA OneAnswer ==
  ASSUME IInv
  PROVE  CommandsConverge
<1>1. AnswersAgree
  <2> SUFFICES ASSUME NEW s \in told, NEW t \in told, s.ns = t.ns, s.key = t.key
               PROVE  s = t
    BY DEF AnswersAgree
  <2>1. PICK r \in receipts : s = Telling(r)
    BY DEF IInv, AnswersRight
  <2>2. PICK x \in receipts : t = Telling(x)
    BY DEF IInv, AnswersRight
  <2>3. r.ns = s.ns /\ r.key = s.key /\ x.ns = t.ns /\ x.key = t.key
    BY <2>1, <2>2 DEF Telling
  <2>4. r = x
    BY <2>3 DEF IInv, AnswersRight
  <2> QED
    BY <2>1, <2>2, <2>4
<1>2. OneRowPerAuthority
  BY DEF OneRowPerAuthority, IInv, RowsRight, Single, AnswersRight, Found
<1> QED
  BY <1>1, <1>2 DEF CommandsConverge

LEMMA OrdersRight ==
  ASSUME IInv
  PROVE  AllowedOrdersAreRight
BY AllowedFits, PriceOfLatest, SignalsOfThePast DEF AllowedOrdersAreRight, IInv


-----------------------------------------------------------------------------
(* What the invariant rests on is kept: the cursor only advances, the book  *)
(* is only appended to, and rows and receipts are only added.               *)

Grows ==
  /\ cursor \in Nat /\ cursor' \in 0..Len(Stream) /\ cursor <= cursor'
  /\ Len(book) \in Nat /\ Len(book') \in Nat /\ Len(book) <= Len(book')
  /\ \A v \in 1..Len(book) : book'[v] = book[v]
  /\ signals \subseteq signals' /\ intents \subseteq intents' /\ decisions \subseteq decisions'

LEMMA OldRowsStayRight ==
  ASSUME IInv, Grows
  PROVE  /\ \A r \in signals : SignalRight(r)'
         /\ \A r \in intents : IntentRight(r)'
         /\ \A r \in decisions : DecisionRight(r)'
         /\ \A r \in receipts : Found(r)'
<1>1. \A x : /\ Has(signals, x) => Has(signals', x)
             /\ Has(intents, x) => Has(intents', x)
             /\ Has(decisions, x) => Has(decisions', x)
  BY DEF Has, Grows
<1>2. cursor' \in Nat
  BY RowFacts DEF Grows
<1>3. ASSUME NEW r \in signals PROVE SignalRight(r)'
  <2>1. SignalRight(r)
    BY DEF IInv, RowsRight
  <2>2. r.is.position \in 1..cursor'
    BY <1>2, <2>1 DEF SignalRight, Grows
  <2> QED
    BY <2>1, <2>2 DEF SignalRight
<1>4. ASSUME NEW r \in intents PROVE IntentRight(r)'
  <2> DEFINE a == r.is.account
  <2>1. IntentRight(r) /\ r \in Row(Intent)
    BY DEF IInv, RowsRight, TypeOK
  <2>2. a.version \in 1..Len(book') /\ book'[a.version] = book[a.version]
    BY <2>1 DEF IntentRight, Grows
  <2>3. r.at.cursor <= cursor'
    <3>1. r.at.cursor \in Nat
      BY <2>1, RowFacts
    <3>2. r.at.cursor <= cursor /\ cursor <= cursor'
      BY <2>1 DEF IntentRight, Grows
    <3> QED
      BY <1>2, <3>1, <3>2 DEF Grows
  <2>4. Has(signals', r.is.signal)
    BY <1>1, <2>1 DEF IntentRight
  <2> QED
    BY <2>1, <2>2, <2>3, <2>4 DEF IntentRight
<1>5. ASSUME NEW r \in decisions PROVE DecisionRight(r)'
  <2>1. DecisionRight(r)
    BY DEF IInv, RowsRight
  <2>2. \E i \in intents' : i.is = r.is.intent /\ i.at = r.at
    BY <2>1 DEF DecisionRight, Grows
  <2>3. Has(signals', r.is.intent.signal)
    BY <1>1, <2>1 DEF DecisionRight
  <2> QED
    BY <2>1, <2>2, <2>3 DEF DecisionRight
<1>6. ASSUME NEW r \in receipts PROVE Found(r)'
  <2>1. Found(r)
    BY DEF IInv, AnswersRight
  <2> QED
    BY <1>1, <2>1 DEF Found
<1> QED
  BY <1>3, <1>4, <1>5, <1>6

\* A row for an authority is added once, and then found.
LEMMA AddFacts ==
  ASSUME NEW table, NEW row
  PROVE  /\ table \subseteq Add(table, row) /\ Has(Add(table, row), row.is)
         /\ \A r \in Add(table, row) : r \in table \/ r = row
         /\ Single(table) => Single(Add(table, row))
BY DEF Add, Identity, Has, Single

-----------------------------------------------------------------------------
(* Answers *)

\* A repeated command is told what its receipt says.
LEMMA RepeatKeeps ==
  ASSUME IInv, NEW ns \in Namespace, NEW key \in Key, NEW asked, NEW matching,
         Repeat(ns, key, asked, matching),
         \A x \in matching : \E r \in receipts : /\ r.ns = ns /\ r.key = key /\ r.result = x
                                                  /\ Asked(r) = asked
  PROVE  IInv'
<1>1. PICK x \in matching : Tell(ns, key, asked, x)
  BY DEF Repeat
<1>2. UNCHANGED <<cursor, book, current, signals, intents, decisions, receipts>>
  BY DEF Repeat, rows
<1>3. PICK r \in receipts : r.ns = ns /\ r.key = key /\ r.result = x /\ Asked(r) = asked
  BY <1>1
<1> DEFINE t == [ns |-> ns, key |-> key, asked |-> asked, result |-> x]
<1>4. told' = told \union {t} /\ t = Telling(r)
  BY <1>1, <1>3 DEF Tell, Telling
<1>5. TypeOK'
  <2>1. r \in Receipt
    BY DEF IInv, TypeOK
  <2>2. t.ns \in Namespace /\ t.key \in Key /\ t.result \in Result
    BY <1>3, <2>1 DEF Receipt
  <2> HIDE DEF t
  <2>3. \A y \in told' : y.ns \in Namespace /\ y.key \in Key /\ y.result \in Result
    BY <1>4, <2>2 DEF IInv, TypeOK
  <2> QED
    BY <1>2, <2>3 DEF IInv, TypeOK
<1> HIDE DEF t
<1>6. Grows
  <2>1. cursor \in Nat /\ Len(book) \in Nat
    BY RowFacts DEF IInv, TypeOK
  <2> QED
    BY <1>2, <2>1 DEF Grows, IInv, TypeOK
<1>7. RowsRight'
  BY <1>2, <1>6, OldRowsStayRight DEF IInv, RowsRight, Single
<1>8. AnswersRight'
  <2>1. \A y \in told' : \E z \in receipts : y = Telling(z)
    BY <1>4 DEF IInv, AnswersRight
  <2>2. \A y \in receipts : Found(y)'
    BY <1>6, OldRowsStayRight
  <2> QED
    BY <1>2, <2>1, <2>2 DEF IInv, AnswersRight
<1> QED
  BY <1>5, <1>7, <1>8 DEF IInv

\* A key that was not used gets its receipt, which names a row that is found.
LEMMA StoreKeeps ==
  ASSUME IInv, Grows, NEW ns \in Namespace, NEW key \in Key, NEW actor \in Actor, NEW asked,
         NEW result \in Result, Existing(ns, key) = {}, Store(ns, key, actor, asked, result),
         LET r == [ns |-> ns, key |-> key, actor |-> actor, result |-> result]
         IN  Asked(r) = asked /\ Found(r)'
  PROVE  /\ AnswersRight' /\ receipts' \subseteq Receipt
         /\ \A t \in told' : t.ns \in Namespace /\ t.key \in Key /\ t.result \in Result
<1> DEFINE r == [ns |-> ns, key |-> key, actor |-> actor, result |-> result]
           t == [ns |-> ns, key |-> key, asked |-> asked, result |-> result]
<1>1. receipts' = receipts \union {r} /\ told' = told \union {t}
  BY DEF Store, Tell
<1>2. r.ns = ns /\ r.key = key /\ r \in Receipt /\ t = Telling(r) /\ Found(r)'
  BY DEF Receipt, Telling
<1>3. t.ns \in Namespace /\ t.key \in Key /\ t.result \in Result
  OBVIOUS
<1>4. \A x \in receipts : ~(x.ns = ns /\ x.key = key)
  BY DEF Existing
<1> HIDE DEF r, t
<1>5. \A x, y \in receipts' : x.ns = y.ns /\ x.key = y.key => x = y
  BY <1>1, <1>2, <1>4 DEF IInv, AnswersRight
<1>6. \A x \in receipts' : Found(x)'
  BY <1>1, <1>2, OldRowsStayRight
<1>7. \A x \in told' : \E y \in receipts' : x = Telling(y)
  BY <1>1, <1>2 DEF IInv, AnswersRight
<1>8. AnswersRight'
  BY <1>5, <1>6, <1>7 DEF AnswersRight
<1>9. receipts' \subseteq Receipt
  BY <1>1, <1>2 DEF IInv, TypeOK
<1>10. \A x \in told' : x.ns \in Namespace /\ x.key \in Key /\ x.result \in Result
  BY <1>1, <1>3 DEF IInv, TypeOK
<1> QED
  BY <1>8, <1>9, <1>10


-----------------------------------------------------------------------------
(* The steps *)

\* What stands when rows and answers are each shown to be right.
LEMMA RowsStayRight ==
  ASSUME IInv, Grows,
         Single(signals)', Single(intents)', Single(decisions)',
         \A r \in signals' : r \in signals \/ SignalRight(r)',
         \A r \in intents' : r \in intents \/ IntentRight(r)',
         \A r \in decisions' : r \in decisions \/ DecisionRight(r)'
  PROVE  RowsRight'
BY OldRowsStayRight DEF RowsRight

LEMMA NowFacts ==
  ASSUME IInv
  PROVE  /\ cursor \in 0..Len(Stream) /\ cursor \in Nat
         /\ Len(book) \in Nat /\ Len(book) \in 1..Len(book) /\ Len(book) \in Version
         /\ Now \in Moment /\ HeadEntry \in Entry
<1>1. cursor \in 0..Len(Stream) /\ Len(book) \in Version /\ book \in Seq(Entry)
  BY DEF IInv, TypeOK
<1>2. cursor \in Nat /\ Len(book) \in Nat
  BY <1>1, RowFacts
<1>3. Len(book) \in 1..Len(book)
  BY <1>1, <1>2 DEF Version
<1>4. Now \in Moment
  BY <1>1 DEF Now, Moment
<1>5. HeadEntry \in Entry
  BY <1>1, <1>3 DEF HeadEntry
<1> QED
  BY <1>1, <1>2, <1>3, <1>4, <1>5

LEMMA NewRow ==
  ASSUME IInv, NEW T, NEW x \in T, NEW key \in Key, NEW actor \in Actor
  PROVE  [is |-> x, origin |-> [key |-> key, actor |-> actor], at |-> Now] \in Row(T)
<1>1. [key |-> key, actor |-> actor] \in Origin
  BY DEF Origin
<1> QED
  BY <1>1, NowFacts DEF Row

LEMMA EvaluateSignalKeeps ==
  ASSUME IInv, NEW key \in Key, NEW actor \in Actor, NEW runtime \in Runtime,
         NEW position \in Position, EvaluateSignal(key, actor, runtime, position)
  PROVE  IInv'
<1> DEFINE ns == "evaluate_strategy_signal"
           asked == <<actor, runtime, position>>
           i == Stream[position].instrument
           signal == [runtime |-> runtime, position |-> position, instrument |-> i,
                      target |-> Target(runtime, i, position)]
           stored == [is |-> signal, origin |-> [key |-> key, actor |-> actor], at |-> Now]
           matching == {s \in Stored(ns, key, actor) : SignalMatches(s, runtime, position)}
<1>0. ns \in Namespace
  BY DEF Namespace
<1>1. CASE Repeat(ns, key, asked, matching)
  <2>1. ASSUME NEW x \in matching
        PROVE  \E r \in receipts : r.ns = ns /\ r.key = key /\ r.result = x /\ Asked(r) = asked
    <3>1. PICK r \in receipts : r.ns = ns /\ r.key = key /\ r.actor = actor /\ r.result = x
      BY DEF Stored, Existing
    <3>2. r.result.runtime = runtime /\ r.result.position = position
      BY <2>1, <3>1 DEF SignalMatches
    <3>3. Asked(r) = asked
      BY <3>1, <3>2 DEF Asked
    <3> QED
      BY <3>1, <3>3
  <2> HIDE DEF asked, matching, ns
  <2> QED
    BY <1>0, <1>1, <2>1, RepeatKeeps
<1>2. CASE /\ Existing(ns, key) = {}
           /\ Market(position) /\ HasMarketReference
           /\ Evaluable(runtime, i, position)
           /\ signals' = Add(signals, stored)
           /\ Store(ns, key, actor, asked, signal)
           /\ UNCHANGED <<cursor, book, current, intents, decisions>>
  <2>1. signal \in Signal
    <3>1. i \in Instrument
      BY StreamIs DEF StreamFacts, Position
    <3>2. Target(runtime, i, position) \in Nat
      BY StrategyOrderAssumption DEF StrategyOrderAssumption, Target
    <3> HIDE DEF i
    <3> QED
      BY <3>1, <3>2 DEF Signal
  <2>2. signal.runtime = runtime /\ signal.position = position /\ signal.instrument = i
        /\ signal.target = Target(runtime, i, position)
    OBVIOUS
  <2>3. Asked([ns |-> ns, key |-> key, actor |-> actor, result |-> signal]) = asked
    <3> HIDE DEF signal
    <3> QED
      BY <2>2 DEF Asked
  <2> HIDE DEF signal, asked, i
  <2>4. PICK row : row = stored /\ row \in Row(Signal) /\ row.is = signal /\ row.at = Now
    <3>1. stored \in Row(Signal)
      BY <2>1, NewRow
    <3>2. stored.is = signal /\ stored.at = Now
      OBVIOUS
    <3> QED
      BY <3>1, <3>2
  <2>5. row.at.cursor = cursor /\ position = cursor /\ cursor \in 1..cursor
    BY <1>2, <2>4, NowFacts DEF Now, Market
  <2> HIDE DEF stored
  <2>6. Grows
    BY <1>2, AddFacts, NowFacts DEF Grows
  <2>7. SignalRight(row)'
    BY <1>2, <2>2, <2>4, <2>5 DEF SignalRight
  <2>8. RowsRight'
    <3>1. Single(signals)'
      BY <1>2, AddFacts DEF IInv, RowsRight
    <3>2. Single(intents)' /\ Single(decisions)'
      BY <1>2 DEF IInv, RowsRight
    <3>3. \A r \in signals' : r \in signals \/ SignalRight(r)'
      BY <1>2, <2>4, <2>7, AddFacts
    <3> QED
      BY <1>2, <2>6, <3>1, <3>2, <3>3, RowsStayRight
  <2>9. /\ AnswersRight' /\ receipts' \subseteq Receipt
        /\ \A t \in told' : t.ns \in Namespace /\ t.key \in Key /\ t.result \in Result
    <3>1. signal \in Result
      BY <2>1 DEF Result
    <3>2. Has(signals', signal)
      BY <1>2, <2>4, AddFacts
    <3>3. Found([ns |-> ns, key |-> key, actor |-> actor, result |-> signal])'
      BY <3>2 DEF Found
    <3> HIDE DEF ns
    <3> QED
      BY <1>0, <1>2, <2>3, <2>6, <3>1, <3>3, StoreKeeps
  <2>10. TypeOK'
    <3>1. signals' \subseteq Row(Signal)
      BY <1>2, <2>4, AddFacts DEF IInv, TypeOK
    <3> QED
      BY <1>2, <2>9, <3>1 DEF IInv, TypeOK
  <2> QED
    BY <2>8, <2>9, <2>10 DEF IInv
<1> QED
  BY <1>1, <1>2 DEF EvaluateSignal

LEMMA DeriveIntentKeeps ==
  ASSUME IInv, NEW key \in Key, NEW actor \in Actor, NEW signal \in {r.is : r \in signals},
         NEW version \in 1..Len(book), DeriveIntent(key, actor, signal, version)
  PROVE  IInv'
<1> DEFINE ns == "derive_order_intent"
           asked == <<actor, signal, version>>
           account == AccountReference(signal.instrument)
           derived == Derived(signal, account)
           stored == [is |-> derived, origin |-> [key |-> key, actor |-> actor], at |-> Now]
           matching == {x \in Stored(ns, key, actor) : IntentMatches(x, signal, version)}
<1>0. ns \in Namespace
  BY DEF Namespace
<1>1. CASE Repeat(ns, key, asked, matching)
  <2>1. ASSUME NEW x \in matching
        PROVE  \E r \in receipts : r.ns = ns /\ r.key = key /\ r.result = x /\ Asked(r) = asked
    <3>1. PICK r \in receipts : r.ns = ns /\ r.key = key /\ r.actor = actor /\ r.result = x
      BY DEF Stored, Existing
    <3>2. r.result.signal = signal /\ r.result.account.version = version
      BY <2>1, <3>1 DEF IntentMatches
    <3>3. Asked(r) = asked
      BY <3>1, <3>2 DEF Asked
    <3> QED
      BY <3>1, <3>3
  <2> HIDE DEF asked, matching, ns
  <2> QED
    BY <1>0, <1>1, <2>1, RepeatKeeps
<1>2. CASE /\ Existing(ns, key) = {}
           /\ Has(signals, signal)
           /\ AccountState /\ AccountMatches(version) /\ HasAccountReference
           /\ intents' = IF IsNoAction(derived) THEN intents ELSE Add(intents, stored)
           /\ Store(ns, key, actor, asked, derived)
           /\ UNCHANGED <<cursor, book, current, signals, decisions>>
  <2>1. PICK s \in signals : s.is = signal /\ SignalRight(s) /\ signal \in Signal
    BY RowFacts DEF IInv, TypeOK, RowsRight
  <2>2. /\ account \in Account /\ account.version = Len(book) /\ account.cash = book[Len(book)].cash
        /\ account.held = book[Len(book)].held[signal.instrument]
    <3>1. signal.instrument \in Instrument
      BY <2>1, SignalFacts
    <3>2. HeadEntry.cash \in Nat /\ HeadEntry.held[signal.instrument] \in Nat
      BY <3>1, NowFacts, StrategyOrderAssumption DEF StrategyOrderAssumption
    <3> QED
      BY <3>2, NowFacts DEF AccountReference, Account, HeadEntry
  <2> HIDE DEF account
  <2>3. PICK result : /\ result = derived
                      /\ result.signal = signal /\ result.account = account
                      /\ IsNoAction(result) => result \in NoAction
                      /\ ~IsNoAction(result) => result \in Intent
    BY <2>1, <2>2, DerivedIs
  <2>4. version = Len(book) /\ book[Len(book)].active
    BY <1>2 DEF AccountMatches, HasAccountReference, HeadEntry
  <2>5. Asked([ns |-> ns, key |-> key, actor |-> actor, result |-> result]) = asked
    <3> HIDE DEF derived
    <3> QED
      BY <2>2, <2>3, <2>4 DEF Asked
  <2>6. result = Derived(result.signal, result.account)
    BY <2>3
  <2>7. PICK row : /\ row = stored /\ row.is = result /\ row.at = Now
                   /\ result \in Intent => row \in Row(Intent)
    <3>1. stored.is = result /\ stored.at = Now
      BY <2>3
    <3>2. result \in Intent => stored \in Row(Intent)
      BY <2>3, NewRow
    <3> QED
      BY <3>1, <3>2
  <2> HIDE DEF derived, asked, stored
  <2>8. Grows
    <3>1. intents \subseteq intents'
      BY <1>2, AddFacts
    <3> QED
      BY <1>2, <3>1, NowFacts DEF Grows
  <2>9. IntentRight(row)'
    <3>1. row.at.version = Len(book) /\ row.at.cursor = cursor
      BY <2>7 DEF Now
    <3>2. signal.position <= cursor /\ cursor <= cursor
      BY <2>1, NowFacts DEF SignalRight
    <3> QED
      BY <1>2, <2>2, <2>3, <2>4, <2>6, <2>7, <3>1, <3>2, NowFacts DEF IntentRight
  <2>10. RowsRight'
    <3>1. Single(intents)'
      BY <1>2, AddFacts DEF IInv, RowsRight
    <3>2. Single(signals)' /\ Single(decisions)'
      BY <1>2 DEF IInv, RowsRight
    <3>3. \A r \in intents' : r \in intents \/ IntentRight(r)'
      BY <1>2, <2>7, <2>9, AddFacts
    <3> QED
      BY <1>2, <2>8, <3>1, <3>2, <3>3, RowsStayRight
  <2>11. /\ AnswersRight' /\ receipts' \subseteq Receipt
         /\ \A t \in told' : t.ns \in Namespace /\ t.key \in Key /\ t.result \in Result
    <3>1. result \in Result
      BY <2>3 DEF Result
    <3>2. IsNoAction(result) \/ Has(intents', result)
      BY <1>2, <2>3, <2>7, AddFacts
    <3>3. Found([ns |-> ns, key |-> key, actor |-> actor, result |-> result])'
      BY <3>2 DEF Found
    <3> HIDE DEF ns
    <3> QED
      BY <1>0, <1>2, <2>3, <2>5, <2>8, <3>1, <3>3, StoreKeeps
  <2>12. TypeOK'
    <3>1. intents' \subseteq Row(Intent)
      BY <1>2, <2>3, <2>7, AddFacts DEF IInv, TypeOK
    <3> QED
      BY <1>2, <2>11, <3>1 DEF IInv, TypeOK
  <2> QED
    BY <2>10, <2>11, <2>12 DEF IInv
<1> QED
  BY <1>1, <1>2 DEF DeriveIntent


LEMMA Positive ==
  \A a, b \in Nat \ {0} : a * b \in Nat \ {0}
OBVIOUS

LEMMA EvaluateRiskKeeps ==
  ASSUME IInv, NEW key \in Key, NEW actor \in Actor, NEW intent \in {r.is : r \in intents},
         NEW policy \in RiskPolicy, NEW version \in 1..Len(book), NEW position \in Position,
         EvaluateRisk(key, actor, intent, policy, version, position)
  PROVE  IInv'
<1> DEFINE ns == "evaluate_pre_trade_risk"
           asked == <<actor, intent, policy, version, position>>
           decided == Decided(intent, policy)
           stored == [is |-> decided, origin |-> [key |-> key, actor |-> actor], at |-> Now]
           matching == {d \in Stored(ns, key, actor) :
                          DecisionMatches(d, intent, policy, version, position)}
<1>0. ns \in Namespace
  BY DEF Namespace
<1>1. CASE Repeat(ns, key, asked, matching)
  <2>1. ASSUME NEW x \in matching
        PROVE  \E r \in receipts : r.ns = ns /\ r.key = key /\ r.result = x /\ Asked(r) = asked
    <3>1. PICK r \in receipts : r.ns = ns /\ r.key = key /\ r.actor = actor /\ r.result = x
      BY DEF Stored, Existing
    <3>2. /\ r.result.intent = intent /\ r.result.policy = policy
          /\ r.result.intent.account.version = version /\ r.result.intent.signal.position = position
      BY <2>1, <3>1 DEF DecisionMatches
    <3>3. Asked(r) = asked
      BY <3>1, <3>2 DEF Asked
    <3> QED
      BY <3>1, <3>3
  <2> HIDE DEF asked, matching, ns
  <2> QED
    BY <1>0, <1>1, <2>1, RepeatKeeps
<1>2. CASE /\ Existing(ns, key) = {}
           /\ Has(intents, intent) /\ Has(signals, intent.signal)
           /\ AccountState /\ AccountMatches(version) /\ HasAccountReference
           /\ SameAccount(intent)
           /\ Market(position) /\ HasMarketReference
           /\ SameMarket(intent)
           /\ decided.price > 0 /\ decided.notional <= MaxMoney
           /\ decisions' = Add(decisions, stored)
           /\ Store(ns, key, actor, asked, decided)
           /\ UNCHANGED <<cursor, book, current, signals, intents>>
  <2>1. PICK i \in intents : i.is = intent /\ IntentRight(i) /\ i \in Row(Intent)
    BY DEF IInv, TypeOK, RowsRight
  <2>2. PICK s \in signals : s.is = intent.signal
    BY <1>2 DEF Has
  <2>3. /\ intent \in Intent /\ intent.signal \in Signal /\ intent.account \in Account
        /\ intent.quantity \in Nat \ {0} /\ ~IsNoAction(intent)
    BY <2>1, RowFacts, IntentFacts
  <2>4. cursor = position /\ cursor = intent.signal.position
    BY <1>2 DEF Market, SameMarket
  <2>5. version = Len(book) /\ intent.account.version = Len(book)
    BY <1>2 DEF AccountMatches, SameAccount, AccountReference
  <2>6. i.at = Now
    <3>1. i.at \in Moment /\ i.at.cursor \in Nat
      BY <2>1, RowFacts DEF Row
    <3>2. i.at.version = Len(book)
      BY <2>1, <2>5 DEF IntentRight
    <3>3. i.at.cursor = cursor
      BY <2>1, <2>4, <3>1, NowFacts DEF IntentRight
    <3>4. i.at = [cursor |-> i.at.cursor, version |-> i.at.version]
      BY <3>1 DEF Moment
    <3> QED
      BY <3>2, <3>3, <3>4 DEF Now
  <2> DEFINE at == LatestTrade(intent.signal.instrument, cursor)
             notional == intent.quantity * Stream[at].price
             failed == Failed(intent, policy, notional)
  <2>7. at \in Position /\ Stream[at].price \in Int
    <3>1. at \in Trades(intent.signal.instrument, cursor)
      BY <2>2, <2>4, TradeSeen
    <3>2. at \in 1..cursor
      BY <3>1 DEF Trades
    <3>3. at \in Position
      BY <3>2, NowFacts, StreamIs DEF StreamFacts, Position
    <3> QED
      BY <3>3, StreamIs DEF StreamFacts, Position
  <2>8. PICK decision :
          /\ decision = decided
          /\ decision = [intent |-> intent, policy |-> policy, priceAt |-> at, price |-> Stream[at].price,
                         notional |-> notional, reasons |-> failed,
                         outcome |-> IF failed = {} THEN "allow" ELSE "reject"]
    BY DEF Decided
  <2> HIDE DEF decided
  <2>9. /\ decision.intent = intent /\ decision.policy = policy /\ decision.priceAt = at
        /\ decision.price = Stream[at].price /\ decision.notional = notional
        /\ decision.reasons = failed /\ (decision.outcome = "allow" => failed = {})
    <3> HIDE DEF at, notional, failed
    <3> QED
      BY <2>8
  <2>10. decision \in Decision
    <3>1. Stream[at].price \in Nat \ {0}
      <4>1. Stream[at].price > 0
        BY <1>2, <2>8, <2>9
      <4> HIDE DEF at
      <4> QED
        BY <2>7, <4>1
    <3>2. notional \in Nat \ {0}
      <4>1. \A price \in Nat \ {0} : intent.quantity * price \in Nat \ {0}
        BY <2>3, Positive
      <4> QED
        BY <3>1, <4>1
    <3>3. failed \in SUBSET RiskRule
      BY DEF Failed
    <3> HIDE DEF at, notional, failed
    <3>4. (IF failed = {} THEN "allow" ELSE "reject") \in {"allow", "reject"}
      OBVIOUS
    <3> QED
      BY <2>3, <2>7, <2>8, <3>1, <3>2, <3>3, <3>4 DEF Decision
  <2>11. Asked([ns |-> ns, key |-> key, actor |-> actor, result |-> decision]) = asked
    <3> HIDE DEF at, notional, failed
    <3> QED
      BY <2>4, <2>5, <2>9 DEF Asked
  <2>12. PICK row : row = stored /\ row \in Row(Decision) /\ row.is = decision /\ row.at = Now
    <3>1. stored \in Row(Decision)
      BY <2>8, <2>10, NewRow
    <3>2. stored.is = decision /\ stored.at = Now
      BY <2>8
    <3> QED
      BY <3>1, <3>2
  <2> HIDE DEF asked, stored
  <2>13. Grows
    <3>1. decisions \subseteq decisions'
      BY <1>2, AddFacts
    <3> QED
      BY <1>2, <3>1, NowFacts DEF Grows
  <2>14. DecisionRight(row)'
    <3>1. \E x \in intents' : x.is = row.is.intent /\ x.at = row.at
      BY <1>2, <2>1, <2>6, <2>9, <2>12
    <3>2. Has(signals', row.is.intent.signal)
      BY <1>2, <2>9, <2>12
    <3>3. row.at.cursor = cursor
      BY <2>12 DEF Now
    <3>4. /\ row.is.priceAt = LatestTrade(row.is.intent.signal.instrument, row.at.cursor)
          /\ row.is.price = Stream[row.is.priceAt].price
      BY <2>9, <2>12, <3>3
    <3>5. /\ row.is.notional = row.is.intent.quantity * row.is.price
          /\ row.is.reasons = Failed(row.is.intent, row.is.policy, row.is.notional)
          /\ row.is.outcome = "allow" => row.is.reasons = {}
      BY <2>9, <2>12
    <3>6. row.at.cursor = row.is.intent.signal.position
      BY <2>4, <2>9, <2>12, <3>3
    <3> QED
      BY <3>1, <3>2, <3>4, <3>5, <3>6 DEF DecisionRight
  <2>15. RowsRight'
    <3>1. Single(decisions)'
      BY <1>2, AddFacts DEF IInv, RowsRight
    <3>2. Single(signals)' /\ Single(intents)'
      BY <1>2 DEF IInv, RowsRight
    <3>3. \A r \in decisions' : r \in decisions \/ DecisionRight(r)'
      BY <1>2, <2>12, <2>14, AddFacts
    <3> QED
      BY <1>2, <2>13, <3>1, <3>2, <3>3, RowsStayRight
  <2>16. /\ AnswersRight' /\ receipts' \subseteq Receipt
         /\ \A t \in told' : t.ns \in Namespace /\ t.key \in Key /\ t.result \in Result
    <3>1. decision \in Result
      BY <2>10 DEF Result
    <3>2. Has(decisions', decision)
      BY <1>2, <2>12, AddFacts
    <3>3. Found([ns |-> ns, key |-> key, actor |-> actor, result |-> decision])'
      BY <3>2 DEF Found
    <3> HIDE DEF ns
    <3> QED
      BY <1>0, <1>2, <2>8, <2>11, <2>13, <3>1, <3>3, StoreKeeps
  <2>17. TypeOK'
    <3>1. decisions' \subseteq Row(Decision)
      BY <1>2, <2>12, AddFacts DEF IInv, TypeOK
    <3> QED
      BY <1>2, <2>16, <3>1 DEF IInv, TypeOK
  <2> QED
    BY <2>15, <2>16, <2>17 DEF IInv
<1> QED
  BY <1>1, <1>2 DEF EvaluateRisk

\* Account and replay move on under the rows, and leave rows and answers alone.
LEMMA MovesKeep ==
  ASSUME IInv, AccountMoves \/ Reconciled \/ ReplayAdvances
  PROVE  IInv'
<1>1. UNCHANGED <<signals, intents, decisions, receipts, told>>
  BY DEF AccountMoves, Reconciled, ReplayAdvances, rows
<1>2. /\ Grows /\ current' \in BOOLEAN
      /\ book' \in Seq(Entry) /\ Len(book') \in Version
  <2>1. CASE AccountMoves
    <3>1. PICK e \in Entry : book' = Append(book, e)
      BY <2>1 DEF AccountMoves
    <3>2. book \in Seq(Entry) /\ Len(book) < MaxVersion /\ MaxVersion \in Nat
      BY <2>1, StrategyOrderAssumption DEF IInv, TypeOK, AccountMoves, StrategyOrderAssumption
    <3>3. /\ book' \in Seq(Entry) /\ Len(book') = Len(book) + 1
          /\ \A v \in 1..Len(book) : book'[v] = book[v]
      BY <3>1, <3>2
    <3>4. Len(book') \in Version
      BY <3>2, <3>3, NowFacts DEF Version
    <3> QED
      BY <1>1, <2>1, <3>3, <3>4, NowFacts DEF Grows, AccountMoves
  <2>2. CASE Reconciled
    BY <1>1, <2>2, NowFacts DEF Grows, Reconciled, IInv, TypeOK
  <2>3. CASE ReplayAdvances
    <3>1. cursor' \in 0..Len(Stream) /\ cursor <= cursor'
      BY <2>3, NowFacts, StreamIs DEF ReplayAdvances, StreamFacts
    <3> QED
      BY <1>1, <2>3, <3>1, NowFacts DEF Grows, ReplayAdvances, IInv, TypeOK
  <2> QED
    BY <2>1, <2>2, <2>3
<1>3. TypeOK'
  BY <1>1, <1>2 DEF IInv, TypeOK, Grows
<1>4. RowsRight'
  BY <1>1, <1>2, RowsStayRight DEF IInv, RowsRight, Single
<1>5. AnswersRight'
  BY <1>1, <1>2, OldRowsStayRight DEF IInv, AnswersRight
<1> QED
  BY <1>3, <1>4, <1>5 DEF IInv

-----------------------------------------------------------------------------
(* The invariant of the specification *)

LEMMA Initially == Init => IInv
<1> SUFFICES ASSUME Init PROVE IInv
  OBVIOUS
<1>1. PICK e \in Entry : book = <<e>>
  <2>1. book \in [{1} -> Entry]
    BY DEF Init
  <2>2. book = [i \in {1} |-> book[1]] /\ book[1] \in Entry
    BY <2>1
  <2>3. book = <<book[1]>>
    BY <2>2
  <2> QED
    BY <2>2, <2>3
<1>2. book \in Seq(Entry) /\ Len(book) = 1
  BY <1>1
<1>3. Len(book) \in Version /\ cursor \in 0..Len(Stream)
  BY <1>2, StreamIs, StrategyOrderAssumption
  DEF StreamFacts, StrategyOrderAssumption, Version, Init
<1> QED
  BY <1>2, <1>3 DEF Init, IInv, TypeOK, RowsRight, AnswersRight, Single

LEMMA Steps == IInv /\ [Next]_vars => IInv'
<1> SUFFICES ASSUME IInv, [Next]_vars PROVE IInv'
  OBVIOUS
<1>1. ASSUME NEW key \in Key, NEW actor \in Actor, Commands(key, actor)
      PROVE  IInv'
  BY <1>1, EvaluateSignalKeeps, DeriveIntentKeeps, EvaluateRiskKeeps DEF Commands
<1>2. CASE AccountMoves \/ Reconciled \/ ReplayAdvances
  BY <1>2, MovesKeep
<1>3. CASE UNCHANGED vars
  <2>1. UNCHANGED <<cursor, book, current, signals, intents, decisions, receipts, told>>
    BY <1>3 DEF vars, rows
  <2>2. Grows
    BY <2>1, NowFacts DEF Grows, IInv, TypeOK
  <2>3. TypeOK'
    BY <2>1 DEF IInv, TypeOK
  <2>4. RowsRight'
    BY <2>1, <2>2, RowsStayRight DEF IInv, RowsRight, Single
  <2>5. AnswersRight'
    BY <2>1, <2>2, OldRowsStayRight DEF IInv, AnswersRight
  <2> QED
    BY <2>3, <2>4, <2>5 DEF IInv
<1> QED
  BY <1>1, <1>2, <1>3 DEF Next

LEMMA Invariant == Spec => []IInv
BY Initially, Steps, PTL DEF Spec

\* Rows and answers have their types: an intent orders a positive quantity, a decision has a
\* price and a notional above zero and gives no reason outside the rules of
\* strategy_order/risk_evidence.py.
THEOREM Typing == Spec => []TypeOK
<1>1. IInv => TypeOK
  BY DEF IInv
<1> QED
  BY <1>1, Invariant, PTL

\* For any stream, runtimes, policies and account entries: commands under one key have one
\* answer in their namespace, and those that bind the same authority converge on one row,
\* which every receipt finds (strategy_order_repository.py).
THEOREM Converge == Spec => []CommandsConverge
<1>1. IInv => CommandsConverge
  BY OneAnswer
<1> QED
  BY <1>1, Invariant, PTL

\* For any stream, runtimes, policies and account entries: signal, intent and decision are of
\* one moment, a decision's price is the last that was traded before it, an allowed order
\* neither overspends nor oversells, keeps the policy's limits and ends at its signal's
\* target, and that target is what the crossings in the trades up to the signal say.
THEOREM Orders == Spec => []AllowedOrdersAreRight
<1>1. IInv => AllowedOrdersAreRight
  BY OrdersRight
<1> QED
  BY <1>1, Invariant, PTL

-----------------------------------------------------------------------------
(* Replays (MarketReplay), for any streams and any number of processes.        *)

LEMMA SameFiniteSets ==
  /\ \A S : Replays!Cardinality(S) = Cardinality(S)
  /\ \A S : Replays!IsFiniteSet(S) <=> IsFiniteSet(S)
BY DEF Replays!Cardinality, Cardinality, Replays!IsFiniteSet, IsFiniteSet

\* The order of events is total on those whose ids tell them apart.
LEMMA EventsInOrder ==
  ASSUME Replays!MarketReplayAssumption, NEW events \in SUBSET Replays!Event,
         Replays!UniqueIds(events)
  PROVE  /\ \A e, f \in events : e = f \/ Replays!Before(e, f) \/ Replays!Before(f, e)
         /\ \A e, f \in events : ~(Replays!Before(e, f) /\ Replays!Before(f, e))
         /\ \A e, f, g \in events :
              Replays!Before(e, f) /\ Replays!Before(f, g) => Replays!Before(e, g)
<1>1. \A e \in events : e.id \in Nat /\ e.time \in Nat
  BY DEF Replays!Event, Replays!MarketReplayAssumption
<1> QED
  BY <1>1 DEF Replays!Before, Replays!UniqueIds

\* A finite set of events can be sorted: an event comes after as many as are before it.
LEMMA SortedStream ==
  ASSUME Replays!MarketReplayAssumption, NEW events \in SUBSET Replays!Event,
         IsFiniteSet(events), Replays!UniqueIds(events)
  PROVE  /\ Replays!Sorted(events) \in [1..Cardinality(events) -> events]
         /\ \A i, j \in 1..Cardinality(events) :
              i < j => Replays!Before(Replays!Sorted(events)[i], Replays!Sorted(events)[j])
<1> DEFINE n == Cardinality(events)
           Lower(e) == {f \in events : Replays!Before(f, e)}
           rank == [e \in events |-> Cardinality(Lower(e)) + 1]
           InOrder(s) == \A i, j \in DOMAIN s : i < j => Replays!Before(s[i], s[j])
<1>1. n \in Nat /\ IsFiniteSet(1..n) /\ Cardinality(1..n) = n
  BY FS_CardinalityType, FS_Interval
<1>2. ASSUME NEW e \in events
      PROVE  IsFiniteSet(Lower(e)) /\ rank[e] \in 1..n /\ rank[e] = Cardinality(Lower(e)) + 1
  <2>1. Lower(e) \subseteq events \ {e}
    BY EventsInOrder
  <2>2. IsFiniteSet(events \ {e}) /\ Cardinality(events \ {e}) = n - 1
    BY FS_RemoveElement
  <2>3. IsFiniteSet(Lower(e)) /\ Cardinality(Lower(e)) <= n - 1
    BY <2>1, <2>2, FS_Subset
  <2>4. Cardinality(Lower(e)) \in Nat
    BY <2>3, FS_CardinalityType
  <2> QED
    BY <1>1, <2>3, <2>4
<1>3. ASSUME NEW e \in events, NEW f \in events, Replays!Before(e, f)
      PROVE  rank[e] < rank[f]
  <2>1. Lower(e) \union {e} \subseteq Lower(f) /\ e \notin Lower(e)
    BY <1>3, EventsInOrder
  <2>2. Cardinality(Lower(e) \union {e}) = Cardinality(Lower(e)) + 1
    BY <1>2, <2>1, FS_AddElement
  <2>3. Cardinality(Lower(e) \union {e}) <= Cardinality(Lower(f))
    BY <1>2, <2>1, FS_Subset
  <2>4. Cardinality(Lower(e)) \in Nat /\ Cardinality(Lower(f)) \in Nat
    BY <1>2, FS_CardinalityType
  <2> HIDE DEF Lower
  <2> QED
    BY <1>2, <2>2, <2>3, <2>4
<1> HIDE DEF rank, Lower
<1>4. rank \in Injection(events, 1..n)
  <2>1. rank \in [events -> 1..n]
    BY <1>2 DEF rank
  <2>2. \A e, f \in events : rank[e] = rank[f] => e = f
    BY <1>1, <1>2, <1>3, EventsInOrder
  <2> QED
    BY <2>1, <2>2 DEF Injection, IsInjective
<1>5. rank \in Surjection(events, 1..n)
  BY <1>1, <1>4, FS_Injection
<1> DEFINE s == [i \in 1..n |-> CHOOSE e \in events : rank[e] = i]
<1>6. \A i \in 1..n : s[i] \in events /\ rank[s[i]] = i
  BY <1>5 DEF Surjection
<1>7. s \in [1..n -> events] /\ DOMAIN s = 1..n
  BY <1>6
<1> HIDE DEF s
<1>8. InOrder(s)
  <2> SUFFICES ASSUME NEW i \in 1..n, NEW j \in 1..n, i < j PROVE Replays!Before(s[i], s[j])
    BY <1>7
  <2>1. s[i] # s[j] /\ ~Replays!Before(s[j], s[i])
    BY <1>1, <1>3, <1>6
  <2> QED
    BY <1>6, <2>1, EventsInOrder
<1> HIDE DEF InOrder
<1>9. Replays!Sorted(events) = CHOOSE t \in [1..n -> events] : InOrder(t)
  BY SameFiniteSets DEF Replays!Sorted, InOrder
<1>10. Replays!Sorted(events) \in [1..n -> events] /\ InOrder(Replays!Sorted(events))
  BY <1>7, <1>8, <1>9
<1> QED
  BY <1>10 DEF InOrder

\* What an engine holds: a cursor that was stored, one it went on to, and what it handed
\* out between the two; nothing moves once the stream is at its end.
EngineFollows(m) ==
  /\ m.at \in DOMAIN streams
  /\ Replays!ValidCursor(streams[m.at], m.read) /\ Replays!ValidCursor(streams[m.at], m.now)
  /\ m.read.position <= m.now.position
  /\ m.out = SubSeq(streams[m.at], m.read.position + 1, m.now.position)
  /\ m.read.status = "completed" => m.now = m.read
EnginesFollow == \A p \in Process : engines[p] # Replays!Idle => EngineFollows(engines[p])

ReplayInv ==
  Replays!TypeOK /\ Replays!EveryReplayRestores /\ Replays!EachEventOnce /\ EnginesFollow

LEMMA EngineTypes ==
  ASSUME Replays!TypeOK, NEW m \in Replays!Engine, EngineFollows(m)
  PROVE  /\ m.at \in Replay /\ streams[m.at] \in Seq(Replays!Event)
         /\ Len(streams[m.at]) \in Nat /\ Len(streams[m.at]) <= MaxEvents
         /\ m.read \in Replays!Cursor /\ m.now \in Replays!Cursor
         /\ m.read.position \in Nat /\ m.now.position \in Nat
         /\ m.read.position <= Len(streams[m.at]) /\ m.now.position <= Len(streams[m.at])
BY DEF Replays!TypeOK, Replays!Engine, Replays!Cursor, EngineFollows, Replays!ValidCursor

LEMMA EngineIs ==
  ASSUME Replays!TypeOK, NEW p \in Process, engines[p] # Replays!Idle
  PROVE  engines[p] \in Replays!Engine
BY DEF Replays!TypeOK

LEMMA CursorAtIsCursor ==
  ASSUME Replays!MarketReplayAssumption, NEW stream \in Seq(Replays!Event), Len(stream) <= MaxEvents,
         NEW n \in 0..Len(stream), NEW is \in Replays!Status
  PROVE  /\ Replays!CursorAt(stream, n, is) \in Replays!Cursor
         /\ Replays!CursorAt(stream, n, is).position = n
         /\ Replays!CursorAt(stream, n, is).status = is
<1> DEFINE last == IF n = 0 THEN Replays!None ELSE Replays!Reference(stream[n])
<1>1. n \in 0..MaxEvents /\ (n # 0 => stream[n] \in Replays!Event)
  BY DEF Replays!MarketReplayAssumption
<1>2. last \in [id : EventId, time : Time] \union {Replays!None}
  BY <1>1 DEF Replays!Reference, Replays!Event
<1>3. Replays!CursorAt(stream, n, is) = [position |-> n, status |-> is, last |-> last]
  BY DEF Replays!CursorAt
<1> HIDE DEF last
<1> QED
  BY <1>1, <1>2, <1>3 DEF Replays!Cursor

\* An operation of the engine: it is not at the end, and goes on by one event at most.
Operates(stream, m, c, out) ==
  \/ c \in Replays!Started(stream, m.now) /\ out = m.out
  \/ c \in Replays!Paused(stream, m.now) /\ out = m.out
  \/ c \in Replays!Resumed(stream, m.now) /\ out = m.out
  \/ c \in Replays!Consumed(stream, m.now) /\ out = Append(m.out, stream[c.position])

LEMMA OperationFacts ==
  ASSUME Replays!MarketReplayAssumption, Replays!TypeOK, NEW m \in Replays!Engine, EngineFollows(m),
         NEW stream, stream = streams[m.at], NEW c, NEW out, Operates(stream, m, c, out)
  PROVE  /\ c \in Replays!Cursor /\ m.read.position <= c.position /\ c.position <= Len(stream)
         /\ m.now.status # "completed"
         /\ out = SubSeq(stream, m.read.position + 1, c.position)
         /\ out \in Seq(Replays!Event)
<1>1. /\ stream \in Seq(Replays!Event) /\ Len(stream) \in Nat /\ Len(stream) <= MaxEvents
      /\ m.read.position \in Nat /\ m.now.position \in Nat /\ m.read.position <= m.now.position
      /\ m.now.position <= Len(stream) /\ m.out = SubSeq(stream, m.read.position + 1, m.now.position)
      /\ m.out \in Seq(Replays!Event)
  BY EngineTypes DEF EngineFollows, Replays!Engine
<1>2. m.now.status = "ready" => m.now.position = 0
  BY DEF EngineFollows, Replays!ValidCursor
<1>3. ASSUME NEW n, n = m.now.position, out = m.out,
             \E is \in Replays!Status : c = Replays!CursorAt(stream, n, is),
             m.now.status # "completed"
      PROVE  /\ c \in Replays!Cursor /\ m.read.position <= c.position /\ c.position <= Len(stream)
             /\ m.now.status # "completed"
             /\ out = SubSeq(stream, m.read.position + 1, c.position)
             /\ out \in Seq(Replays!Event)
  <2>1. n \in 0..Len(stream)
    BY <1>1, <1>3
  <2>2. c \in Replays!Cursor /\ c.position = n
    BY <1>1, <1>3, <2>1, CursorAtIsCursor
  <2> QED
    BY <1>1, <1>3, <2>2
<1>4. CASE c \in Replays!Started(stream, m.now) /\ out = m.out
  <2>1. /\ m.now.status = "ready"
        /\ c = Replays!CursorAt(stream, 0, IF stream = <<>> THEN "completed" ELSE "running")
    BY <1>4 DEF Replays!Started
  <2>2. PICK is \in Replays!Status : is = IF stream = <<>> THEN "completed" ELSE "running"
    BY DEF Replays!Status
  <2> QED
    BY <1>2, <1>3, <1>4, <2>1, <2>2
<1>5. CASE c \in Replays!Paused(stream, m.now) /\ out = m.out
  BY <1>3, <1>5 DEF Replays!Paused, Replays!Status
<1>6. CASE c \in Replays!Resumed(stream, m.now) /\ out = m.out
  BY <1>3, <1>6 DEF Replays!Resumed, Replays!Status
<1>7. CASE c \in Replays!Consumed(stream, m.now) /\ out = Append(m.out, stream[c.position])
  <2>1. PICK n \in Nat : n = m.now.position + 1
    BY <1>1
  <2>2. PICK is \in Replays!Status : is = Replays!NextStatus(stream, n)
    BY DEF Replays!NextStatus, Replays!Status
  <2>3. /\ m.now.status = "running" /\ n \in 1..Len(stream)
        /\ c = Replays!CursorAt(stream, n, is)
    <3>1. /\ m.now.status = "running" /\ m.now.position < Len(stream)
          /\ c = Replays!CursorAt(stream, m.now.position + 1,
                                  Replays!NextStatus(stream, m.now.position + 1))
      BY <1>7 DEF Replays!Consumed
    <3>2. PICK p \in Nat, l \in Nat : p = m.now.position /\ l = Len(stream)
      BY <1>1
    <3>3. n = p + 1 /\ p < l
      BY <2>1, <3>1, <3>2
    <3>4. n \in 1..l
      BY <3>3
    <3> QED
      BY <2>1, <2>2, <3>1, <3>2, <3>4
  <2>4. c \in Replays!Cursor /\ c.position = n
    BY <1>1, <2>3, CursorAtIsCursor
  <2>5. stream[n] \in Replays!Event /\ out = Append(m.out, stream[n])
    <3>1. stream \in Seq(Replays!Event) /\ n \in 1..Len(stream)
      BY <1>1, <2>3
    <3>2. stream[n] \in Replays!Event
      BY <3>1
    <3> QED
      BY <1>7, <2>4, <3>2
  <2>6. out = SubSeq(stream, m.read.position + 1, n)
    <3>1. PICK k \in Nat, l \in Nat : k = m.read.position + 1 /\ l = m.now.position
      BY <1>1
    <3>2. n = l + 1 /\ k <= n
      BY <1>1, <2>1, <3>1
    <3>3. k \in 1..Len(stream) /\ n \in k..Len(stream) /\ n - 1 = l
      <4>1. PICK z \in Nat : z = Len(stream)
        BY <1>1
      <4>2. n \in 1..z /\ 1 <= k
        BY <1>1, <2>3, <3>1, <4>1
      <4>3. k \in 1..z /\ n \in k..z /\ n - 1 = l
        BY <3>2, <4>2
      <4> QED
        BY <4>1, <4>3
    <3>4. SubSeq(stream, k, n) = SubSeq(stream, k, l) \o <<stream[n]>>
      <4>1. SubSeq(stream, k, n) = SubSeq(stream, k, n - 1) \o <<stream[n]>>
        BY <1>1, <3>3, SubSeqRecursiveSecond
      <4> QED
        BY <3>3, <4>1
    <3>5. m.out = SubSeq(stream, k, l)
      BY <1>1, <3>1
    <3>6. Append(m.out, stream[n]) = m.out \o <<stream[n]>>
      BY <1>1, <2>5, AppendIsConcat
    <3> QED
      BY <2>5, <3>1, <3>4, <3>5, <3>6
  <2>7. out \in Seq(Replays!Event)
    BY <1>1, <2>5, AppendProperties
  <2>8. m.read.position <= n /\ n <= Len(stream) /\ m.now.status # "completed"
    <3>1. PICK k \in Nat, l \in Nat : k = m.read.position /\ l = m.now.position /\ k <= l
      BY <1>1
    <3> QED
      BY <1>1, <2>1, <2>3, <3>1
  <2> QED
    BY <2>4, <2>6, <2>7, <2>8
<1> QED
  BY <1>4, <1>5, <1>6, <1>7 DEF Operates

\* What a step may do to a replay that exists.
StreamsForward ==
  /\ store \subseteq store'
  /\ \A r \in DOMAIN streams :
       /\ streams'[r] = streams[r]
       /\ cursors'[r].position >= cursors[r].position
       /\ cursors[r].status = "completed" => cursors'[r] = cursors[r]

LEMMA CursorsMoveNot ==
  ASSUME ReplayInv, store \subseteq store',
         \A r \in DOMAIN streams : streams'[r] = streams[r] /\ cursors'[r] = cursors[r]
  PROVE  StreamsForward
<1>1. \A r \in DOMAIN streams : cursors[r].position \in Nat
  BY DEF ReplayInv, Replays!TypeOK, Replays!Cursor
<1> QED
  BY <1>1 DEF StreamsForward

\* A new replay finds or stores each of its events, and leaves those of others alone.
LEMMA AddReplayKeeps ==
  ASSUME Replays!MarketReplayAssumption, ReplayInv, NEW r \in Replay,
         NEW events \in SUBSET Replays!Event,
         IsFiniteSet(events), Cardinality(events) <= MaxEvents, Replays!AddReplay(r, events)
  PROVE  ReplayInv' /\ StreamsForward
<1> DEFINE s == Replays!Sorted(events)
           n == Cardinality(events)
           start == Replays!CursorAt(<<>>, 0, "ready")
<1>1. /\ r \notin DOMAIN streams /\ Replays!UniqueIds(events) /\ Replays!Agrees(events)
      /\ store' = store \union events /\ engines' = engines
      /\ DOMAIN streams' = DOMAIN streams \union {r} /\ streams'[r] = s
      /\ DOMAIN cursors' = DOMAIN cursors \union {r} /\ cursors'[r] = start
      /\ DOMAIN consumed' = DOMAIN consumed \union {r} /\ consumed'[r] = <<>>
      /\ \A q \in DOMAIN streams : streams'[q] = streams[q]
      /\ \A q \in DOMAIN streams : cursors'[q] = cursors[q] /\ consumed'[q] = consumed[q]
  BY DEF Replays!AddReplay, Replays!Exists, ReplayInv, Replays!TypeOK
<1>2. n \in Nat /\ s \in [1..n -> events] /\ \A i, j \in 1..n : i < j => Replays!Before(s[i], s[j])
  BY <1>1, SortedStream, FS_CardinalityType
<1> HIDE DEF s, n
<1>3. s \in Seq(Replays!Event) /\ Len(s) = n /\ DOMAIN s = 1..n /\ \A i \in 1..n : s[i] \in events
  BY <1>2
<1>4. n <= MaxEvents
  BY DEF n
<1>5. start = [position |-> 0, status |-> "ready", last |-> Replays!None]
  BY DEF Replays!CursorAt
<1> HIDE DEF start
<1>6. start \in Replays!Cursor
  BY <1>5 DEF Replays!Cursor, Replays!Status, Replays!MarketReplayAssumption
<1>7. Replays!TypeOK'
  <2>1. store' \subseteq Replays!Event /\ engines' \in [Process -> Replays!Engine \union {Replays!Idle}]
    BY <1>1 DEF ReplayInv, Replays!TypeOK
  <2>2. /\ DOMAIN streams' \subseteq Replay /\ DOMAIN cursors' = DOMAIN streams'
        /\ DOMAIN consumed' = DOMAIN streams'
    BY <1>1 DEF ReplayInv, Replays!TypeOK
  <2>3. ASSUME NEW q \in DOMAIN streams'
        PROVE  /\ streams'[q] \in Seq(Replays!Event) /\ Len(streams'[q]) <= MaxEvents
               /\ cursors'[q] \in Replays!Cursor /\ consumed'[q] \in Seq(Replays!Event)
    <3>1. CASE q = r
      BY <1>1, <1>3, <1>4, <1>6, <3>1, EmptySeq
    <3>2. CASE q \in DOMAIN streams
      BY <1>1, <3>2 DEF ReplayInv, Replays!TypeOK
    <3> QED
      BY <1>1, <3>1, <3>2
  <2> QED
    BY <2>1, <2>2, <2>3 DEF Replays!TypeOK
<1>8. Replays!EveryReplayRestores'
  <2>1. \A e \in store : \A x : Replays!Stored(x) = {e} => Replays!Stored(x)' = {e}
    <3> SUFFICES ASSUME NEW e \in store, NEW x, Replays!Stored(x) = {e},
                        NEW f \in store', f.id = x
                 PROVE  f = e /\ e.id = x /\ e \in store'
      BY <1>1 DEF Replays!Stored
    <3>1. e.id = x /\ e \in store'
      BY <1>1 DEF Replays!Stored
    <3>2. CASE f \in store
      BY <3>1, <3>2 DEF Replays!Stored
    <3>3. CASE f \in events
      BY <1>1, <3>1, <3>3 DEF Replays!Agrees, Replays!Stored
    <3> QED
      BY <1>1, <3>1, <3>2, <3>3
  <2>2. \A e \in events : Replays!Stored(e.id)' = {e}
    BY <1>1 DEF Replays!Stored, Replays!Agrees, Replays!UniqueIds
  <2>3. ASSUME NEW q \in DOMAIN streams' PROVE Replays!Restorable(q)'
    <3>1. CASE q = r
      <4>1. Replays!ValidCursor(s, start)
        <5>1. s = <<>> \/ Len(s) # 0
          BY <1>3
        <5> QED
          BY <1>2, <1>3, <1>5, <5>1 DEF Replays!ValidCursor
      <4> QED
        BY <1>1, <1>2, <1>3, <2>2, <3>1, <4>1 DEF Replays!Restorable
    <3>2. CASE q \in DOMAIN streams
      <4>1. Replays!Restorable(q)
        BY <3>2 DEF ReplayInv, Replays!EveryReplayRestores
      <4>2. ASSUME NEW e, NEW x, Replays!Stored(x) = {e}
            PROVE  {f \in store' : f.id = x} = {e}
        BY <2>1, <4>2 DEF Replays!Stored
      <4>3. \A i \in DOMAIN streams[q] :
              {f \in store' : f.id = streams[q][i].id} = {streams[q][i]}
        BY <4>1, <4>2 DEF Replays!Restorable
      <4> QED
        BY <1>1, <3>2, <4>1, <4>3 DEF Replays!Restorable, Replays!Stored
    <3> QED
      BY <1>1, <3>1, <3>2
  <2> QED
    BY <2>3 DEF Replays!EveryReplayRestores
<1>9. Replays!EachEventOnce'
  <2>1. SubSeq(s, 1, start.position) = <<>>
    BY <1>5, SubSeqEmpty
  <2> QED
    BY <1>1, <2>1 DEF ReplayInv, Replays!EachEventOnce
<1>10. EnginesFollow'
  BY <1>1 DEF ReplayInv, EnginesFollow, EngineFollows
<1> QED
  BY <1>1, <1>7, <1>8, <1>9, <1>10, CursorsMoveNot DEF ReplayInv

\* A step in the memory of one process.
LEMMA EngineMoves ==
  ASSUME ReplayInv, NEW p \in Process, UNCHANGED <<store, streams, cursors, consumed>>,
         NEW m, engines' = [engines EXCEPT ![p] = m],
         m = Replays!Idle \/ (m \in Replays!Engine /\ EngineFollows(m))
  PROVE  ReplayInv' /\ StreamsForward
<1>1. Replays!TypeOK'
  BY DEF ReplayInv, Replays!TypeOK
<1>2. Replays!EveryReplayRestores' /\ Replays!EachEventOnce'
  BY DEF ReplayInv, Replays!EveryReplayRestores, Replays!Restorable, Replays!Stored, Replays!EachEventOnce
<1>3. \A x : EngineFollows(x) => EngineFollows(x)'
  BY DEF EngineFollows
<1>4. EnginesFollow'
  <2> SUFFICES ASSUME NEW q \in Process, engines'[q] # Replays!Idle PROVE EngineFollows(engines[q])'
    BY DEF EnginesFollow
  <2>1. PICK x : x = engines'[q]
    OBVIOUS
  <2>2. EngineFollows(x)
    BY <2>1 DEF ReplayInv, EnginesFollow, Replays!TypeOK
  <2> QED
    BY <1>3, <2>1, <2>2 DEF EngineFollows
<1> QED
  BY <1>1, <1>2, <1>4, CursorsMoveNot DEF ReplayInv

LEMMA GetReplayKeeps ==
  ASSUME ReplayInv, NEW p \in Process, NEW r \in Replay, Replays!GetReplay(p, r)
  PROVE  ReplayInv' /\ StreamsForward
<1> DEFINE m == [at |-> r, read |-> cursors[r], now |-> cursors[r], out |-> <<>>]
<1>1. /\ r \in DOMAIN streams /\ Replays!ValidCursor(streams[r], cursors[r])
      /\ engines' = [engines EXCEPT ![p] = m] /\ UNCHANGED <<store, streams, cursors, consumed>>
  BY DEF Replays!GetReplay, Replays!Exists, Replays!Restorable
<1>2. cursors[r] \in Replays!Cursor /\ cursors[r].position \in Nat
  BY <1>1 DEF ReplayInv, Replays!TypeOK, Replays!Cursor
<1>3. m \in Replays!Engine
  BY <1>2, EmptySeq DEF Replays!Engine
<1>4. m.at = r /\ m.read = cursors[r] /\ m.now = cursors[r] /\ m.out = <<>>
  OBVIOUS
<1> HIDE DEF m
<1>5. m.out = SubSeq(streams[r], cursors[r].position + 1, cursors[r].position)
  BY <1>2, <1>4, SubSeqEmpty
<1>6. EngineFollows(m)
  BY <1>1, <1>2, <1>4, <1>5 DEF EngineFollows
<1> QED
  BY <1>1, <1>3, <1>6, EngineMoves

LEMMA OperateKeeps ==
  ASSUME Replays!MarketReplayAssumption, ReplayInv, NEW p \in Process, engines[p] # Replays!Idle,
         Replays!Start(p) \/ Replays!Pause(p) \/ Replays!Resume(p) \/ Replays!NextEvent(p)
  PROVE  ReplayInv' /\ StreamsForward
<1>1. PICK m \in Replays!Engine : m = engines[p] /\ EngineFollows(m)
  BY EngineIs DEF ReplayInv, EnginesFollow
<1>2. PICK c, out : Operates(streams[m.at], m, c, out) /\ Replays!Operate(p, c, out)
  BY <1>1 DEF Replays!Start, Replays!Pause, Replays!Resume, Replays!NextEvent, Operates
<1>3. /\ c \in Replays!Cursor /\ m.read.position <= c.position
      /\ m.now.status # "completed"
      /\ out = SubSeq(streams[m.at], m.read.position + 1, c.position)
      /\ out \in Seq(Replays!Event)
  BY <1>1, <1>2, OperationFacts DEF ReplayInv
<1>4. PICK x : x = [at |-> m.at, read |-> m.read, now |-> c, out |-> out]
  OBVIOUS
<1>5. x \in Replays!Engine
  BY <1>3, <1>4 DEF Replays!Engine
<1>6. EngineFollows(x)
  BY <1>1, <1>2, <1>3, <1>4 DEF EngineFollows, Replays!Operate
<1> QED
  BY <1>1, <1>2, <1>4, <1>5, <1>6, EngineMoves DEF Replays!Operate

\* The checkpoint that is replaced is the one the engine has read, so what it handed out
\* since goes on where the last one stopped.
LEMMA ReplaceCheckpointKeeps ==
  ASSUME Replays!MarketReplayAssumption, ReplayInv, NEW p \in Process, engines[p] # Replays!Idle,
         Replays!ReplaceCheckpoint(p)
  PROVE  ReplayInv' /\ StreamsForward
<1>1. PICK m \in Replays!Engine : m = engines[p] /\ EngineFollows(m)
  BY EngineIs DEF ReplayInv, EnginesFollow
<1>2. PICK r \in Replay : r = m.at /\ r \in DOMAIN streams
  BY <1>1, EngineTypes DEF ReplayInv, EngineFollows
<1>3. /\ m.now # m.read /\ Replays!ValidCursor(streams[r], m.now)
      /\ engines' = [engines EXCEPT ![p] = Replays!Idle] /\ UNCHANGED <<store, streams>>
      /\ IF cursors[r] = m.read
         THEN /\ cursors' = [cursors EXCEPT ![r] = m.now]
              /\ consumed' = [consumed EXCEPT ![r] = consumed[r] \o m.out]
         ELSE UNCHANGED <<cursors, consumed>>
  BY <1>1, <1>2 DEF Replays!ReplaceCheckpoint, Replays!Unmoved
<1>4. CASE cursors[r] # m.read
  BY <1>3, <1>4, EngineMoves
<1>5. CASE cursors[r] = m.read
  <2>1. /\ DOMAIN cursors = DOMAIN streams /\ DOMAIN consumed = DOMAIN streams
        /\ m.read \in Replays!Cursor /\ m.now \in Replays!Cursor /\ m.out \in Seq(Replays!Event)
        /\ streams[r] \in Seq(Replays!Event) /\ consumed[r] \in Seq(Replays!Event)
    BY <1>2 DEF ReplayInv, Replays!TypeOK, Replays!Engine
  <2>2. /\ DOMAIN cursors' = DOMAIN streams /\ DOMAIN consumed' = DOMAIN streams
        /\ cursors'[r] = m.now /\ consumed'[r] = consumed[r] \o m.out
        /\ \A q \in DOMAIN streams : q # r => cursors'[q] = cursors[q] /\ consumed'[q] = consumed[q]
    BY <1>2, <1>3, <1>5, <2>1
  <2>3. consumed'[r] = SubSeq(streams[r], 1, m.now.position)
    <3>1. PICK k \in Nat, l \in Nat : /\ k = m.read.position /\ l = m.now.position
                                      /\ k <= l /\ l <= Len(streams[r]) /\ Len(streams[r]) \in Nat
      BY <1>1, <1>2, EngineTypes DEF ReplayInv, EngineFollows
    <3>2. consumed[r] = SubSeq(streams[r], 1, k) /\ m.out = SubSeq(streams[r], k + 1, l)
      BY <1>1, <1>2, <1>5, <3>1 DEF ReplayInv, Replays!EachEventOnce, EngineFollows
    <3>3. 1 \in 1..Len(streams[r]) + 1 /\ k \in 1 - 1..Len(streams[r]) /\ l \in k..Len(streams[r])
      BY <3>1
    <3>4. SubSeq(streams[r], 1, k) \o SubSeq(streams[r], k + 1, l) = SubSeq(streams[r], 1, l)
      BY <2>1, <3>3, ConcatAdjacentSubSeq
    <3> QED
      BY <2>2, <3>1, <3>2, <3>4
  <2>4. consumed'[r] \in Seq(Replays!Event)
    BY <2>1, <2>2, ConcatProperties
  <2>5. Replays!TypeOK'
    <3>1. engines' \in [Process -> Replays!Engine \union {Replays!Idle}]
      BY <1>3 DEF ReplayInv, Replays!TypeOK
    <3>2. \A q \in DOMAIN streams : cursors'[q] \in Replays!Cursor /\ consumed'[q] \in Seq(Replays!Event)
      BY <2>1, <2>2, <2>4 DEF ReplayInv, Replays!TypeOK
    <3> QED
      BY <1>3, <2>2, <3>1, <3>2 DEF ReplayInv, Replays!TypeOK
  <2>6. Replays!EveryReplayRestores'
    BY <1>3, <2>2 DEF ReplayInv, Replays!EveryReplayRestores, Replays!Restorable, Replays!Stored
  <2>7. Replays!EachEventOnce'
    BY <1>3, <2>2, <2>3 DEF ReplayInv, Replays!EachEventOnce
  <2>8. EnginesFollow'
    BY <1>3 DEF ReplayInv, Replays!TypeOK, EnginesFollow, EngineFollows
  <2>9. StreamsForward
    <3>1. \A q \in DOMAIN streams : cursors[q].position \in Nat
      BY DEF ReplayInv, Replays!TypeOK, Replays!Cursor
    <3>2. m.read.position <= m.now.position /\ m.read.status # "completed"
      BY <1>1, <1>3 DEF EngineFollows
    <3>3. m.now.position >= m.read.position
      <4>1. m.read.position \in Nat /\ m.now.position \in Nat
        BY <2>1 DEF Replays!Cursor
      <4> QED
        BY <3>2, <4>1
    <3>4. ASSUME NEW q \in DOMAIN streams
          PROVE  /\ cursors'[q].position >= cursors[q].position
                 /\ cursors[q].status = "completed" => cursors'[q] = cursors[q]
      <4>1. CASE q = r
        BY <1>5, <2>2, <3>2, <3>3, <4>1
      <4>2. CASE q # r
        BY <2>2, <3>1, <4>2
      <4> QED
        BY <4>1, <4>2
    <3> QED
      BY <1>3, <3>4 DEF StreamsForward
  <2> QED
    BY <2>5, <2>6, <2>7, <2>8, <2>9 DEF ReplayInv
<1> QED
  BY <1>4, <1>5

LEMMA ReplayStep ==
  ASSUME Replays!MarketReplayAssumption, ReplayInv, [Replays!Next]_(Replays!vars)
  PROVE  ReplayInv' /\ StreamsForward
<1>1. CASE UNCHANGED Replays!vars
  <2>1. ReplayInv'
    BY <1>1 DEF Replays!vars, ReplayInv, Replays!TypeOK, Replays!EveryReplayRestores, Replays!Restorable,
                Replays!Stored, Replays!EachEventOnce, EnginesFollow, EngineFollows
  <2> QED
    BY <1>1, <2>1, CursorsMoveNot DEF Replays!vars
<1>2. ASSUME NEW r \in Replay, NEW events \in SUBSET Replays!Event, Replays!IsFiniteSet(events),
             Replays!Cardinality(events) <= MaxEvents, Replays!AddReplay(r, events)
      PROVE  ReplayInv' /\ StreamsForward
  BY <1>2, SameFiniteSets, AddReplayKeeps
<1>3. ASSUME NEW p \in Process, Replays!Drop(p)
      PROVE  ReplayInv' /\ StreamsForward
  BY <1>3, EngineMoves DEF Replays!Drop
<1>4. CASE Replays!Next
  BY <1>2, <1>3, <1>4, GetReplayKeeps, OperateKeeps, ReplaceCheckpointKeeps DEF Replays!Next
<1> QED
  BY <1>1, <1>4

\* However many processes restore, move, store and drop engines: a replay's events are
\* handed out once and in order, every replay reads back, and no checkpoint moves back.
THEOREM ReplayEvents ==
  ASSUME Replays!MarketReplayAssumption
  PROVE  Replays!Spec => EventsHandedOutOnce
<1>1. Replays!Init => ReplayInv
  <2> SUFFICES ASSUME Replays!Init PROVE ReplayInv
    OBVIOUS
  <2>1. store = {} /\ DOMAIN streams = {} /\ DOMAIN cursors = {} /\ DOMAIN consumed = {}
    BY EmptySeq DEF Replays!Init
  <2> QED
    BY <2>1 DEF Replays!Init, ReplayInv, Replays!TypeOK, Replays!EachEventOnce,
                Replays!EveryReplayRestores, EnginesFollow
<1>2. ReplayInv /\ [Replays!Next]_(Replays!vars) => ReplayInv' /\ StreamsForward
  BY ReplayStep
<1>3. ReplayInv => Replays!TypeOK /\ Replays!EachEventOnce /\ Replays!EveryReplayRestores
  BY DEF ReplayInv
<1> QED
  BY <1>1, <1>2, <1>3, PTL DEF Replays!Spec, EventsHandedOutOnce, Replays!OnlyForward, StreamsForward

-----------------------------------------------------------------------------
(* Stored rows (StrategyRecords), for any runtimes, versions of the account,   *)
(* trades and policies.                                                        *)

\* Whoever reads a row finds its own content under its id.
LEMMA SignalRow ==
  ASSUME NEW r, Records!SignalReads(r)
  PROVE  r.id = r.payload.is /\ r.payload.digest = r.payload.is /\ Records!SignalHolds(r.payload)
<1>1. r = Records!Row(r.payload) /\ Records!SignalHolds(r.payload)
  BY DEF Records!SignalReads, Records!ColumnsAgree
<1>2. r.id = r.payload.digest
  BY <1>1 DEF Records!Row
<1> QED
  BY <1>1, <1>2 DEF Records!SignalHolds

LEMMA IntentRow ==
  ASSUME NEW d, NEW r, Records!IntentReads(d, r)
  PROVE  /\ r.id = r.payload.is /\ r.payload.digest = r.payload.is
         /\ Records!IntentHolds(r.payload) /\ Records!IntentFits(d, r.payload.is)
<1>1. r = Records!Row(r.payload) /\ Records!IntentHolds(r.payload) /\ Records!IntentFits(d, r.payload.is)
  BY DEF Records!IntentReads, Records!ColumnsAgree
<1>2. r.id = r.payload.digest
  BY <1>1 DEF Records!Row
<1> QED
  BY <1>1, <1>2 DEF Records!IntentHolds, Records!OrderHolds

LEMMA DecisionRow ==
  ASSUME NEW d, NEW r, Records!DecisionReads(d, r)
  PROVE  /\ r.id = r.payload.is /\ r.payload.digest = r.payload.is
         /\ Records!DecisionHolds(r.payload) /\ Records!DecisionFits(d, r.payload.is)
<1>1. /\ r = Records!Row(r.payload) /\ Records!DecisionHolds(r.payload)
      /\ Records!DecisionFits(d, r.payload.is)
  BY DEF Records!DecisionReads, Records!ColumnsAgree
<1>2. r.id = r.payload.digest
  BY <1>1 DEF Records!Row
<1> QED
  BY <1>1, <1>2 DEF Records!DecisionHolds

\* What is read under an id is the record of a row that reads, and it is what the id names.
LEMMA SignalGot ==
  ASSUME NEW d, NEW id, NEW p \in Records!GetSignal(d, id)
  PROVE  /\ p.is = id /\ p.digest = id
         /\ \E r \in d.signals : r.id = id /\ r.payload = p /\ Records!SignalReads(r)
<1>1. PICK r \in d.signals : r.id = id /\ r.payload = p /\ Records!SignalReads(r)
  BY DEF Records!GetSignal, Records!Get, Records!WithId
<1> QED
  BY <1>1, SignalRow

LEMMA IntentGot ==
  ASSUME NEW d, NEW id, NEW p \in Records!GetIntent(d, id)
  PROVE  /\ p.is = id /\ p.digest = id
         /\ \E r \in d.intents : r.id = id /\ r.payload = p /\ Records!IntentReads(d, r)
<1>1. PICK r \in d.intents : r.id = id /\ r.payload = p /\ Records!IntentReads(d, r)
  BY DEF Records!GetIntent, Records!Get, Records!WithId
<1> QED
  BY <1>1, IntentRow

LEMMA DecisionGot ==
  ASSUME NEW d, NEW id, NEW p \in Records!GetDecision(d, id)
  PROVE  /\ p.is = id /\ p.digest = id
         /\ \E r \in d.decisions : r.id = id /\ r.payload = p /\ Records!DecisionReads(d, r)
<1>1. PICK r \in d.decisions : r.id = id /\ r.payload = p /\ Records!DecisionReads(d, r)
  BY DEF Records!GetDecision, Records!Get, Records!WithId
<1> QED
  BY <1>1, DecisionRow

LEMMA AnswersRead == Records!AnswersAreRead
BY SignalGot, IntentGot, DecisionGot DEF Records!AnswersAreRead

-----------------------------------------------------------------------------
(* What reads hangs together *)

\* An order goes from what is held to the target.
LEMMA OrderReaches ==
  ASSUME NEW p, Records!OrderHolds(p)
  PROVE  /\ p.is.side = "buy" => p.is.account.held + p.is.requested = p.is.target
         /\ p.is.side = "sell" => p.is.account.held - p.is.requested = p.is.target
         /\ p.is.side # "none" => p.is.side \in {"buy", "sell"} /\ p.is.requested \in Nat \ {0}
<1>1. PICK t \in Nat : t = p.is.target
  BY DEF Records!OrderHolds
<1>2. PICK h \in Nat : h = p.is.account.held
  BY DEF Records!OrderHolds, Records!AccountHolds
<1>3. p.is.side = Records!SideTo(t, h) /\ p.is.requested = Records!Delta(t, h)
  BY <1>1, <1>2 DEF Records!OrderHolds
<1>4. CASE t > h
  <2>1. Records!SideTo(t, h) = "buy" /\ Records!Delta(t, h) = t - h
    BY <1>4 DEF Records!SideTo, Records!Delta
  <2> QED
    BY <1>1, <1>2, <1>3, <1>4, <2>1
<1>5. CASE t < h
  <2>1. Records!SideTo(t, h) = "sell" /\ Records!Delta(t, h) = h - t
    BY <1>5 DEF Records!SideTo, Records!Delta
  <2> QED
    BY <1>1, <1>2, <1>3, <1>5, <2>1
<1>6. CASE t = h
  <2>1. Records!SideTo(t, h) = "none"
    BY <1>6 DEF Records!SideTo
  <2> QED
    BY <1>3, <2>1
<1> QED
  BY <1>4, <1>5, <1>6

\* A decision that allows its order found no rule broken.
LEMMA AllowedKeepsRules ==
  ASSUME NEW p, Records!DecisionHolds(p), p.is.outcome = "allow"
  PROVE  LET s == p.is.snapshot IN
         /\ s.side = "buy" => s.requested * s.price.price <= s.account.cash
         /\ \A limit \in s.policy.quantity : s.requested <= limit
         /\ \A limit \in s.policy.notional : s.requested * s.price.price <= limit
<1> DEFINE s == p.is.snapshot
<1>1. /\ s.cash = s.account.cash /\ s.notional = s.requested * s.price.price
      /\ s.rules = Records!RulesOn(s.side, s.requested, s.cash, s.held, s.notional, s.policy)
  BY DEF Records!DecisionHolds, Records!SnapshotHolds
<1>2. Records!Reasons(s.rules) = {}
  BY DEF Records!DecisionHolds
<1>3. \A rule \in Records!RiskRule : s.rules[rule].applicable => s.rules[rule].passed
  BY <1>2 DEF Records!Reasons
<1> HIDE DEF s
<1>4. s.side = "buy" => s.cash >= s.notional
  <2>1. /\ s.rules["cash"].applicable = (s.side = "buy")
        /\ s.rules["cash"].passed = ((s.side = "buy") => s.cash >= s.notional)
    BY <1>1 DEF Records!RulesOn, Records!RuleEvidence
  <2> QED
    BY <1>3, <2>1 DEF Records!RiskRule
<1>5. \A limit \in s.policy.quantity : s.requested <= limit
  <2>1. /\ s.rules["quantity"].applicable = (s.policy.quantity # {})
        /\ s.rules["quantity"].passed =
             ((s.policy.quantity # {}) => \A limit \in s.policy.quantity : s.requested <= limit)
    BY <1>1 DEF Records!RulesOn, Records!RuleEvidence
  <2> QED
    BY <1>3, <2>1 DEF Records!RiskRule
<1>6. \A limit \in s.policy.notional : s.notional <= limit
  <2>1. /\ s.rules["notional"].applicable = (s.policy.notional # {})
        /\ s.rules["notional"].passed =
             ((s.policy.notional # {}) => \A limit \in s.policy.notional : s.notional <= limit)
    BY <1>1 DEF Records!RulesOn, Records!RuleEvidence
  <2> QED
    BY <1>3, <2>1 DEF Records!RiskRule
<1>7. s.side = "buy" => s.notional <= s.cash
  BY <1>4
<1>8. /\ s.side = "buy" => s.requested * s.price.price <= s.account.cash
      /\ \A limit \in s.policy.quantity : s.requested <= limit
      /\ \A limit \in s.policy.notional : s.requested * s.price.price <= limit
  BY <1>1, <1>5, <1>6, <1>7
<1> QED
  BY <1>8 DEF s

LEMMA ReadsHang == Records!ReadsHangTogether
<1> SUFFICES ASSUME NEW r \in db.decisions, Records!DecisionReads(db, r)
             PROVE  \E i \in db.intents, s \in db.signals :
                      LET d == r.payload.is.snapshot IN
                      /\ i.id = d.intent /\ Records!IntentReads(db, i)
                      /\ s.id = i.payload.is.signal /\ Records!SignalReads(s)
                      /\ d.position = s.payload.is.position
                      /\ d.side = "buy"  => d.held + d.requested = s.payload.is.target
                      /\ d.side = "sell" => d.held - d.requested = s.payload.is.target
                      /\ r.payload.is.outcome = "allow" =>
                           /\ d.side = "buy" => d.requested * d.price.price <= d.account.cash
                           /\ \A limit \in d.policy.quantity : d.requested <= limit
                           /\ \A limit \in d.policy.notional : d.requested * d.price.price <= limit
  BY SMTT(30) DEF Records!ReadsHangTogether
<1> DEFINE d == r.payload.is.snapshot
<1>1. Records!DecisionHolds(r.payload) /\ Records!DecisionFits(db, r.payload.is)
  BY DecisionRow
<1>2. PICK p \in Records!GetIntent(db, d.intent) : Records!DecisionMatchesIntent(d, p)
  BY <1>1 DEF Records!DecisionFits
<1>3. PICK i \in db.intents : i.id = d.intent /\ i.payload = p /\ Records!IntentReads(db, i)
  BY IntentGot
<1>4. Records!IntentHolds(i.payload) /\ Records!IntentFits(db, i.payload.is)
  BY <1>3, IntentRow
<1>5. PICK q \in Records!GetSignal(db, i.payload.is.signal) : Records!IntentMatchesSignal(i.payload.is, q)
  BY <1>4 DEF Records!IntentFits
<1>6. PICK s \in db.signals : s.id = i.payload.is.signal /\ s.payload = q /\ Records!SignalReads(s)
  BY SignalGot
<1>7. i.payload.is.position = s.payload.is.position /\ i.payload.is.target = s.payload.is.target
  BY <1>5, <1>6 DEF Records!IntentMatchesSignal
<1>8. /\ d.position = i.payload.is.position /\ d.account = i.payload.is.account
      /\ d.side = i.payload.is.side /\ d.requested = i.payload.is.requested
  BY <1>2, <1>3 DEF Records!DecisionMatchesIntent
<1>9. d.held = d.account.held
  BY <1>1 DEF Records!DecisionHolds, Records!SnapshotHolds
<1>10. Records!OrderHolds(i.payload)
  BY <1>4 DEF Records!IntentHolds
<1> HIDE DEF d
<1>11. /\ d.side = "buy"  => d.held + d.requested = s.payload.is.target
       /\ d.side = "sell" => d.held - d.requested = s.payload.is.target
  BY <1>7, <1>8, <1>9, <1>10, OrderReaches
<1>12. r.payload.is.outcome = "allow" =>
         /\ d.side = "buy" => d.requested * d.price.price <= d.account.cash
         /\ \A limit \in d.policy.quantity : d.requested <= limit
         /\ \A limit \in d.policy.notional : d.requested * d.price.price <= limit
  BY <1>1, AllowedKeepsRules DEF d
<1>13. d.position = s.payload.is.position
  BY <1>7, <1>8
<1> QED
  BY <1>3, <1>6, <1>11, <1>12, <1>13 DEF d
-----------------------------------------------------------------------------
(* Rows that are added leave the others readable *)

SignalsRead(d)   == \A r \in d.signals : Records!SignalReads(r)
IntentsRead(d)   == \A r \in d.intents : Records!IntentReads(d, r)
DecisionsRead(d) == \A r \in d.decisions : Records!DecisionReads(d, r)
RowsRead(d)      == SignalsRead(d) /\ IntentsRead(d) /\ DecisionsRead(d)

LEMMA SignalStays ==
  ASSUME NEW d, NEW e, d.signals \subseteq e.signals, SignalsRead(e),
         NEW id, NEW p \in Records!GetSignal(d, id)
  PROVE  p \in Records!GetSignal(e, id)
<1>1. PICK r \in d.signals : r.id = id /\ r.payload = p
  BY SignalGot
<1> QED
  BY <1>1 DEF SignalsRead, Records!GetSignal, Records!Get, Records!WithId

LEMMA IntentFitsStays ==
  ASSUME NEW d, NEW e, d.signals \subseteq e.signals, SignalsRead(e), NEW i, Records!IntentFits(d, i)
  PROVE  Records!IntentFits(e, i)
BY SignalStays DEF Records!IntentFits

LEMMA IntentStays ==
  ASSUME NEW d, NEW e, d.intents \subseteq e.intents, IntentsRead(e),
         NEW id, NEW p \in Records!GetIntent(d, id)
  PROVE  p \in Records!GetIntent(e, id)
<1>1. PICK r \in d.intents : r.id = id /\ r.payload = p
  BY IntentGot
<1> QED
  BY <1>1 DEF IntentsRead, Records!GetIntent, Records!Get, Records!WithId

LEMMA DecisionFitsStays ==
  ASSUME NEW d, NEW e, d.intents \subseteq e.intents, IntentsRead(e), NEW i, Records!DecisionFits(d, i)
  PROVE  Records!DecisionFits(e, i)
BY IntentStays DEF Records!DecisionFits

LEMMA DecisionStays ==
  ASSUME NEW d, NEW e, d.decisions \subseteq e.decisions, DecisionsRead(e),
         NEW id, NEW p \in Records!GetDecision(d, id)
  PROVE  p \in Records!GetDecision(e, id)
<1>1. PICK r \in d.decisions : r.id = id /\ r.payload = p
  BY DecisionGot
<1> QED
  BY <1>1 DEF DecisionsRead, Records!GetDecision, Records!Get, Records!WithId

Extends(d, e) ==
  d.signals \subseteq e.signals /\ d.intents \subseteq e.intents /\ d.decisions \subseteq e.decisions

\* Tables whose rows read, with further rows that read beside them.
LEMMA RowsReadStay ==
  ASSUME NEW d, NEW e, Extends(d, e), RowsRead(d),
         \A r \in e.signals : r \in d.signals \/ Records!SignalReads(r),
         \A r \in e.intents : r \in d.intents \/ Records!IntentReads(e, r),
         \A r \in e.decisions : r \in d.decisions \/ Records!DecisionReads(e, r)
  PROVE  RowsRead(e)
<1>1. SignalsRead(e)
  BY DEF RowsRead, SignalsRead
<1>2. IntentsRead(e)
  <2> SUFFICES ASSUME NEW r \in e.intents, r \in d.intents PROVE Records!IntentReads(e, r)
    BY DEF IntentsRead
  <2>1. Records!IntentReads(d, r)
    BY DEF RowsRead, IntentsRead
  <2>2. Records!IntentFits(e, r.payload.is)
    BY <1>1, <2>1, IntentFitsStays DEF Records!IntentReads, Extends
  <2> QED
    BY <2>1, <2>2 DEF Records!IntentReads
<1>3. DecisionsRead(e)
  <2> SUFFICES ASSUME NEW r \in e.decisions, r \in d.decisions PROVE Records!DecisionReads(e, r)
    BY DEF DecisionsRead
  <2>1. Records!DecisionReads(d, r)
    BY DEF RowsRead, DecisionsRead
  <2>2. Records!DecisionFits(e, r.payload.is)
    BY <1>2, <2>1, DecisionFitsStays DEF Records!DecisionReads, Extends
  <2> QED
    BY <2>1, <2>2 DEF Records!DecisionReads
<1> QED
  BY <1>1, <1>2, <1>3 DEF RowsRead

LEMMA ResolvedStays ==
  ASSUME NEW d, NEW e, Extends(d, e), RowsRead(e), NEW rc, NEW p \in Records!Resolved(d, rc)
  PROVE  p \in Records!Resolved(e, rc)
<1>1. p \in Records!ResultOf(d, rc)
  BY DEF Records!Resolved
<1>2. p \in Records!ResultOf(e, rc)
  <2>1. CASE rc.kind = "strategy_signal"
    BY <1>1, <2>1, SignalStays DEF Records!ResultOf, RowsRead, Extends
  <2>2. CASE rc.kind = "order_intent"
    BY <1>1, <2>2, IntentStays DEF Records!ResultOf, RowsRead, Extends
  <2>3. CASE rc.kind = "pre_trade_risk_decision"
    BY <1>1, <2>3, DecisionStays DEF Records!ResultOf, RowsRead, Extends
  <2>4. CASE rc.kind \notin {"strategy_signal", "order_intent", "pre_trade_risk_decision"}
    <3>1. p \in rc.payload /\ Records!NoActionHolds(p) /\ Records!IntentFits(d, p.is)
      BY <1>1, <2>4 DEF Records!ResultOf
    <3>2. Records!IntentFits(e, p.is)
      BY <3>1, IntentFitsStays DEF RowsRead, Extends
    <3> QED
      BY <2>4, <3>1, <3>2 DEF Records!ResultOf
  <2> QED
    BY <2>1, <2>2, <2>3, <2>4
<1> QED
  BY <1>2 DEF Records!Resolved

\* What a receipt resolves to is what its id names.
LEMMA ResolvedIs ==
  ASSUME NEW d, NEW rc, NEW p \in Records!Resolved(d, rc)
  PROVE  p.is = rc.id /\ rc.ns = Records!NamespaceOf(rc.kind)
<1>1. p \in Records!ResultOf(d, rc) /\ rc.id = p.digest /\ rc.ns = Records!NamespaceOf(rc.kind)
  BY DEF Records!Resolved
<1>2. p.digest = p.is
  <2>1. CASE rc.kind = "strategy_signal"
    BY <1>1, <2>1, SignalGot DEF Records!ResultOf
  <2>2. CASE rc.kind = "order_intent"
    BY <1>1, <2>2, IntentGot DEF Records!ResultOf
  <2>3. CASE rc.kind = "pre_trade_risk_decision"
    BY <1>1, <2>3, DecisionGot DEF Records!ResultOf
  <2>4. CASE rc.kind \notin {"strategy_signal", "order_intent", "pre_trade_risk_decision"}
    BY <1>1, <2>4 DEF Records!ResultOf, Records!NoActionHolds, Records!OrderHolds
  <2> QED
    BY <2>1, <2>2, <2>3, <2>4
<1> QED
  BY <1>1, <1>2

-----------------------------------------------------------------------------
(* Records that the commands compute *)

SignalTrue(s) == \E r \in RecordRuntime, n \in Records!Position : s = Records!Signal(r, n, Wants[r][n])
OrderTrue(i) ==
  \E v \in Records!Version :
    i = Records!Order(i.signal, i.signal.position, Records!AccountReference(v), i.signal.target)
DecisionTrue(d) ==
  d = Records!Decision(Records!Snapshot(d.snapshot.intent, d.snapshot.intent, d.snapshot.policy,
        Records!PriceReference(d.snapshot.intent.position, Trade[d.snapshot.intent.position])))

\* A result of this namespace that the program computed.
TrueOf(ns, is) ==
  /\ ns = "evaluate_strategy_signal" => SignalTrue(is)
  /\ ns = "derive_order_intent" => OrderTrue(is)
  /\ ns = "evaluate_pre_trade_risk" => DecisionTrue(is)

\* It is a result of what was asked.
Fits(ns, asked, is) ==
  /\ ns = "evaluate_strategy_signal" => is.runtime = asked.runtime /\ is.position = asked.position
  /\ ns = "derive_order_intent" => is.signal = asked.id /\ is.account.version = asked.version
  /\ ns = "evaluate_pre_trade_risk" => is.snapshot.intent = asked.id /\ is.snapshot.policy = asked.policy

\* Signal, account version and policy, and what they were asked of, leave one result.
LEMMA OneResult ==
  ASSUME NEW ns \in Records!Namespace, NEW asked, NEW is, NEW other,
         TrueOf(ns, is), Fits(ns, asked, is), TrueOf(ns, other), Fits(ns, asked, other)
  PROVE  is = other
<1>1. CASE ns = "evaluate_strategy_signal"
  <2>1. PICK r \in RecordRuntime, n \in Records!Position : is = Records!Signal(r, n, Wants[r][n])
    BY <1>1 DEF TrueOf, SignalTrue
  <2>2. PICK q \in RecordRuntime, m \in Records!Position : other = Records!Signal(q, m, Wants[q][m])
    BY <1>1 DEF TrueOf, SignalTrue
  <2>3. is.runtime = r /\ is.position = n /\ other.runtime = q /\ other.position = m
    BY <2>1, <2>2 DEF Records!Signal
  <2>4. r = q /\ n = m
    BY <1>1, <2>3 DEF Fits
  <2> QED
    BY <2>1, <2>2, <2>4
<1>2. CASE ns = "derive_order_intent"
  <2>1. PICK v \in Records!Version :
          is = Records!Order(is.signal, is.signal.position, Records!AccountReference(v), is.signal.target)
    BY <1>2 DEF TrueOf, OrderTrue
  <2>2. PICK w \in Records!Version :
          other = Records!Order(other.signal, other.signal.position, Records!AccountReference(w),
                                other.signal.target)
    BY <1>2 DEF TrueOf, OrderTrue
  <2>3. is.account = Records!AccountReference(v) /\ other.account = Records!AccountReference(w)
    BY <2>1, <2>2 DEF Records!Order
  <2>4. is.account.version = v /\ other.account.version = w
    BY <2>3 DEF Records!AccountReference
  <2>5. v = w /\ is.signal = other.signal
    BY <1>2, <2>4 DEF Fits
  <2> QED
    BY <2>1, <2>2, <2>5
<1>3. CASE ns = "evaluate_pre_trade_risk"
  <2>1. DecisionTrue(is) /\ DecisionTrue(other)
    BY <1>3 DEF TrueOf
  <2>2. is.snapshot.intent = other.snapshot.intent /\ is.snapshot.policy = other.snapshot.policy
    BY <1>3 DEF Fits
  <2> QED
    BY <2>1, <2>2 DEF DecisionTrue
<1> QED
  BY <1>1, <1>2, <1>3 DEF Records!Namespace

RowsTrue(d) ==
  /\ \A r \in d.signals : SignalTrue(r.payload.is)
  /\ \A r \in d.intents : OrderTrue(r.payload.is)
  /\ \A r \in d.decisions : DecisionTrue(r.payload.is)
ReceiptsTrue(d) == \A rc \in d.receipts : TrueOf(Records!NamespaceOf(rc.kind), rc.id)
KeptTrue(d)     == \A rc \in d.receipts : \A p \in rc.payload : OrderTrue(p.is)

\* A receipt resolves to what the program computed, as long as rows or receipts are true.
LEMMA ResolvedTrue ==
  ASSUME NEW d, KeptTrue(d), RowsTrue(d) \/ ReceiptsTrue(d),
         NEW rc \in d.receipts, NEW p \in Records!Resolved(d, rc)
  PROVE  TrueOf(rc.ns, p.is)
<1>1. p.is = rc.id /\ rc.ns = Records!NamespaceOf(rc.kind)
  BY ResolvedIs
<1>2. CASE ReceiptsTrue(d)
  BY <1>1, <1>2 DEF ReceiptsTrue
<1>3. CASE RowsTrue(d)
  <2>1. p \in Records!ResultOf(d, rc)
    BY DEF Records!Resolved
  <2>2. CASE rc.kind = "strategy_signal"
    <3>1. PICK r \in d.signals : r.payload = p
      BY <2>1, <2>2, SignalGot DEF Records!ResultOf
    <3>2. SignalTrue(p.is) /\ rc.ns = "evaluate_strategy_signal"
      BY <1>1, <1>3, <2>2, <3>1 DEF RowsTrue, Records!NamespaceOf
    <3> QED
      BY <3>2 DEF TrueOf
  <2>3. CASE rc.kind = "pre_trade_risk_decision"
    <3>1. PICK r \in d.decisions : r.payload = p
      BY <2>1, <2>3, DecisionGot DEF Records!ResultOf
    <3>2. DecisionTrue(p.is) /\ rc.ns = "evaluate_pre_trade_risk"
      BY <1>1, <1>3, <2>3, <3>1 DEF RowsTrue, Records!NamespaceOf
    <3> QED
      BY <3>2 DEF TrueOf
  <2>4. CASE rc.kind \notin {"strategy_signal", "pre_trade_risk_decision"}
    <3>1. OrderTrue(p.is)
      <4>1. CASE rc.kind = "order_intent"
        <5>1. PICK r \in d.intents : r.payload = p
          BY <2>1, <4>1, IntentGot DEF Records!ResultOf
        <5> QED
          BY <1>3, <5>1 DEF RowsTrue
      <4>2. CASE rc.kind # "order_intent"
        BY <2>1, <2>4, <4>2 DEF Records!ResultOf, KeptTrue
      <4> QED
        BY <4>1, <4>2
    <3>2. rc.ns = "derive_order_intent"
      BY <1>1, <2>4 DEF Records!NamespaceOf
    <3> QED
      BY <3>1, <3>2 DEF TrueOf
  <2> QED
    BY <2>2, <2>3, <2>4
<1> QED
  BY <1>2, <1>3
-----------------------------------------------------------------------------
(* The invariant *)

Tables(d) ==
  d = [signals |-> d.signals, intents |-> d.intents, decisions |-> d.decisions, receipts |-> d.receipts]

IsAnswer(t) == t.ns \in Records!Namespace /\ TrueOf(t.ns, t.result) /\ Fits(t.ns, t.asked, t.result)

\* A receipt answers t again.
Again(d, t) ==
  \E rc \in d.receipts : /\ rc.ns = t.ns /\ rc.key = t.key
                         /\ \E p \in Records!Resolved(d, rc) : p.is = t.result

RecordInv ==
  /\ harms \in Nat /\ Tables(db)
  /\ \A t \in answers : IsAnswer(t)
  /\ KeptTrue(db)
  /\ harms <= 1 => RowsTrue(db) \/ ReceiptsTrue(db)
  /\ harms = 0 => /\ RowsTrue(db) /\ ReceiptsTrue(db) /\ RowsRead(db)
                  /\ \A t \in answers : Again(db, t)

LEMMA AgainStays ==
  ASSUME NEW d, NEW e, Extends(d, e), RowsRead(e), d.receipts \subseteq e.receipts, NEW t, Again(d, t)
  PROVE  Again(e, t)
<1>1. PICK rc \in d.receipts : /\ rc.ns = t.ns /\ rc.key = t.key
                               /\ \E p \in Records!Resolved(d, rc) : p.is = t.result
  BY DEF Again
<1>2. PICK p \in Records!Resolved(d, rc) : p.is = t.result
  BY <1>1
<1>3. p \in Records!Resolved(e, rc)
  BY ResolvedStays
<1> QED
  BY <1>1, <1>2, <1>3 DEF Again

\* A receipt alone changes no row.
LEMMA SameRows ==
  ASSUME NEW d, NEW e, e.signals = d.signals, e.intents = d.intents, e.decisions = d.decisions
  PROVE  /\ Extends(d, e)
         /\ RowsTrue(d) <=> RowsTrue(e)
         /\ RowsRead(d) => RowsRead(e)
<1>1. Extends(d, e)
  BY DEF Extends
<1>2. RowsRead(d) => RowsRead(e)
  BY <1>1, RowsReadStay
<1> QED
  BY <1>1, <1>2 DEF RowsTrue

\* A result that is stored, with the tables it is added to.
LEMMA RecordStoreKeeps ==
  ASSUME RecordInv, NEW d, NEW kind, NEW key, NEW asked, NEW p,
         Tables(d), Extends(db, d), d.receipts = db.receipts,
         harms = 0 => RowsRead(d), RowsTrue(db) => RowsTrue(d),
         p.digest = p.is, TrueOf(Records!NamespaceOf(kind), p.is), Fits(Records!NamespaceOf(kind), asked, p.is),
         kind = "order_intent_no_action" => OrderTrue(p.is),
         Records!Store(d, kind, key, asked, p)
  PROVE  RecordInv'
<1> DEFINE rc == Records!Receipt(kind, key, asked.actor, p)
           t  == [ns |-> rc.ns, key |-> key, asked |-> asked, result |-> p.is]
           e  == [d EXCEPT !.receipts = @ \union {rc}]
<1>1. /\ Records!Resolved(d, rc) # {} /\ db' = e /\ answers' = answers \union {t} /\ harms' = harms
  BY DEF Records!Store, Records!Tell, Records!CanReceipt
<1>2. /\ rc.ns = Records!NamespaceOf(kind) /\ rc.key = key /\ rc.kind = kind /\ rc.id = p.is
      /\ \A x \in rc.payload : x = p /\ kind = "order_intent_no_action"
  BY DEF Records!Receipt
<1>3. /\ Tables(e) /\ e.signals = d.signals /\ e.intents = d.intents /\ e.decisions = d.decisions
      /\ e.receipts = d.receipts \union {rc}
  BY DEF Tables
<1>4. t.ns = rc.ns /\ t.key = key /\ t.asked = asked /\ t.result = p.is
  OBVIOUS
<1> HIDE DEF rc, t, e
<1>5. Extends(d, e) /\ (RowsTrue(d) <=> RowsTrue(e)) /\ (RowsRead(d) => RowsRead(e))
  BY <1>3, SameRows
<1>6. rc.ns \in Records!Namespace
  BY <1>2 DEF Records!NamespaceOf, Records!Namespace
<1>7. IsAnswer(t)
  BY <1>2, <1>4, <1>6 DEF IsAnswer
<1>8. KeptTrue(e)
  BY <1>2, <1>3 DEF RecordInv, KeptTrue
<1>9. ReceiptsTrue(db) => ReceiptsTrue(e)
  BY <1>2, <1>3 DEF ReceiptsTrue
<1>10. harms = 0 => Again(e, t)
  <2> SUFFICES ASSUME harms = 0 PROVE Again(e, t)
    OBVIOUS
  <2>1. PICK q : q \in Records!Resolved(d, rc)
    BY <1>1
  <2>2. q \in Records!Resolved(e, rc)
    BY <1>5, <2>1, ResolvedStays
  <2>3. q.is = p.is
    BY <1>2, <2>1, ResolvedIs
  <2>4. rc \in e.receipts
    BY <1>3
  <2> QED
    BY <1>2, <1>4, <2>2, <2>3, <2>4 DEF Again
<1>11. harms = 0 => \A u \in answers : Again(e, u)
  <2> SUFFICES ASSUME harms = 0, NEW u \in answers PROVE Again(e, u)
    OBVIOUS
  <2>1. Again(db, u)
    BY DEF RecordInv
  <2>2. Extends(db, e) /\ db.receipts \subseteq e.receipts /\ RowsRead(e)
    BY <1>3, <1>5 DEF Extends
  <2> QED
    BY <2>1, <2>2, AgainStays
<1>12. /\ harms' \in Nat /\ Tables(db') /\ \A u \in answers' : IsAnswer(u)
       /\ KeptTrue(db')
  BY <1>1, <1>3, <1>7, <1>8 DEF RecordInv
<1>13. harms' <= 1 => RowsTrue(db') \/ ReceiptsTrue(db')
  BY <1>1, <1>5, <1>9 DEF RecordInv
<1>14. harms' = 0 => /\ RowsTrue(db') /\ ReceiptsTrue(db') /\ RowsRead(db')
                     /\ \A u \in answers' : Again(db', u)
  BY <1>1, <1>5, <1>9, <1>10, <1>11 DEF RecordInv
<1> QED
  BY <1>12, <1>13, <1>14 DEF RecordInv

\* A repeated command.
LEMMA RecordRepeatKeeps ==
  ASSUME RecordInv, harms <= 1, NEW ns \in Records!Namespace, NEW key, NEW actor, NEW asked,
         NEW is \in Records!Existing(ns, key, actor), Fits(ns, asked, is),
         Records!Repeat(ns, key, asked, is)
  PROVE  RecordInv'
<1> DEFINE t == [ns |-> ns, key |-> key, asked |-> asked, result |-> is]
<1>1. answers' = answers \union {t} /\ db' = db /\ harms' = harms
  BY DEF Records!Repeat, Records!Tell
<1>2. PICK rc \in db.receipts : /\ rc.ns = ns /\ rc.key = key
                                /\ \E p \in Records!Resolved(db, rc) : p.is = is
  BY DEF Records!Existing, Records!Under
<1>3. PICK p \in Records!Resolved(db, rc) : p.is = is
  BY <1>2
<1>4. TrueOf(ns, is)
  BY <1>2, <1>3, ResolvedTrue DEF RecordInv
<1>5. t.ns = ns /\ t.key = key /\ t.asked = asked /\ t.result = is
  OBVIOUS
<1> HIDE DEF t
<1>6. IsAnswer(t) /\ Again(db, t)
  BY <1>2, <1>4, <1>5 DEF IsAnswer, Again
<1> QED
  BY <1>1, <1>6 DEF RecordInv

LEMMA AddedRows ==
  ASSUME NEW table, NEW p
  PROVE  /\ table \subseteq Records!Added(table, p)
         /\ \A r \in Records!Added(table, p) : r \in table \/ r = Records!Row(p)
BY DEF Records!Added

LEMMA RowIs ==
  ASSUME NEW p
  PROVE  Records!Row(p).payload = p /\ Records!ColumnsAgree(Records!Row(p))
BY DEF Records!Row, Records!ColumnsAgree

\* The records that the commands compute hold and read.
LEMMA SignalMade ==
  ASSUME Records!StrategyRecordsAssumption, NEW r \in RecordRuntime, NEW n \in Records!Position
  PROVE  LET s == Records!Signal(r, n, Wants[r][n])
             p == Records!Payload(s, Records!NoOrigin)
         IN /\ p.is = s /\ p.digest = s /\ SignalTrue(s) /\ s.runtime = r /\ s.position = n
            /\ Records!SignalReads(Records!Row(p))
<1> DEFINE s == Records!Signal(r, n, Wants[r][n])
           p == Records!Payload(s, Records!NoOrigin)
<1>1. s.runtime = r /\ s.position = n /\ s.target = Wants[r][n]
  BY DEF Records!Signal
<1>2. n \in Nat \ {0} /\ Wants[r][n] \in {0, Configured[r]}
  BY DEF Records!StrategyRecordsAssumption
<1>3. SignalTrue(s)
  BY DEF SignalTrue
<1> HIDE DEF s
<1>4. p.is = s /\ p.digest = s
  BY DEF Records!Payload
<1> HIDE DEF p
<1>5. Records!SignalHolds(p)
  BY <1>1, <1>2, <1>4 DEF Records!SignalHolds
<1>6. Records!SignalReads(Records!Row(p))
  BY <1>5, RowIs DEF Records!SignalReads
<1> QED
  BY <1>1, <1>3, <1>4, <1>6 DEF s, p

LEMMA OrderMade ==
  ASSUME Records!StrategyRecordsAssumption, NEW id, NEW v \in Records!Version, NEW key, NEW actor
  PROVE  LET i == Records!Order(id, id.position, Records!AccountReference(v), id.target)
             p == Records!OrderPayload(i, key, actor)
         IN /\ p.is = i /\ p.digest = i /\ OrderTrue(i) /\ i.signal = id /\ i.account.version = v
            /\ id.position \in Nat \ {0} /\ id.target \in Nat => Records!OrderHolds(p)
<1> DEFINE a == Records!AccountReference(v)
           i == Records!Order(id, id.position, a, id.target)
           p == Records!OrderPayload(i, key, actor)
<1>1. a.version = v /\ a.version \in Nat \ {0} /\ a.cash \in Nat /\ a.held \in Nat
  BY DEF Records!StrategyRecordsAssumption, Records!AccountReference
<1>2. /\ i.signal = id /\ i.position = id.position /\ i.account = a /\ i.target = id.target
      /\ i.current = a.held /\ i.side = Records!SideTo(id.target, a.held)
      /\ i.requested = Records!Delta(id.target, a.held)
  BY DEF Records!Order
<1>3. OrderTrue(i)
  BY <1>2 DEF OrderTrue
<1> HIDE DEF a, i
<1> DEFINE command == Records!DeriveCommand(i, key, actor)
<1>4. command.key = key /\ command.actor = actor
  BY DEF Records!DeriveCommand
<1>5. p.is = i /\ p.digest = i /\ p.origin = Records!Origin(command)
  BY DEF Records!OrderPayload, Records!Payload
<1> HIDE DEF p, command
<1>6. p.origin.key = key /\ p.origin.actor = actor /\ p.origin.command = command
  BY <1>4, <1>5 DEF Records!Origin
<1>7. p.origin.command = Records!DeriveCommand(p.is, p.origin.key, p.origin.actor)
  BY <1>5, <1>6 DEF command
<1>8. id.position \in Nat \ {0} /\ id.target \in Nat => Records!OrderHolds(p)
  BY <1>1, <1>2, <1>5, <1>7 DEF Records!OrderHolds, Records!AccountHolds
<1> QED
  BY <1>1, <1>2, <1>3, <1>5, <1>8 DEF a, i, p

LEMMA ProductPositive ==
  ASSUME NEW m \in Nat \ {0}, NEW n \in Nat \ {0}
  PROVE  m * n \in Nat \ {0}
OBVIOUS

LEMMA DecisionMade ==
  ASSUME Records!StrategyRecordsAssumption, NEW id, id.side \in {"buy", "sell"},
         id.requested \in Nat \ {0}, Records!AccountHolds(id.account),
         NEW n \in Records!Position, id.position = n, NEW policy, NEW key, NEW actor
  PROVE  LET d == Records!Decision(Records!Snapshot(id, id, policy, Records!PriceReference(n, Trade[n])))
             p == Records!DecisionPayload(d, key, actor)
         IN /\ p.is = d /\ p.digest = d /\ DecisionTrue(d)
            /\ d.snapshot.intent = id /\ d.snapshot.policy = policy
            /\ Records!DecisionHolds(p)
<1> DEFINE price == Records!PriceReference(n, Trade[n])
           notional == id.requested * price.price
           s == Records!Snapshot(id, id, policy, price)
           d == Records!Decision(s)
           p == Records!DecisionPayload(d, key, actor)
<1>1. price.position = n /\ price.at = Trade[n].at /\ price.price = Trade[n].price
  BY DEF Records!PriceReference
<1>2. price.at \in 1..n /\ price.price \in Nat \ {0}
  BY <1>1 DEF Records!StrategyRecordsAssumption
<1> HIDE DEF price
<1>3. notional \in Nat \ {0}
  BY <1>2, ProductPositive
<1>4. /\ s.intent = id /\ s.position = n /\ s.account = id.account /\ s.side = id.side
      /\ s.requested = id.requested /\ s.policy = policy /\ s.price = price
      /\ s.cash = id.account.cash /\ s.held = id.account.held /\ s.notional = notional
      /\ s.rules = Records!RulesOn(id.side, id.requested, id.account.cash, id.account.held, notional, policy)
  BY DEF Records!Snapshot
<1> HIDE DEF s
<1>5. Records!PartsHold(s)
  BY <1>1, <1>2, <1>4 DEF Records!PartsHold, Records!PriceHolds
<1>6. s.notional = s.requested * s.price.price
  BY <1>4
<1> HIDE DEF notional
<1>7. Records!SnapshotHolds(s)
  BY <1>1, <1>3, <1>4, <1>5, <1>6 DEF Records!SnapshotHolds
<1>8. /\ d.snapshot = s /\ d.reasons = Records!Reasons(s.rules)
      /\ d.outcome = IF d.reasons = {} THEN "allow" ELSE "reject"
  BY DEF Records!Decision
<1>9. DecisionTrue(d)
  BY <1>4, <1>8 DEF DecisionTrue, s, d, price
<1> HIDE DEF d
<1> DEFINE command == Records!RiskCommand(d, key, actor)
<1>10. command.key = key /\ command.actor = actor
  BY DEF Records!RiskCommand
<1>11. p.is = d /\ p.digest = d /\ p.origin = Records!Origin(command)
  BY DEF Records!DecisionPayload, Records!Payload
<1> HIDE DEF p, command
<1>12. p.origin.key = key /\ p.origin.actor = actor /\ p.origin.command = command
  BY <1>10, <1>11 DEF Records!Origin
<1>13. p.origin.command = Records!RiskCommand(p.is, p.origin.key, p.origin.actor)
  BY <1>11, <1>12 DEF command
<1>14. Records!DecisionHolds(p)
  BY <1>7, <1>8, <1>11, <1>13 DEF Records!DecisionHolds
<1> QED
  BY <1>4, <1>8, <1>9, <1>11, <1>14 DEF price, s, d, p

\* A signal that the program computed has the parts an order is computed from.
LEMMA SignalParts ==
  ASSUME Records!StrategyRecordsAssumption, NEW s, SignalTrue(s)
  PROVE  s.position \in Nat \ {0} /\ s.target \in Nat
<1>1. PICK r \in RecordRuntime, n \in Records!Position : s = Records!Signal(r, n, Wants[r][n])
  BY DEF SignalTrue
<1>2. s.position = n /\ s.target = Wants[r][n]
  BY <1>1 DEF Records!Signal
<1>3. n \in Nat \ {0} /\ Wants[r][n] \in {0, Configured[r]} /\ Configured[r] \in Nat
  BY DEF Records!StrategyRecordsAssumption
<1> QED
  BY <1>2, <1>3

-----------------------------------------------------------------------------
(* The commands *)

LEMMA RecordEvaluateSignalKeeps ==
  ASSUME Records!StrategyRecordsAssumption, RecordInv, harms <= 1, NEW key, NEW actor,
         NEW runtime \in RecordRuntime, NEW position \in Records!Position,
         Records!EvaluateSignal(key, actor, runtime, position)
  PROVE  RecordInv'
<1> DEFINE asked == [actor |-> actor, runtime |-> runtime, position |-> position]
           s == Records!Signal(runtime, position, Wants[runtime][position])
           p == Records!Payload(s, Records!NoOrigin)
           t == Records!Added(db.signals, p)
           d == [db EXCEPT !.signals = t]
<1>1. \/ \E x \in Records!Existing("evaluate_strategy_signal", key, actor) :
           /\ x.runtime = runtime /\ x.position = position
           /\ Records!Repeat("evaluate_strategy_signal", key, asked, x)
      \/ Records!Store(d, "strategy_signal", key, asked, p)
  BY DEF Records!EvaluateSignal
<1>2. asked.runtime = runtime /\ asked.position = position
  OBVIOUS
<1>3. /\ p.is = s /\ p.digest = s /\ SignalTrue(s) /\ s.runtime = runtime /\ s.position = position
      /\ Records!SignalReads(Records!Row(p))
  BY SignalMade
<1> HIDE DEF asked, s, p
<1>4. db.signals \subseteq t /\ \A r \in t : r \in db.signals \/ r = Records!Row(p)
  BY AddedRows
<1>5. /\ Tables(d) /\ d.signals = t /\ d.intents = db.intents /\ d.decisions = db.decisions
      /\ d.receipts = db.receipts
  BY DEF RecordInv, Tables
<1> HIDE DEF t, d
<1>6. CASE \E x \in Records!Existing("evaluate_strategy_signal", key, actor) :
             /\ x.runtime = runtime /\ x.position = position
             /\ Records!Repeat("evaluate_strategy_signal", key, asked, x)
  <2>1. PICK x \in Records!Existing("evaluate_strategy_signal", key, actor) :
               /\ x.runtime = runtime /\ x.position = position
               /\ Records!Repeat("evaluate_strategy_signal", key, asked, x)
    BY <1>6
  <2>2. Fits("evaluate_strategy_signal", asked, x)
    BY <1>2, <2>1 DEF Fits
  <2>3. "evaluate_strategy_signal" \in Records!Namespace
    BY DEF Records!Namespace
  <2> QED
    BY <2>1, <2>2, <2>3, RecordRepeatKeeps
<1>7. CASE Records!Store(d, "strategy_signal", key, asked, p)
  <2>1. Extends(db, d)
    BY <1>4, <1>5 DEF Extends
  <2>2. harms = 0 => RowsRead(d)
    <3> SUFFICES ASSUME harms = 0 PROVE RowsRead(d)
      OBVIOUS
    <3>1. RowsRead(db)
      BY DEF RecordInv
    <3>2. \A r \in d.signals : r \in db.signals \/ Records!SignalReads(r)
      BY <1>3, <1>4, <1>5
    <3> QED
      BY <1>5, <2>1, <3>1, <3>2, RowsReadStay
  <2>3. RowsTrue(db) => RowsTrue(d)
    <3>1. Records!Row(p).payload = p
      BY RowIs
    <3> QED
      BY <1>3, <1>4, <1>5, <3>1 DEF RowsTrue
  <2>4. Records!NamespaceOf("strategy_signal") = "evaluate_strategy_signal"
    BY DEF Records!NamespaceOf
  <2>5. /\ TrueOf(Records!NamespaceOf("strategy_signal"), p.is)
        /\ Fits(Records!NamespaceOf("strategy_signal"), asked, p.is)
    BY <1>2, <1>3, <2>4 DEF TrueOf, Fits
  <2> QED
    BY <1>3, <1>5, <1>7, <2>1, <2>2, <2>3, <2>5, RecordStoreKeeps
<1> QED
  BY <1>1, <1>6, <1>7

LEMMA RecordDeriveIntentKeeps ==
  ASSUME Records!StrategyRecordsAssumption, RecordInv, harms <= 1, NEW key, NEW actor, NEW id,
         NEW version \in Records!Version, Records!DeriveIntent(key, actor, id, version)
  PROVE  RecordInv'
<1> DEFINE asked == [actor |-> actor, id |-> id, version |-> version]
           Made(s) == Records!OrderPayload(
                        Records!Order(id, s.is.position, Records!AccountReference(version), s.is.target), key, actor)
           i == Records!Order(id, id.position, Records!AccountReference(version), id.target)
           p == Records!OrderPayload(i, key, actor)
           t == Records!Added(db.intents, p)
           d == [db EXCEPT !.intents = t]
<1>1. \/ \E x \in Records!Existing("derive_order_intent", key, actor) :
           /\ x.signal = id /\ x.account.version = version
           /\ Records!Repeat("derive_order_intent", key, asked, x)
      \/ \E s \in Records!GetSignal(db, id) :
           \/ Records!Store(db, "order_intent_no_action", key, asked, Made(s))
           \/ /\ Made(s).is.side # "none" /\ Records!IntentFits(db, Made(s).is)
              /\ Records!Store([db EXCEPT !.intents = Records!Added(@, Made(s))], "order_intent", key, asked, Made(s))
  BY DEF Records!DeriveIntent
<1>2. asked.id = id /\ asked.version = version
  OBVIOUS
<1>3. /\ p.is = i /\ p.digest = i /\ OrderTrue(i) /\ i.signal = id /\ i.account.version = version
      /\ id.position \in Nat \ {0} /\ id.target \in Nat => Records!OrderHolds(p)
  BY OrderMade
<1>4. \A s \in Records!GetSignal(db, id) : s.is = id
  BY SignalGot
<1>5. \A s : s.is = id => Made(s) = p
  OBVIOUS
<1> HIDE DEF asked, Made, i, p
<1>6. db.intents \subseteq t /\ \A r \in t : r \in db.intents \/ r = Records!Row(p)
  BY AddedRows
<1>7. /\ Tables(d) /\ d.signals = db.signals /\ d.intents = t /\ d.decisions = db.decisions
      /\ d.receipts = db.receipts
  BY DEF RecordInv, Tables
<1>8. "derive_order_intent" \in Records!Namespace
  BY DEF Records!Namespace
<1>9. \A kind \in {"order_intent", "order_intent_no_action"} :
        /\ TrueOf(Records!NamespaceOf(kind), p.is)
        /\ Fits(Records!NamespaceOf(kind), asked, p.is)
  BY <1>2, <1>3 DEF Records!NamespaceOf, TrueOf, Fits
<1>10. ASSUME NEW x \in Records!Existing("derive_order_intent", key, actor),
              x.signal = id, x.account.version = version,
              Records!Repeat("derive_order_intent", key, asked, x)
       PROVE  RecordInv'
  <2>1. Fits("derive_order_intent", asked, x)
    BY <1>2, <1>10 DEF Fits
  <2> QED
    BY <1>8, <1>10, <2>1, RecordRepeatKeeps
<1>11. ASSUME Records!Store(db, "order_intent_no_action", key, asked, p)
       PROVE  RecordInv'
  <2>1. Tables(db) /\ Extends(db, db) /\ (harms = 0 => RowsRead(db))
    BY DEF RecordInv, Extends
  <2> QED
    BY <1>3, <1>9, <1>11, <2>1, RecordStoreKeeps
<1>12. ASSUME NEW s \in Records!GetSignal(db, id), p.is.side # "none", Records!IntentFits(db, p.is),
              Records!Store(d, "order_intent", key, asked, p)
       PROVE  RecordInv'
  <2>1. Extends(db, d)
    BY <1>6, <1>7 DEF Extends
  <2>2. harms = 0 => RowsRead(d)
    <3> SUFFICES ASSUME harms = 0 PROVE RowsRead(d)
      OBVIOUS
    <3>1. RowsRead(db) /\ RowsTrue(db)
      BY DEF RecordInv
    <3>2. SignalTrue(id)
      BY <1>4, <3>1, SignalGot DEF RowsTrue
    <3>3. Records!IntentHolds(p)
      BY <1>3, <1>12, <3>2, SignalParts DEF Records!IntentHolds
    <3>4. Records!IntentFits(d, p.is)
      BY <1>7, <1>12, <3>1, IntentFitsStays DEF RowsRead, SignalsRead
    <3>5. Records!Row(p).payload = p /\ Records!ColumnsAgree(Records!Row(p))
      BY RowIs
    <3>6. Records!IntentReads(d, Records!Row(p))
      BY <3>3, <3>4, <3>5 DEF Records!IntentReads
    <3>7. \A r \in d.intents : r \in db.intents \/ Records!IntentReads(d, r)
      BY <1>6, <1>7, <3>6
    <3> QED
      BY <1>7, <2>1, <3>1, <3>7, RowsReadStay
  <2>3. RowsTrue(db) => RowsTrue(d)
    <3>1. Records!Row(p).payload = p
      BY RowIs
    <3> QED
      BY <1>3, <1>6, <1>7, <3>1 DEF RowsTrue
  <2> QED
    BY <1>3, <1>7, <1>9, <1>12, <2>1, <2>2, <2>3, RecordStoreKeeps
<1> HIDE DEF t
<1>13. ASSUME NEW s \in Records!GetSignal(db, id),
              \/ Records!Store(db, "order_intent_no_action", key, asked, Made(s))
              \/ /\ Made(s).is.side # "none" /\ Records!IntentFits(db, Made(s).is)
                 /\ Records!Store([db EXCEPT !.intents = Records!Added(@, Made(s))], "order_intent", key, asked, Made(s))
       PROVE  RecordInv'
  <2>1. Made(s) = p
    BY <1>4, <1>5
  <2>2. [db EXCEPT !.intents = Records!Added(@, p)] = d
    BY DEF t
  <2> QED
    BY <1>11, <1>12, <1>13, <2>1, <2>2
<1> QED
  BY <1>1, <1>10, <1>13

LEMMA RecordEvaluateRiskKeeps ==
  ASSUME Records!StrategyRecordsAssumption, RecordInv, harms <= 1, NEW key, NEW actor, NEW id, NEW policy,
         NEW version, NEW position \in Records!Position,
         Records!EvaluateRisk(key, actor, id, policy, version, position)
  PROVE  RecordInv'
<1> DEFINE asked == [actor |-> actor, id |-> id, policy |-> policy, version |-> version, position |-> position]
           price == Records!PriceReference(position, Trade[position])
           Made(i) == Records!DecisionPayload(Records!Decision(Records!Snapshot(id, i.is, policy, price)), key, actor)
           e == Records!Decision(Records!Snapshot(id, id, policy, price))
           p == Records!DecisionPayload(e, key, actor)
           t == Records!Added(db.decisions, p)
           d == [db EXCEPT !.decisions = t]
<1>1. \/ \E x \in Records!Existing("evaluate_pre_trade_risk", key, actor) :
           /\ x.snapshot.intent = id /\ x.snapshot.policy = policy
           /\ Records!Repeat("evaluate_pre_trade_risk", key, asked, x)
      \/ \E i \in Records!GetIntent(db, id) :
           /\ position = i.is.position /\ Records!DecisionFits(db, Made(i).is)
           /\ Records!Store([db EXCEPT !.decisions = Records!Added(@, Made(i))], "pre_trade_risk_decision",
                            key, asked, Made(i))
  BY DEF Records!EvaluateRisk
<1>2. asked.id = id /\ asked.policy = policy
  OBVIOUS
<1>3. ASSUME NEW i \in Records!GetIntent(db, id), position = i.is.position,
             Records!DecisionFits(db, Made(i).is),
             Records!Store([db EXCEPT !.decisions = Records!Added(@, Made(i))], "pre_trade_risk_decision",
                           key, asked, Made(i))
      PROVE  RecordInv'
  <2>1. PICK r \in db.intents : r.payload = i /\ Records!IntentReads(db, r)
    BY IntentGot
  <2>2. i.is = id /\ Records!IntentHolds(i)
    BY <2>1, IntentGot, IntentRow
  <2>3. /\ id.side \in {"buy", "sell"} /\ id.requested \in Nat \ {0} /\ Records!AccountHolds(id.account)
        /\ id.position = position
    BY <1>3, <2>2, OrderReaches DEF Records!IntentHolds, Records!OrderHolds
  <2>4. /\ p.is = e /\ p.digest = e /\ DecisionTrue(e)
        /\ e.snapshot.intent = id /\ e.snapshot.policy = policy /\ Records!DecisionHolds(p)
    BY <2>3, DecisionMade
  <2>5. Made(i) = p
    BY <2>2
  <2>6. Records!DecisionFits(db, p.is) /\ Records!Store(d, "pre_trade_risk_decision", key, asked, p)
    BY <1>3, <2>5
  <2> HIDE DEF asked, Made, e, p
  <2>7. db.decisions \subseteq t /\ \A x \in t : x \in db.decisions \/ x = Records!Row(p)
    BY AddedRows
  <2>8. /\ Tables(d) /\ d.signals = db.signals /\ d.intents = db.intents /\ d.decisions = t
        /\ d.receipts = db.receipts
    BY DEF RecordInv, Tables
  <2> HIDE DEF t, d
  <2>9. Extends(db, d)
    BY <2>7, <2>8 DEF Extends
  <2>10. harms = 0 => RowsRead(d)
    <3> SUFFICES ASSUME harms = 0 PROVE RowsRead(d)
      OBVIOUS
    <3>1. RowsRead(db)
      BY DEF RecordInv
    <3>2. Records!Row(p).payload = p /\ Records!ColumnsAgree(Records!Row(p))
      BY RowIs
    <3>3. IntentsRead(d)
      <4>1. SignalsRead(d)
        BY <2>8, <3>1 DEF RowsRead, SignalsRead
      <4> SUFFICES ASSUME NEW x \in d.intents PROVE Records!IntentReads(d, x)
        BY DEF IntentsRead
      <4>2. Records!IntentReads(db, x)
        BY <2>8, <3>1 DEF RowsRead, IntentsRead
      <4>3. Records!IntentFits(d, x.payload.is)
        BY <2>8, <4>1, <4>2, IntentFitsStays DEF Records!IntentReads
      <4> QED
        BY <4>2, <4>3 DEF Records!IntentReads
    <3>4. Records!DecisionFits(d, p.is)
      BY <2>6, <2>8, <3>3, DecisionFitsStays
    <3>5. Records!DecisionReads(d, Records!Row(p))
      BY <2>4, <3>2, <3>4 DEF Records!DecisionReads
    <3>6. \A x \in d.decisions : x \in db.decisions \/ Records!DecisionReads(d, x)
      BY <2>7, <2>8, <3>5
    <3> QED
      BY <2>8, <2>9, <3>1, <3>6, RowsReadStay
  <2>11. RowsTrue(db) => RowsTrue(d)
    <3>1. Records!Row(p).payload = p
      BY RowIs
    <3> QED
      BY <2>4, <2>7, <2>8, <3>1 DEF RowsTrue
  <2>12. Records!NamespaceOf("pre_trade_risk_decision") = "evaluate_pre_trade_risk"
    BY DEF Records!NamespaceOf
  <2>13. /\ TrueOf(Records!NamespaceOf("pre_trade_risk_decision"), p.is)
         /\ Fits(Records!NamespaceOf("pre_trade_risk_decision"), asked, p.is)
    BY <1>2, <2>4, <2>12 DEF TrueOf, Fits
  <2> QED
    BY <2>4, <2>6, <2>8, <2>9, <2>10, <2>11, <2>13, RecordStoreKeeps
<1> HIDE DEF asked, Made
<1>4. ASSUME NEW x \in Records!Existing("evaluate_pre_trade_risk", key, actor),
             x.snapshot.intent = id, x.snapshot.policy = policy,
             Records!Repeat("evaluate_pre_trade_risk", key, asked, x)
      PROVE  RecordInv'
  <2>1. Fits("evaluate_pre_trade_risk", asked, x)
    BY <1>2, <1>4 DEF Fits
  <2>2. "evaluate_pre_trade_risk" \in Records!Namespace
    BY DEF Records!Namespace
  <2> QED
    BY <1>4, <2>1, <2>2, RecordRepeatKeeps
<1> QED
  BY <1>1, <1>3, <1>4

-----------------------------------------------------------------------------
(* Changes by hand, and the theorem *)

\* Whichever receipt is put in the place of another, what it keeps itself was computed.
LEMMA ReceiptsByHand ==
  ASSUME KeptTrue(db), NEW t \in Records!Lost(db.receipts) \union Records!EditedReceipts
  PROVE  \A rc \in t : \A p \in rc.payload : OrderTrue(p.is)
<1>1. \A rc \in db.receipts : \A c \in Records!OtherReceipts(rc) :
        \E x \in db.receipts : c.payload = x.payload
  <2> SUFFICES ASSUME NEW rc \in db.receipts, NEW c \in Records!OtherReceipts(rc)
               PROVE  \E x \in db.receipts : c.payload = x.payload
    OBVIOUS
  <2>1. CASE \E k : c = [rc EXCEPT !.key = k]
    BY <2>1
  <2>2. CASE \E a : c = [rc EXCEPT !.actor = a]
    BY <2>2
  <2>3. CASE \E x \in db.receipts : c = [rc EXCEPT !.id = x.id, !.digest = x.digest]
    BY <2>3
  <2>4. CASE \E x \in db.receipts : c = [x EXCEPT !.key = rc.key, !.command.key = rc.key]
    BY <2>4
  <2> QED
    BY <2>1, <2>2, <2>3, <2>4 DEF Records!OtherReceipts
<1>2. \A rc \in t : \E x \in db.receipts : rc.payload = x.payload
  BY <1>1 DEF Records!Lost, Records!EditedReceipts
<1> QED
  BY <1>2 DEF KeptTrue

LEMMA ByHandKeeps ==
  ASSUME Records!StrategyRecordsAssumption, MaxHarm <= 1, RecordInv, Records!ByHand
  PROVE  RecordInv'
<1>1. harms = 0 /\ harms' = 1 /\ answers' = answers
  BY DEF Records!ByHand, Records!StrategyRecordsAssumption, RecordInv
<1>2. RowsTrue(db) /\ ReceiptsTrue(db) /\ KeptTrue(db) /\ Tables(db)
  BY <1>1 DEF RecordInv
<1>3. /\ Tables(db') /\ KeptTrue(db')
      /\ RowsTrue(db') \/ ReceiptsTrue(db')
  <2>1. ASSUME NEW t, \/ db' = [db EXCEPT !.signals = t]
                      \/ db' = [db EXCEPT !.intents = t]
                      \/ db' = [db EXCEPT !.decisions = t]
        PROVE  Tables(db') /\ KeptTrue(db') /\ ReceiptsTrue(db')
    <3>1. Tables(db') /\ db'.receipts = db.receipts
      BY <1>2, <2>1 DEF Tables
    <3> QED
      BY <1>2, <3>1 DEF KeptTrue, ReceiptsTrue
  <2>2. ASSUME NEW t \in Records!Lost(db.receipts) \union Records!EditedReceipts,
               db' = [db EXCEPT !.receipts = t]
        PROVE  Tables(db') /\ KeptTrue(db') /\ RowsTrue(db')
    <3>1. /\ Tables(db') /\ db'.receipts = t /\ db'.signals = db.signals
          /\ db'.intents = db.intents /\ db'.decisions = db.decisions
      BY <1>2, <2>2 DEF Tables
    <3>2. \A rc \in t : \A p \in rc.payload : OrderTrue(p.is)
      BY <1>2, ReceiptsByHand
    <3> QED
      BY <1>2, <3>1, <3>2 DEF KeptTrue, RowsTrue
  <2> QED
    BY <2>1, <2>2 DEF Records!ByHand
<1> QED
  BY <1>1, <1>3 DEF RecordInv

LEMMA RecordStep ==
  ASSUME Records!StrategyRecordsAssumption, MaxHarm <= 1, RecordInv, harms <= MaxHarm, [Records!Next]_(Records!vars)
  PROVE  RecordInv' /\ harms' <= MaxHarm
<1>1. harms \in Nat /\ MaxHarm \in Nat /\ harms <= 1
  BY DEF RecordInv, Records!StrategyRecordsAssumption
<1>2. ASSUME NEW key \in Key, NEW actor \in Actor, Records!Commands(key, actor)
      PROVE  RecordInv' /\ harms' <= MaxHarm
  <2>1. RecordInv'
    BY <1>1, <1>2, RecordEvaluateSignalKeeps, RecordDeriveIntentKeeps, RecordEvaluateRiskKeeps DEF Records!Commands
  <2>2. harms' = harms
    <3>1. /\ \A ns, k, asked, is : Records!Repeat(ns, k, asked, is) => harms' = harms
          /\ \A d, kind, k, asked, p : Records!Store(d, kind, k, asked, p) => harms' = harms
      BY DEF Records!Repeat, Records!Store
    <3>2. ASSUME NEW r \in RecordRuntime, NEW n \in Records!Position, Records!EvaluateSignal(key, actor, r, n)
          PROVE  harms' = harms
      BY <3>1, <3>2 DEF Records!EvaluateSignal
    <3>3. ASSUME NEW id, NEW v \in Records!Version, Records!DeriveIntent(key, actor, id, v)
          PROVE  harms' = harms
      BY <3>1, <3>3 DEF Records!DeriveIntent
    <3>4. ASSUME NEW id, NEW policy, NEW v, NEW n \in Records!Position,
                 Records!EvaluateRisk(key, actor, id, policy, v, n)
          PROVE  harms' = harms
      BY <3>1, <3>4 DEF Records!EvaluateRisk
    <3> QED
      BY <1>2, <3>2, <3>3, <3>4 DEF Records!Commands
  <2> QED
    BY <2>1, <2>2
<1>3. CASE Records!Moves
  <2>1. db' = db /\ answers' = answers /\ harms' = harms
    BY <1>3 DEF Records!Moves
  <2> QED
    BY <2>1 DEF RecordInv
<1>4. CASE Records!ByHand
  <2>1. harms' <= MaxHarm
    BY <1>1, <1>4 DEF Records!ByHand
  <2> QED
    BY <1>4, <2>1, ByHandKeeps
<1>5. CASE UNCHANGED Records!vars
  <2>1. db' = db /\ answers' = answers /\ harms' = harms
    BY <1>5 DEF Records!vars
  <2> QED
    BY <2>1 DEF RecordInv
<1> QED
  BY <1>2, <1>3, <1>4, <1>5 DEF Records!Next

LEMMA RecordsRight ==
  ASSUME RecordInv
  PROVE  Records!RecordsAreSound
<1>1. Records!UntouchedRowsRead
  <2> SUFFICES ASSUME harms = 0
               PROVE  /\ \A r \in db.signals : Records!SignalReads(r)
                      /\ \A r \in db.intents : Records!IntentReads(db, r)
                      /\ \A r \in db.decisions : Records!DecisionReads(db, r)
                      /\ \A t \in answers : \E rc \in Records!Under(t.ns, t.key) :
                           \E p \in Records!Resolved(db, rc) : p.is = t.result
    BY DEF Records!UntouchedRowsRead
  <2>1. RowsRead(db) /\ \A t \in answers : Again(db, t)
    BY DEF RecordInv
  <2> QED
    BY <2>1 DEF RowsRead, SignalsRead, IntentsRead, DecisionsRead, Again, Records!Under
<1>2. Records!AnswersStay
  <2> SUFFICES ASSUME NEW t \in answers, NEW u \in answers, t.ns = u.ns, t.asked = u.asked
               PROVE  t.result = u.result
    BY DEF Records!AnswersStay
  <2>1. IsAnswer(t) /\ IsAnswer(u)
    BY DEF RecordInv
  <2> QED
    BY <2>1, OneResult DEF IsAnswer
<1> QED
  BY <1>1, <1>2, ReadsHang, AnswersRead DEF Records!RecordsAreSound

\* Whatever row is lost or changed, a decision that reads stands on an intent and a signal
\* that read and agree with it, nothing is read under an id but what it names, and a
\* command that is repeated has its first answer or none; and rows that nobody touched
\* read.  If rows are changed more often, a receipt and the row it names may be made to
\* agree on another answer.
THEOREM StoredRows ==
  ASSUME Records!StrategyRecordsAssumption, MaxHarm <= 1
  PROVE  Records!Spec => []RecordsAreSound
<1>1. Records!Init => RecordInv /\ harms <= MaxHarm
  <2> SUFFICES ASSUME Records!Init PROVE RecordInv /\ harms <= MaxHarm
    OBVIOUS
  <2>1. /\ db = [signals |-> {}, intents |-> {}, decisions |-> {}, receipts |-> {}]
        /\ answers = {} /\ harms = 0 /\ MaxHarm \in Nat
    BY DEF Records!Init, Records!StrategyRecordsAssumption
  <2>2. /\ Tables(db) /\ db.signals = {} /\ db.intents = {} /\ db.decisions = {} /\ db.receipts = {}
    BY <2>1 DEF Tables
  <2> QED
    BY <2>1, <2>2 DEF RecordInv, KeptTrue, RowsTrue, ReceiptsTrue, RowsRead, SignalsRead, IntentsRead,
                      DecisionsRead
<1>2. RecordInv /\ harms <= MaxHarm /\ [Records!Next]_(Records!vars) => (RecordInv /\ harms <= MaxHarm)'
  <2> SUFFICES ASSUME RecordInv, harms <= MaxHarm, [Records!Next]_(Records!vars)
               PROVE  RecordInv' /\ harms' <= MaxHarm'
    OBVIOUS
  <2>1. MaxHarm' = MaxHarm
    OBVIOUS
  <2> QED
    BY <2>1, RecordStep
<1>3. RecordInv => RecordsAreSound
  BY RecordsRight DEF RecordsAreSound
<1> QED
  BY <1>1, <1>2, <1>3, PTL DEF Records!Spec
=============================================================================
