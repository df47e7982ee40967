---------------------------- MODULE BacktestProofs ----------------------------
(***************************************************************************)
(* Proofs about Backtest, for every universe, lookback, number of places,  *)
(* set of prices and history of days: a ranked strategy holds the best,    *)
(* and no day of data reaches back.                                        *)
(***************************************************************************)
EXTENDS Backtest, FiniteSetTheorems, WellFoundedInduction, TLAPS

-----------------------------------------------------------------------------
(* Orders on finite sets.                                                  *)

(* In a strict total order, given by the set P[t] of what precedes each t, *)
(* exactly k elements have fewer than k before them.                       *)
LEMMA FirstOfOrder ==
  ASSUME NEW S, IsFiniteSet(S), NEW P \in [S -> SUBSET S],
         \A t \in S : t \notin P[t],
         \A t, u \in S : t = u \/ t \in P[u] \/ u \in P[t],
         \A t, u \in S : t \in P[u] => P[t] \subseteq P[u],
         NEW k \in 0..Cardinality(S)
  PROVE  Cardinality({t \in S : Cardinality(P[t]) < k}) = k
<1> DEFINE n == Cardinality(S)
           r == [t \in S |-> Cardinality(P[t])]
           F == {t \in S : Cardinality(P[t]) < k}
           g == [t \in F |-> r[t]]
<1>1. n \in Nat /\ k \in Nat /\ k <= n
  BY FS_CardinalityType
<1>2. \A t \in S : IsFiniteSet(P[t]) /\ r[t] \in Nat
  BY FS_Subset, FS_CardinalityType
<1>3. \A t \in S : r[t] < n
  <2> SUFFICES ASSUME NEW t \in S PROVE r[t] < n
    OBVIOUS
  <2>1. P[t] \in SUBSET S /\ P[t] # S
    OBVIOUS
  <2>2. Cardinality(P[t]) <= n /\ Cardinality(P[t]) # n
    BY <2>1, FS_Subset
  <2> QED
    BY <2>2, <1>1, <1>2
<1>4. \A t, u \in S : t \in P[u] => r[t] < r[u]
  <2> SUFFICES ASSUME NEW t \in S, NEW u \in S, t \in P[u] PROVE r[t] < r[u]
    OBVIOUS
  <2>1. P[t] \in SUBSET P[u] /\ P[t] # P[u]
    OBVIOUS
  <2>2. Cardinality(P[t]) <= Cardinality(P[u]) /\ Cardinality(P[t]) # Cardinality(P[u])
    BY <2>1, <1>2, FS_Subset
  <2> QED
    BY <2>2, <1>2
<1>5. r \in Injection(S, 0..(n - 1))
  <2>1. r \in [S -> 0..(n - 1)]
    BY <1>1, <1>2, <1>3
  <2>2. \A t, u \in S : r[t] = r[u] => t = u
    <3> SUFFICES ASSUME NEW t \in S, NEW u \in S, r[t] = r[u], t # u PROVE FALSE
      OBVIOUS
    <3>1. r[t] < r[u] \/ r[u] < r[t]
      BY <1>4
    <3>2. r[t] \in Nat /\ r[u] \in Nat
      BY <1>2
    <3> HIDE DEF r
    <3> QED
      BY <3>1, <3>2
  <2> HIDE DEF r
  <2> QED
    BY <2>1, <2>2 DEF Injection, IsInjective
<1> HIDE DEF r, n
<1>6. IsFiniteSet(0..(n - 1)) /\ Cardinality(0..(n - 1)) = n
  <2>1. 0 \in Int /\ n - 1 \in Int /\ (IF 0 > n - 1 THEN 0 ELSE (n - 1) - 0 + 1) = n
    BY <1>1
  <2> QED
    BY <2>1, FS_Interval
<1>7. r \in Surjection(S, 0..(n - 1))
  BY <1>5, <1>6, FS_Injection DEF n
<1>8. \A m \in 0..(n - 1) : \E t \in S : r[t] = m
  BY <1>7 DEF Surjection
<1>9. F = {t \in S : r[t] < k}
  BY DEF r
<1> HIDE DEF F
<1>10. g \in Bijection(F, 0..(k - 1))
  <2>1. g \in [F -> 0..(k - 1)]
    BY <1>1, <1>2, <1>9
  <2>2. \A t, u \in F : g[t] = g[u] => t = u
    BY <1>5, <1>9 DEF Injection, IsInjective
  <2>3. \A m \in 0..(k - 1) : \E t \in F : g[t] = m
    <3> SUFFICES ASSUME NEW m \in 0..(k - 1) PROVE \E t \in F : g[t] = m
      OBVIOUS
    <3>1. m \in 0..(n - 1) /\ m < k
      BY <1>1
    <3>2. PICK t \in S : r[t] = m
      BY <1>8, <3>1
    <3> QED
      BY <3>1, <3>2, <1>9
  <2> HIDE DEF g
  <2> QED
    BY <2>1, <2>2, <2>3 DEF Bijection, Injection, Surjection, IsInjective
<1>11. IsFiniteSet(F)
  BY FS_Subset, <1>9
<1>12. ExistsBijection(F, 0..(k - 1))
  BY <1>10 DEF ExistsBijection
<1>13. Cardinality(0..(k - 1)) = Cardinality(F)
  BY <1>11, <1>12, FS_Bijection
<1>14. Cardinality(0..(k - 1)) = k
  BY <1>1, FS_Interval
<1> QED
  BY <1>13, <1>14 DEF F

-----------------------------------------------------------------------------
(* Types.                                                                  *)

THEOREM BacktestTyped == Spec => []TypeOK
<1>1. Init => TypeOK
  BY DEF Init, TypeOK
<1>2. TypeOK /\ [Next]_vars => TypeOK'
  <2> SUFFICES ASSUME TypeOK, [Next]_vars PROVE TypeOK'
    OBVIOUS
  <2>1. CASE NewDay
    BY <2>1 DEF NewDay, TypeOK
  <2>2. CASE UNCHANGED vars
    BY <2>2 DEF vars, TypeOK
  <2> QED
    BY <2>1, <2>2 DEF Next
<1> QED
  BY <1>1, <1>2, PTL DEF Spec

(* The tickers are finitely many, as many as the universe lists, each at a *)
(* place of its own.                                                       *)
LEMMA TickersListed ==
  /\ IsFiniteSet(Tickers) /\ Cardinality(Tickers) = Len(Universe)
  /\ \A t \in Tickers : Position(t) \in Nat
  /\ \A t, u \in Tickers : Position(t) = Position(u) => t = u
<1> DEFINE n == Len(Universe)
<1>1. n \in Nat /\ DOMAIN Universe = 1..n /\ Universe \in [1..n -> Tickers]
  BY BacktestAssumption
<1>2. \A i, j \in 1..n : Universe[i] = Universe[j] => i = j
  BY BacktestAssumption, <1>1 DEF IsInjective
<1>3. \A t \in Tickers : \E i \in 1..n : Universe[i] = t
  BY <1>1 DEF Tickers, ToSet
<1>4. \A t \in Tickers : Position(t) \in 1..n /\ Universe[Position(t)] = t
  BY <1>1, <1>3 DEF Position
<1>5. Universe \in Bijection(1..n, Tickers)
  BY <1>1, <1>2, <1>3 DEF Bijection, Injection, Surjection, IsInjective
<1>6. ExistsBijection(1..n, Tickers)
  BY <1>5 DEF ExistsBijection
<1>7. IsFiniteSet(1..n) /\ Cardinality(1..n) = n
  BY <1>1, FS_Interval
<1>8. IsFiniteSet(Tickers) /\ Cardinality(Tickers) = n
  BY <1>6, <1>7, FS_Bijection
<1>9. \A t, u \in Tickers : Position(t) = Position(u) => t = u
  BY <1>4
<1> QED
  BY <1>4, <1>8, <1>9

(* A day's close of a ticker is a natural number, and positive if quoted.  *)
LEMMA ClosesTyped ==
  ASSUME TypeOK, NEW i \in Days, NEW t \in Tickers
  PROVE  closes[i][t] \in Nat /\ (Quoted(t, i) => closes[i][t] > 0)
<1>1. closes[i] \in [Tickers -> Prices \union {Missing}]
  BY DEF TypeOK, Days
<1>2. \A p \in Prices : p \in Nat
  BY BacktestAssumption
<1>3. closes[i][t] \in Prices \union {Missing}
  BY <1>1
<1> DEFINE c == closes[i][t]
<1>4. c \in Prices \/ c = 0
  BY <1>3 DEF Missing
<1>5. Quoted(t, i) <=> c # 0
  BY DEF Quoted, Missing
<1> HIDE DEF c
<1>6. c \in Nat
  <2>1. CASE c \in Prices
    BY <1>2, <2>1, Zenon
  <2>2. CASE c = 0
    BY <2>2
  <2> QED
    BY <1>4, <2>1, <2>2
<1>7. c # 0 => c > 0
  BY <1>6
<1> QED
  BY <1>5, <1>6, <1>7, Zenon DEF c

-----------------------------------------------------------------------------
(* The ranking of a day.                                                   *)

(* Fractions compared by their cross products: what is ahead of one is     *)
(* ahead of, or behind, any other.                                         *)
LEMMA FractionsCompare ==
  ASSUME NEW a \in Nat, NEW b \in Nat \ {0}, NEW c \in Nat, NEW d \in Nat \ {0},
         NEW e \in Nat, NEW f \in Nat \ {0}, a * f > e * b
  PROVE  a * d > c * b \/ c * f > e * d
<1> SUFFICES ASSUME a * d <= c * b, c * f <= e * d PROVE FALSE
  BY SMT
<1>1. \A x, y \in Nat, z \in Nat : x <= y => x * z <= y * z
  BY SMT
<1>2. \A x, y \in Nat, z \in Nat \ {0} : x > y => x * z > y * z
  BY SMT
<1>3. a * d \in Nat /\ c * b \in Nat /\ c * f \in Nat /\ e * d \in Nat
      /\ a * f \in Nat /\ e * b \in Nat
  BY SMT
<1>4. (a * d) * f <= (c * b) * f
  BY <1>1, <1>3
<1>5. (c * f) * b <= (e * d) * b
  BY <1>1, <1>3
<1>6. (a * f) * d > (e * b) * d
  BY <1>2, <1>3
<1>7. (a * d) * f = (a * f) * d /\ (c * b) * f = (c * f) * b
      /\ (e * d) * b = (e * b) * d
  BY SMT
<1>8. /\ (a * d) * f \in Nat /\ (c * b) * f \in Nat /\ (e * d) * b \in Nat
  BY <1>3, SMT
<1> QED
  BY <1>4, <1>5, <1>6, <1>7, <1>8

(* On a day that has a lookback, better is a strict weak order.            *)
Ranked(i) == TypeOK /\ strategy # "hold" /\ i \in Days /\ i > Lookback

LEMMA BetterOrders ==
  ASSUME NEW i, Ranked(i), NEW t \in Tickers, NEW u \in Tickers, NEW v \in Tickers
  PROVE  /\ ~(Better(t, u, i) /\ Better(u, t, i))
         /\ Better(t, v, i) => Better(t, u, i) \/ Better(u, v, i)
<1> DEFINE p == i - Lookback
<1>1. i \in Days /\ p \in Days
  BY BacktestAssumption DEF Ranked, TypeOK, Days
<1>2. /\ closes[i][t] \in Nat /\ closes[p][t] \in Nat
      /\ closes[i][u] \in Nat /\ closes[p][u] \in Nat
      /\ closes[i][v] \in Nat /\ closes[p][v] \in Nat
  BY <1>1, ClosesTyped DEF Ranked
<1>3. \A w \in {t, u, v} : HasReturn(w, i) => closes[i][w] > 0 /\ closes[p][w] > 0
  BY <1>1, ClosesTyped DEF Ranked, HasReturn
<1>4. ~(Ahead(t, u, i) /\ Ahead(u, t, i))
  <2>1. ~(Higher(t, u, i) /\ Higher(u, t, i))
    BY <1>2 DEF Higher
  <2> QED
    BY <2>1 DEF Ahead
<1>5. ASSUME HasReturn(t, i), HasReturn(u, i), HasReturn(v, i), Ahead(t, v, i)
      PROVE  Ahead(t, u, i) \/ Ahead(u, v, i)
  <2> DEFINE ti == closes[i][t]  tp == closes[p][t]
             ui == closes[i][u]  up == closes[p][u]
             vi == closes[i][v]  vp == closes[p][v]
  <2>1. ti \in Nat \ {0} /\ tp \in Nat \ {0} /\ ui \in Nat \ {0}
        /\ up \in Nat \ {0} /\ vi \in Nat \ {0} /\ vp \in Nat \ {0}
    BY <1>2, <1>3, <1>5
  <2>2. /\ Higher(t, v, i) <=> ti * vp > vi * tp
        /\ Higher(t, u, i) <=> ti * up > ui * tp
        /\ Higher(u, v, i) <=> ui * vp > vi * up
        /\ Higher(v, t, i) <=> vi * tp > ti * vp
        /\ Higher(u, t, i) <=> ui * tp > ti * up
        /\ Higher(v, u, i) <=> vi * up > ui * vp
    BY DEF Higher
  <2> HIDE DEF ti, tp, ui, up, vi, vp
  <2>3. Higher(t, v, i) => Higher(t, u, i) \/ Higher(u, v, i)
    BY <2>1, <2>2, FractionsCompare
  <2>4. Higher(v, t, i) => Higher(v, u, i) \/ Higher(u, t, i)
    BY <2>1, <2>2, FractionsCompare
  <2> QED
    BY <1>5, <2>3, <2>4 DEF Ahead
<1> QED
  BY <1>4, <1>5 DEF Better

(* What stands before each ticker in the sorted list. *)
Preceding(i) == [t \in Tickers |-> {u \in Tickers : Before(u, t, i)}]

LEMMA BeforeOrders ==
  ASSUME NEW i, Ranked(i)
  PROVE  /\ Preceding(i) \in [Tickers -> SUBSET Tickers]
         /\ \A t \in Tickers : t \notin Preceding(i)[t]
         /\ \A t, u \in Tickers :
              t = u \/ t \in Preceding(i)[u] \/ u \in Preceding(i)[t]
         /\ \A t, u \in Tickers :
              t \in Preceding(i)[u] => Preceding(i)[t] \subseteq Preceding(i)[u]
<1>1. \A t \in Tickers : ~Before(t, t, i)
  <2> SUFFICES ASSUME NEW t \in Tickers PROVE ~Before(t, t, i)
    OBVIOUS
  <2>1. ~Better(t, t, i)
    BY BetterOrders
  <2>2. ~(Position(t) < Position(t))
    BY TickersListed
  <2> QED
    BY <2>1, <2>2 DEF Before
<1>2. \A t, u \in Tickers : t = u \/ Before(t, u, i) \/ Before(u, t, i)
  <2> SUFFICES ASSUME NEW t \in Tickers, NEW u \in Tickers, t # u
               PROVE  Before(t, u, i) \/ Before(u, t, i)
    OBVIOUS
  <2>1. Position(t) < Position(u) \/ Position(u) < Position(t)
    BY TickersListed
  <2> QED
    BY <2>1 DEF Before
<1>3. \A t, u, v \in Tickers : Before(t, u, i) /\ Before(u, v, i) => Before(t, v, i)
  <2> SUFFICES ASSUME NEW t \in Tickers, NEW u \in Tickers, NEW v \in Tickers,
                      Before(t, u, i), Before(u, v, i)
               PROVE  Before(t, v, i)
    OBVIOUS
  <2>1. /\ Better(t, u, i) => Better(t, v, i) \/ Better(v, u, i)
        /\ Better(u, v, i) => Better(u, t, i) \/ Better(t, v, i)
        /\ Better(v, t, i) => Better(v, u, i) \/ Better(u, t, i)
        /\ ~(Better(t, u, i) /\ Better(u, t, i))
        /\ ~(Better(u, v, i) /\ Better(v, u, i))
    BY BetterOrders
  <2>2. Position(t) < Position(u) /\ Position(u) < Position(v) => Position(t) < Position(v)
    BY TickersListed
  <2> QED
    BY <2>1, <2>2 DEF Before
<1> QED
  BY <1>1, <1>2, <1>3 DEF Preceding

(* As many tickers win as there are places, and whoever stands before a    *)
(* winner is one.                                                          *)
LEMMA WinnersFill ==
  ASSUME NEW i, Ranked(i)
  PROVE  /\ Winners(i) \in SUBSET Tickers /\ Cardinality(Winners(i)) = TopK
         /\ \A t \in Winners(i), u \in Tickers : Before(u, t, i) => u \in Winners(i)
<1> DEFINE P == Preceding(i)
<1>1. K = TopK /\ TopK \in 0..Cardinality(Tickers)
  BY BacktestAssumption, TickersListed DEF Ranked, K
<1>2. Winners(i) = {t \in Tickers : Cardinality(P[t]) < TopK}
  BY <1>1 DEF Winners, Preceding
<1>3. /\ P \in [Tickers -> SUBSET Tickers]
      /\ \A t \in Tickers : t \notin P[t]
      /\ \A t, u \in Tickers : t = u \/ t \in P[u] \/ u \in P[t]
      /\ \A t, u \in Tickers : t \in P[u] => P[t] \subseteq P[u]
  BY BeforeOrders
<1>4. \A t, u \in Tickers : Before(u, t, i) <=> u \in P[t]
  BY DEF Preceding
<1> HIDE DEF P
<1>5. Cardinality(Winners(i)) = TopK
  BY <1>1, <1>2, <1>3, TickersListed, FirstOfOrder
<1>6. ASSUME NEW t \in Winners(i), NEW u \in Tickers, Before(u, t, i)
      PROVE  u \in Winners(i)
  <2>1. P[u] \in SUBSET P[t] /\ P[t] \in SUBSET Tickers /\ t \in Tickers
    BY <1>2, <1>3, <1>4, <1>6
  <2>2. IsFiniteSet(P[t]) /\ IsFiniteSet(P[u])
    BY <2>1, TickersListed, FS_Subset
  <2>3. /\ Cardinality(P[u]) <= Cardinality(P[t])
        /\ Cardinality(P[u]) \in Nat /\ Cardinality(P[t]) \in Nat
    BY <2>1, <2>2, FS_Subset, FS_CardinalityType
  <2>4. Cardinality(P[t]) < TopK
    BY <1>2, <1>6
  <2>5. Cardinality(P[u]) < TopK
    BY <2>3, <2>4, <1>1, TickersListed, FS_CardinalityType
  <2> QED
    BY <1>2, <2>5
<1> QED
  BY <1>2, <1>5, <1>6

(* A ranked strategy holds exactly TopK tickers once it has its history,   *)
(* never one that is behind a ticker left out.                             *)
THEOREM RankRespectedHolds == Spec => []RankRespected
<1>1. TypeOK => RankRespected
  <2> SUFFICES ASSUME TypeOK, strategy # "hold", NEW i \in Days, i > Lookback
               PROVE  LET ranked == {t \in Tickers : HasReturn(t, i)}
                          held == {t \in Tickers : Weight(t, i) = 1}
                      IN  /\ Cardinality(held) = TopK
                          /\ held \subseteq ranked \/ ranked \subseteq held
                          /\ \A t \in held \intersect ranked, u \in ranked \ held :
                               ~Ahead(u, t, i)
    BY DEF RankRespected
  <2> DEFINE ranked == {t \in Tickers : HasReturn(t, i)}
             held == {t \in Tickers : Weight(t, i) = 1}
  <2>1. Ranked(i)
    BY DEF Ranked
  <2>2. held = Winners(i)
    BY <2>1, WinnersFill DEF Weight, RankWeight
  <2>3. Cardinality(held) = TopK
    BY <2>1, <2>2, WinnersFill
  <2>4. \A t \in held, u \in ranked : Better(u, t, i) => u \in held
    BY <2>1, <2>2, WinnersFill DEF Before
  <2>5. \A t, u \in Tickers : HasReturn(u, i) /\ ~HasReturn(t, i) => Better(u, t, i)
    BY DEF Better
  <2>6. held \subseteq ranked \/ ranked \subseteq held
    BY <2>4, <2>5
  <2>7. \A t \in held \intersect ranked, u \in ranked \ held : ~Ahead(u, t, i)
    BY <2>4 DEF Better
  <2> QED
    BY <2>3, <2>6, <2>7
<1> QED
  BY <1>1, BacktestTyped, PTL

-----------------------------------------------------------------------------
(* No look-ahead.                                                          *)

(* A set of naturals with a bound has a greatest element. *)
LEMMA Greatest ==
  ASSUME NEW n \in Nat, NEW T \in SUBSET 0..n, T # {}
  PROVE  \E j \in T : \A k \in T : k <= j
<1> DEFINE U == {m \in Nat : n - m \in T}
<1>1. U \in SUBSET Nat /\ U # {}
  <2>1. PICK j \in T : TRUE
    OBVIOUS
  <2>2. n - j \in Nat /\ n - (n - j) = j
    OBVIOUS
  <2> QED
    BY <2>1, <2>2
<1>2. PICK m \in U : \A k \in U : ~(<<k, m>> \in OpToRel(<, Nat))
  <2> HIDE DEF U
  <2> QED BY <1>1, NatLessThanWellFounded, WFMin
<1>3. m \in Nat /\ n - m \in T
  OBVIOUS
<1>4. ASSUME NEW k \in T PROVE k <= n - m
  <2> SUFFICES ASSUME k > n - m PROVE FALSE
    BY <1>3
  <2>1. n - k \in Nat /\ n - k < m
    BY <1>3
  <2>2. n - (n - k) = k
    OBVIOUS
  <2>3. n - k \in U
    BY <2>1, <2>2
  <2>4. <<n - k, m>> \in OpToRel(<, Nat)
    BY <2>1, <1>3 DEF OpToRel
  <2> QED
    BY <1>2, <2>3, <2>4
<1> QED
  BY <1>3, <1>4

(* A day more: what was known stays as it was. *)
LEMMA DayKeeps ==
  ASSUME TypeOK, NewDay
  PROVE  /\ strategy' = strategy /\ start' = start
         /\ Len(closes) \in Nat /\ Days = 1..Len(closes)
         /\ Days' = 1..(Len(closes) + 1)
         /\ \A i \in Days : closes'[i] = closes[i]
         /\ start \in Nat \ {0}
<1>1. start \in Nat \ {0}
  BY BacktestAssumption DEF TypeOK
<1>2. PICK day \in [Tickers -> Prices \union {Missing}] : closes' = Append(closes, day)
  BY DEF NewDay
<1>3. /\ Len(closes) \in Nat /\ Days = 1..Len(closes)
      /\ Days' = 1..(Len(closes) + 1)
      /\ \A i \in 1..Len(closes) : closes'[i] = closes[i]
  BY <1>2 DEF TypeOK, Days
<1> QED
  BY <1>1, <1>3 DEF NewDay

(* The days of the window, the quotes and the weights of the past. *)
LEMMA PastKept ==
  ASSUME TypeOK, NewDay
  PROVE  /\ Fold \subseteq Days
         /\ \A i \in Days : i \in Fold' <=> i \in Fold
         /\ \A t \in Tickers, i \in Days : Quoted(t, i)' <=> Quoted(t, i)
         /\ \A t \in Tickers, i \in Days : Weight(t, i)' = Weight(t, i)
<1>1. \A i \in Days : i \in Fold' <=> i \in Fold
  BY DayKeeps DEF Fold
<1>2. \A t \in Tickers, i \in Days : Quoted(t, i)' <=> Quoted(t, i)
  BY DayKeeps DEF Quoted
<1>3. ASSUME NEW i \in Days, i > Lookback
      PROVE  Winners(i)' = Winners(i)
  <2>1. i - Lookback \in Days
    BY <1>3, DayKeeps, BacktestAssumption
  <2>2. closes'[i] = closes[i] /\ closes'[i - Lookback] = closes[i - Lookback]
    BY <2>1, DayKeeps
  <2>3. \A t \in Tickers : HasReturn(t, i)' <=> HasReturn(t, i)
    BY <2>2 DEF HasReturn, Quoted
  <2>4. \A t, u \in Tickers : Ahead(t, u, i)' <=> Ahead(t, u, i)
    BY <2>2, DayKeeps DEF Ahead, Higher
  <2>5. \A t, u \in Tickers : Better(t, u, i)' <=> Better(t, u, i)
    BY <2>3, <2>4 DEF Better
  <2>6. \A t, u \in Tickers : Before(t, u, i)' <=> Before(t, u, i)
    BY <2>5 DEF Before
  <2>7. K' = K
    BY DayKeeps DEF K
  <2>8. \A t \in Tickers :
          {u \in Tickers : Before(u, t, i)}' = {u \in Tickers : Before(u, t, i)}
    BY <2>6
  <2> QED
    BY <2>7, <2>8 DEF Winners
<1>4. \A t \in Tickers, i \in Days : Weight(t, i)' = Weight(t, i)
  BY <1>3, DayKeeps DEF Weight, RankWeight
<1> QED
  BY <1>1, <1>2, <1>4 DEF Fold

(* The last quote up to a day of the past is still the last one. *)
Quotes(t, i) == {j \in Fold : j <= i /\ Quoted(t, j)}

LEMMA LastQuoteKept ==
  ASSUME TypeOK, NewDay, NEW t \in Tickers, NEW i \in Int, i <= Len(closes)
  PROVE  /\ Quotes(t, i)' = Quotes(t, i)
         /\ LastQuote(t, i)' = LastQuote(t, i)
<1>1. Quotes(t, i)' = Quotes(t, i)
  <2>1. \A j \in Fold' : j <= i => j \in Days
    BY DayKeeps DEF Fold
  <2>2. \A j \in Fold : j \in Days
    BY PastKept
  <2>3. \A j \in Days : j \in Fold' /\ Quoted(t, j)' <=> j \in Fold /\ Quoted(t, j)
    BY PastKept
  <2> QED
    BY <2>1, <2>2, <2>3 DEF Quotes
<1>2. CASE Quotes(t, i) = {}
  <2>1. Quotes(t, i)' = {}
    BY <1>1, <1>2
  <2>2. LastQuote(t, i) = Missing
    BY <1>2 DEF LastQuote, Quotes
  <2>3. LastQuote(t, i)' = Missing
    BY <2>1 DEF LastQuote, Quotes
  <2> QED
    BY <1>1, <2>2, <2>3
<1>3. CASE Quotes(t, i) # {}
  <2> DEFINE last == CHOOSE j \in Quotes(t, i) : \A k \in Quotes(t, i) : k <= j
  <2>1. Quotes(t, i) \in SUBSET 0..Len(closes) /\ Len(closes) \in Nat
    BY PastKept, DayKeeps DEF Quotes
  <2>2. \E j \in Quotes(t, i) : \A k \in Quotes(t, i) : k <= j
    BY <1>3, <2>1, Greatest
  <2>3. last \in Quotes(t, i)
    BY <2>2
  <2>4. last \in Days
    BY <2>3, PastKept DEF Quotes
  <2>5. LastQuote(t, i) = closes[last][t]
    BY <1>3 DEF LastQuote, Quotes
  <2>6. LastQuote(t, i)' = closes'[last][t]
    BY <1>1, <1>3 DEF LastQuote, Quotes
  <2> HIDE DEF last
  <2>7. closes'[last] = closes[last]
    BY <2>4, DayKeeps
  <2> QED
    BY <1>1, <2>5, <2>6, <2>7
<1> QED
  BY <1>2, <1>3

(* A day of the past earned what it earned, a column more or not.          *)
Earned(i) == [t \in Tickers |-> IF t \in Columns THEN Return(t, i) * Held(t, i) ELSE 0]

LEMMA GrossKept ==
  ASSUME TypeOK, NewDay, NEW i \in Fold
  PROVE  Gross(i)' = Gross(i)
<1>1. i \in Days /\ i \in Int /\ i - 1 \in Int /\ i <= Len(closes) /\ i - 1 <= Len(closes)
  BY PastKept, DayKeeps
<1>2. \A t \in Tickers : Return(t, i)' = Return(t, i)
  BY <1>1, LastQuoteKept DEF Return
<1>3. i - 1 \in Fold' <=> i - 1 \in Fold
  BY <1>1, DayKeeps DEF Fold
<1>4. \A t \in Tickers : Held(t, i)' = Held(t, i)
  BY <1>3, PastKept DEF Held
<1>5. \A t \in Columns : t \in Columns'
  BY PastKept DEF Columns
<1>6. \A t \in Tickers : Held(t, i) \in Int
  BY DEF Held, Weight, RankWeight
<1>7. ASSUME NEW t \in Tickers, t \notin Columns PROVE Return(t, i) = 0
  <2>1. Quotes(t, i) = {}
    BY <1>7 DEF Quotes, Columns
  <2>2. LastQuote(t, i) = Missing
    BY <2>1 DEF LastQuote, Quotes
  <2> QED
    BY <2>2 DEF Return
<1>8. ASSUME NEW t \in Tickers
      PROVE  (IF t \in Columns' THEN Return(t, i)' * Held(t, i)' ELSE 0)
               = (IF t \in Columns THEN Return(t, i) * Held(t, i) ELSE 0)
  <2>1. CASE t \in Columns
    BY <1>2, <1>4, <1>5, <2>1
  <2>2. CASE t \notin Columns
    <3>1. Return(t, i) * Held(t, i) = 0
      BY <1>6, <1>7, <2>2
    <3> QED
      BY <1>2, <1>4, <2>2, <3>1
  <2> QED
    BY <2>1, <2>2
<1>9. Earned(i)' = Earned(i)
  BY <1>8 DEF Earned
<1>10. Gross(i) = SumFunction(Earned(i)) /\ Gross(i)' = SumFunction(Earned(i)')
  BY DEF Gross, SumOver, Earned
<1> QED
  BY <1>9, <1>10

(* What is held over a day is settled before the day, and a day's data     *)
(* change neither the weights nor the gross results before it.             *)
THEOREM NoLookaheadHolds == Spec => NoLookahead
<1> DEFINE Settled ==
       /\ \A i \in Days' : i - 1 \in Fold =>
            \A t \in Tickers : Held(t, i)' = Weight(t, i - 1)
       /\ \A i \in Fold : /\ Gross(i)' = Gross(i)
                         /\ \A t \in Tickers : Weight(t, i)' = Weight(t, i)
<1>1. ASSUME TypeOK, NewDay PROVE Settled
  <2>1. ASSUME NEW i \in Days', i - 1 \in Fold, NEW t \in Tickers
        PROVE  Held(t, i)' = Weight(t, i - 1)
    <3>1. i - 1 \in Days /\ i - 1 \in Fold'
      BY <1>1, <2>1, PastKept
    <3>2. Held(t, i)' = Weight(t, i - 1)'
      BY <3>1 DEF Held
    <3> QED
      BY <1>1, <3>1, <3>2, PastKept
  <2>2. \A i \in Fold : Gross(i)' = Gross(i)
    BY <1>1, GrossKept
  <2>3. \A i \in Fold, t \in Tickers : Weight(t, i)' = Weight(t, i)
    BY <1>1, PastKept
  <2> QED
    BY <2>1, <2>2, <2>3
<1>2. TypeOK /\ [Next]_vars => [Settled]_vars
  BY <1>1 DEF Next
<1> QED
  BY <1>2, BacktestTyped, PTL DEF Spec, NoLookahead

-----------------------------------------------------------------------------
(* Folds over a sequence, day by day.                                      *)

(* Induction over the naturals, as a property of sets.                     *)
LEMMA AllNaturals ==
  ASSUME NEW T \in SUBSET Nat, 0 \in T, \A n \in T : n + 1 \in T
  PROVE  T = Nat
<1> SUFFICES ASSUME Nat \ T # {} PROVE FALSE
  OBVIOUS
<1>1. PICK n \in Nat \ T : \A m \in Nat \ T : ~(<<m, n>> \in OpToRel(<, Nat))
  BY NatLessThanWellFounded, WFMin
<1>2. n # 0 /\ n - 1 \in Nat
  OBVIOUS
<1>3. <<n - 1, n>> \in OpToRel(<, Nat)
  BY <1>2 DEF OpToRel
<1>4. n - 1 \in T
  BY <1>1, <1>2, <1>3
<1>5. (n - 1) + 1 \in T
  BY <1>4
<1> QED
  BY <1>5

(* What a fold computes is built up over the sets of indices, the one that *)
(* last[s] picks from s combined last.                                     *)
FoldsTo(g, b, o, seq, last, s) ==
  g[s] = IF s = {} THEN b ELSE o[g[s \ {last[s]}]][seq[last[s]]]

LEMMA MaxIn ==
  ASSUME NEW m \in Nat, NEW s \in SUBSET (1..m), s # {}
  PROVE  /\ Max(s) \in s /\ \A k \in s : Max(s) >= k
         /\ IsFiniteSet(s) /\ Cardinality(s) \in Nat
         /\ s \ {Max(s)} \in SUBSET (1..m)
         /\ Cardinality(s \ {Max(s)}) = Cardinality(s) - 1
<1>1. s \in SUBSET 0..m
  OBVIOUS
<1>2. PICK j \in s : \A k \in s : k <= j
  BY <1>1, Greatest
<1>3. \A k \in s : j >= k
  BY <1>2
<1>4. Max(s) \in s /\ \A k \in s : Max(s) >= k
  BY <1>3 DEF Max
<1>5. IsFiniteSet(1..m)
  BY FS_Interval
<1>6. IsFiniteSet(s)
  BY <1>5, FS_Subset
<1> QED
  BY <1>4, <1>6, FS_RemoveElement, FS_CardinalityType

Foldable(St, V, b, o, I, seq, last) ==
  /\ b \in St /\ o \in [St -> [V -> St]] /\ seq \in [I -> V]
  /\ IsFiniteSet(I) /\ \A s \in SUBSET I : s # {} => last[s] \in s
HasFold(St, b, o, I, seq, last) ==
  \E g \in [SUBSET I -> St] : \A s \in SUBSET I : FoldsTo(g, b, o, seq, last, s)

LEMMA FoldExists ==
  ASSUME NEW St, NEW V, NEW b, NEW o, NEW I, NEW seq, NEW last,
         Foldable(St, V, b, o, I, seq, last)
  PROVE  HasFold(St, b, o, I, seq, last)
<1>0. /\ b \in St /\ o \in [St -> [V -> St]] /\ seq \in [I -> V] /\ IsFiniteSet(I)
      /\ \A s \in SUBSET I : s # {} => last[s] \in s
  BY DEF Foldable
<1> DEFINE Upto(g, n) == \A s \in SUBSET I : Cardinality(s) <= n => FoldsTo(g, b, o, seq, last, s)
           T == {n \in Nat : \E g \in [SUBSET I -> St] : Upto(g, n)}
<1>1. \A s \in SUBSET I : IsFiniteSet(s) /\ Cardinality(s) \in Nat
                            /\ Cardinality(s) <= Cardinality(I)
  BY <1>0, FS_Subset, FS_CardinalityType
<1>2. 0 \in T
  <2> DEFINE g == [s \in SUBSET I |-> b]
  <2>1. Upto(g, 0) /\ g \in [SUBSET I -> St]
    BY <1>0, <1>1, FS_EmptySet DEF FoldsTo
  <2> QED
    BY <2>1
<1>3. ASSUME NEW n \in T PROVE n + 1 \in T
  <2>1. PICK g \in [SUBSET I -> St] : Upto(g, n)
    OBVIOUS
  <2> DEFINE h == [s \in SUBSET I |->
                     IF Cardinality(s) <= n \/ s = {} THEN g[s]
                     ELSE o[g[s \ {last[s]}]][seq[last[s]]]]
  <2>2. ASSUME NEW s \in SUBSET I, s # {}
        PROVE  /\ last[s] \in I /\ s \ {last[s]} \in SUBSET I
               /\ Cardinality(s \ {last[s]}) = Cardinality(s) - 1
    BY <1>0, <1>1, <2>2, FS_RemoveElement
  <2>3. h \in [SUBSET I -> St]
    <3> SUFFICES ASSUME NEW s \in SUBSET I, s # {}
                 PROVE  o[g[s \ {last[s]}]][seq[last[s]]] \in St
      OBVIOUS
    <3>1. g[s \ {last[s]}] \in St /\ seq[last[s]] \in V
      BY <1>0, <2>2
    <3>2. \A x \in St, y \in V : o[x][y] \in St
      BY <1>0
    <3> QED
      BY <3>1, <3>2
  <2>4. ASSUME NEW s \in SUBSET I, Cardinality(s) <= n + 1 PROVE FoldsTo(h, b, o, seq, last, s)
    <3>1. CASE s = {}
      <4>1. FoldsTo(g, b, o, seq, last, s)
        BY <1>1, <2>1, <3>1, FS_EmptySet
      <4>2. h[s] = g[s]
        BY <3>1
      <4> QED
        BY <3>1, <4>1, <4>2 DEF FoldsTo
    <3>2. CASE s # {}
      <4> DEFINE r == s \ {last[s]}
      <4>1. r \in SUBSET I /\ Cardinality(r) <= n
        <5>1. r \in SUBSET I /\ Cardinality(r) = Cardinality(s) - 1
          BY <2>2, <3>2
        <5>2. n \in Nat /\ Cardinality(s) \in Nat
          BY <1>1
        <5> HIDE DEF r
        <5> QED
          BY <5>1, <5>2, <2>4
      <4>2. h[r] = g[r]
        BY <4>1
      <4>3. h[s] = o[g[r]][seq[last[s]]]
        <5>1. CASE Cardinality(s) <= n
          <6>1. FoldsTo(g, b, o, seq, last, s)
            BY <2>1, <5>1
          <6> QED
            BY <3>2, <5>1, <6>1 DEF FoldsTo
        <5>2. CASE ~(Cardinality(s) <= n)
          BY <3>2, <5>2
        <5> QED
          BY <5>1, <5>2
      <4> QED
        BY <3>2, <4>2, <4>3 DEF FoldsTo
    <3> QED
      BY <3>1, <3>2
  <2> HIDE DEF h
  <2>5. Upto(h, n + 1)
    BY <2>4
  <2>6. n + 1 \in Nat
    OBVIOUS
  <2> QED
    BY <2>3, <2>5, <2>6
<1>4. T = Nat
  <2> HIDE DEF T
  <2> T \in SUBSET Nat
    BY DEF T
  <2> QED
    BY <1>2, <1>3, AllNaturals
<1>5. Cardinality(I) \in T
  BY <1>0, <1>1, <1>4
<1> QED
  BY <1>1, <1>5 DEF HasFold

(* The indices up to each one.                                             *)
LEMMA UpTo ==
  ASSUME NEW k \in Nat
  PROVE  /\ 1..0 = {} /\ 1..(k + 1) # {} /\ Max(1..(k + 1)) = k + 1
         /\ (1..(k + 1)) \ {k + 1} = 1..k
<1> DEFINE s == 1..(k + 1)
<1>1. k + 1 \in s /\ s \in SUBSET (1..(k + 1)) /\ s # {} /\ k + 1 \in Nat
  OBVIOUS
<1>2. Max(s) \in s /\ \A j \in s : Max(s) >= j
  <2> HIDE DEF s
  <2> QED
    BY <1>1, MaxIn
<1>3. Max(s) = k + 1
  <2> DEFINE x == Max(s)
  <2>1. x \in 1..(k + 1) /\ x >= k + 1
    BY <1>1, <1>2
  <2> HIDE DEF x
  <2>2. x = k + 1
    BY <2>1
  <2> QED
    BY <2>2 DEF x
<1> QED
  BY <1>1, <1>3

(* A fold from the left: the greatest index is combined last.              *)
Greatests(m) == [s \in SUBSET (1..m) |-> Max(s)]

LeftFold(St, V, b, o, m, seq) ==
  /\ b \in St /\ o \in [St -> [V -> St]] /\ m \in Nat /\ seq \in [1..m -> V]
LeftFolds(g, b, o, m, seq) ==
  \A s \in SUBSET (1..m) : g[s] = IF s = {} THEN b ELSE o[g[s \ {Max(s)}]][seq[Max(s)]]

LEMMA LeftFoldExists ==
  ASSUME NEW St, NEW V, NEW b, NEW o, NEW m, NEW seq, LeftFold(St, V, b, o, m, seq)
  PROVE  \E g \in [SUBSET (1..m) -> St] : LeftFolds(g, b, o, m, seq)
<1> DEFINE I == 1..m
           last == Greatests(m)
<1>1. b \in St /\ o \in [St -> [V -> St]] /\ m \in Nat /\ seq \in [I -> V]
  BY DEF LeftFold
<1>2. \A s \in SUBSET I : last[s] = Max(s)
  BY DEF Greatests
<1>3. IsFiniteSet(I)
  BY <1>1, FS_Interval
<1>4. \A s \in SUBSET I : s # {} => last[s] \in s
  BY <1>1, <1>2, MaxIn
<1>5. ASSUME NEW g, \A s \in SUBSET I : FoldsTo(g, b, o, seq, last, s)
      PROVE  LeftFolds(g, b, o, m, seq)
  BY <1>2, <1>5 DEF FoldsTo, LeftFolds
<1> HIDE DEF last
<1>6. Foldable(St, V, b, o, I, seq, last)
  BY <1>1, <1>3, <1>4 DEF Foldable
<1>7. HasFold(St, b, o, I, seq, last)
  <2> HIDE DEF I
  <2> QED
    BY <1>6, FoldExists
<1>8. PICK g \in [SUBSET I -> St] : \A s \in SUBSET I : FoldsTo(g, b, o, seq, last, s)
  BY <1>7 DEF HasFold
<1> QED
  BY <1>5, <1>8

(* The values it takes on the way, one index after the other.              *)
Extends(St, b, o, m, seq, c) ==
  /\ c[1..0] = b
  /\ \A k \in 0..(m - 1) : c[1..k] \in St => c[1..(k + 1)] = o[c[1..k]][seq[k + 1]]
Reaches(St, b, o, m, seq, result) ==
  \E F \in [0..m -> St] :
    /\ F[0] = b /\ result = F[m]
    /\ \A k \in 0..(m - 1) : F[k + 1] = o[F[k]][seq[k + 1]]

LEMMA LeftFoldSteps ==
  ASSUME NEW St, NEW V, NEW b, NEW o, NEW m, NEW seq, LeftFold(St, V, b, o, m, seq),
         NEW c, Extends(St, b, o, m, seq, c)
  PROVE  Reaches(St, b, o, m, seq, c[1..m])
<1>0. /\ b \in St /\ o \in [St -> [V -> St]] /\ m \in Nat /\ seq \in [1..m -> V]
      /\ c[1..0] = b
      /\ \A k \in 0..(m - 1) : c[1..k] \in St => c[1..(k + 1)] = o[c[1..k]][seq[k + 1]]
  BY DEF LeftFold, Extends
<1> DEFINE F == [k \in 0..m |-> c[1..k]]
           T == {k \in Nat : k <= m => c[1..k] \in St}
<1>1. 0 \in T
  BY <1>0
<1>2. ASSUME NEW k \in T PROVE k + 1 \in T
  <2> SUFFICES ASSUME k + 1 <= m PROVE c[1..(k + 1)] \in St
    OBVIOUS
  <2>1. k \in 0..(m - 1) /\ c[1..k] \in St /\ k + 1 \in 1..m
    BY <1>0
  <2>2. seq[k + 1] \in V
    BY <1>0, <2>1
  <2>3. \A x \in St, y \in V : o[x][y] \in St
    BY <1>0
  <2>4. o[c[1..k]][seq[k + 1]] \in St
    BY <2>1, <2>2, <2>3
  <2> QED
    BY <1>0, <2>1, <2>4
<1>3. T = Nat
  <2> HIDE DEF T
  <2> T \in SUBSET Nat
    BY DEF T
  <2> QED
    BY <1>1, <1>2, AllNaturals
<1>4. \A k \in 0..m : c[1..k] \in St
  <2>1. \A k \in T : k <= m => c[1..k] \in St
    OBVIOUS
  <2> HIDE DEF T
  <2>2. \A k \in 0..m : k \in T /\ k <= m
    BY <1>0, <1>3
  <2> QED
    BY <2>1, <2>2
<1> HIDE DEF T
<1>5. F \in [0..m -> St] /\ F[0] = b /\ c[1..m] = F[m]
  BY <1>0, <1>4
<1>6. ASSUME NEW k \in 0..(m - 1) PROVE F[k + 1] = o[F[k]][seq[k + 1]]
  <2>1. k \in 0..m /\ k + 1 \in 0..m
    BY <1>0
  <2>2. c[1..(k + 1)] = o[c[1..k]][seq[k + 1]]
    BY <1>0, <1>4, <2>1
  <2> QED
    BY <2>1, <2>2
<1> QED
  BY <1>5, <1>6 DEF Reaches

(* What a fold is over the indices up to k + 1, from what it is over all   *)
(* sets of them.                                                           *)
LEMMA NextIndex ==
  ASSUME NEW m \in Nat, NEW k \in 0..(m - 1)
  PROVE  /\ 1..(k + 1) \in SUBSET (1..m) /\ 1..k \in SUBSET (1..m) /\ k + 1 \in 1..m
         /\ 1..(k + 1) # {} /\ Max(1..(k + 1)) = k + 1
         /\ (1..(k + 1)) \ {Max(1..(k + 1))} = 1..k
<1>1. k \in Nat
  OBVIOUS
<1>2. 1..(k + 1) \in SUBSET (1..m) /\ 1..k \in SUBSET (1..m) /\ k + 1 \in 1..m
  OBVIOUS
<1>3. /\ 1..(k + 1) # {} /\ Max(1..(k + 1)) = k + 1
      /\ (1..(k + 1)) \ {k + 1} = 1..k
  BY <1>1, UpTo
<1> QED
  BY <1>2, <1>3

-----------------------------------------------------------------------------
(* Returns compound.                                                       *)

Factor == [num : Int, den : Int]
One == [num |-> 1, den |-> 1]
Times(f, r) == [num |-> f.num * (Unit + r), den |-> f.den * Unit]
IsCompound(g, seq) ==
  g = [s \in SUBSET DOMAIN seq |->
         IF s = {} THEN One ELSE Times(g[s \ {Max(s)}], seq[Max(s)])]
DailyReturns(t) == [n \in 1..(Cardinality(Fold) - 1) |-> Return(t, start + n)]

(* The compound of a ticker is reached one day after the other. *)
LEMMA CompoundSteps ==
  ASSUME NEW t, NEW m \in Nat, Cardinality(Fold) - 1 = m,
         \A n \in 1..m : Return(t, start + n) \in Int
  PROVE  \E F \in [0..m -> Factor] :
           /\ F[0] = One /\ Compound(t) = F[m]
           /\ \A k \in 0..(m - 1) : F[k + 1] = Times(F[k], Return(t, start + (k + 1)))
<1> DEFINE seq == DailyReturns(t)
           o == [f \in Factor |-> [r \in Int |-> Times(f, r)]]
           c == CHOOSE g : IsCompound(g, seq)
<1>1. /\ seq \in [1..m -> Int] /\ DOMAIN seq = 1..m
      /\ \A n \in 1..m : seq[n] = Return(t, start + n)
  BY DEF DailyReturns
<1>2. Compound(t) = c[1..m]
  BY <1>1 DEF Compound, FoldLeft, MapThenFoldSet, IsCompound, DailyReturns, Times, One
<1> HIDE DEF seq
<1>3. One \in Factor /\ \A f \in Factor, r \in Int : Times(f, r) \in Factor
  <2>1. Unit \in Int
    BY BacktestAssumption
  <2> QED
    BY <2>1 DEF Factor, Times, One
<1>4. o \in [Factor -> [Int -> Factor]] /\ \A f \in Factor, r \in Int : o[f][r] = Times(f, r)
  BY <1>3
<1> HIDE DEF o
<1>5. LeftFold(Factor, Int, One, o, m, seq)
  BY <1>1, <1>3, <1>4 DEF LeftFold
<1>6. PICK g \in [SUBSET (1..m) -> Factor] : LeftFolds(g, One, o, m, seq)
  BY <1>5, LeftFoldExists
<1>7. /\ g \in [SUBSET (1..m) -> Factor]
      /\ \A s \in SUBSET (1..m) :
           g[s] = IF s = {} THEN One ELSE o[g[s \ {Max(s)}]][seq[Max(s)]]
  BY <1>6 DEF LeftFolds
<1>8. IsCompound(g, seq)
  <2>1. ASSUME NEW s \in SUBSET (1..m), s # {}
        PROVE  o[g[s \ {Max(s)}]][seq[Max(s)]] = Times(g[s \ {Max(s)}], seq[Max(s)])
    <3>1. s \ {Max(s)} \in SUBSET (1..m) /\ Max(s) \in 1..m
      BY <2>1, MaxIn
    <3>2. g[s \ {Max(s)}] \in Factor /\ seq[Max(s)] \in Int
      BY <1>1, <3>1
    <3> QED
      BY <3>2, <1>4
  <2> QED
    BY <1>1, <1>7, <2>1 DEF IsCompound
<1>9. IsCompound(c, seq)
  BY <1>8
<1> HIDE DEF c
<1>10. \A s \in SUBSET (1..m) :
        c[s] = IF s = {} THEN One ELSE Times(c[s \ {Max(s)}], seq[Max(s)])
  BY <1>1, <1>9 DEF IsCompound
<1>11. c[1..0] = One
  <2>1. 1..0 \in SUBSET (1..m) /\ 1..0 = {}
    OBVIOUS
  <2> QED
    BY <1>10, <2>1
<1>12. ASSUME NEW k \in 0..(m - 1), c[1..k] \in Factor
       PROVE  c[1..(k + 1)] = o[c[1..k]][seq[k + 1]]
  <2>1. c[1..(k + 1)] = Times(c[1..k], seq[k + 1])
    BY <1>10, NextIndex
  <2>2. seq[k + 1] \in Int
    BY <1>1, NextIndex
  <2> QED
    BY <1>4, <1>12, <2>1, <2>2
<1>13. PICK F \in [0..m -> Factor] :
         /\ F[0] = One /\ c[1..m] = F[m]
         /\ \A k \in 0..(m - 1) : F[k + 1] = o[F[k]][seq[k + 1]]
  <2>1. Extends(Factor, One, o, m, seq, c)
    BY <1>11, <1>12 DEF Extends
  <2>2. Reaches(Factor, One, o, m, seq, c[1..m])
    BY <1>5, <2>1, LeftFoldSteps
  <2> QED
    BY <2>2 DEF Reaches
<1>14. ASSUME NEW k \in 0..(m - 1)
       PROVE  F[k + 1] = Times(F[k], Return(t, start + (k + 1)))
  <2>1. k \in 0..m /\ k + 1 \in 1..m
    OBVIOUS
  <2>2. F[k] \in Factor /\ seq[k + 1] \in Int /\ seq[k + 1] = Return(t, start + (k + 1))
    BY <1>1, <2>1
  <2> QED
    BY <1>4, <1>13, <2>2
<1> QED
  BY <1>2, <1>13, <1>14

(* A quote is a price, and divides the unit of returns. *)
LEMMA QuotesAreOf ==
  ASSUME TypeOK, NEW i \in Days, NEW t \in Tickers, Quoted(t, i)
  PROVE  closes[i][t] \in Nat \ {0} /\ Unit % closes[i][t] = 0
<1>1. closes[i] \in [Tickers -> Prices \union {Missing}]
  BY DEF TypeOK, Days
<1>2. closes[i][t] \in Prices
  BY <1>1 DEF Quoted
<1>3. closes[i][t] \in Nat \ {0}
  BY <1>2, ClosesTyped DEF Quoted, Missing
<1>4. \A p \in Prices : Unit % p = 0
  BY BacktestAssumption
<1> QED
  BY <1>2, <1>3, <1>4

(* The last quote is missing until there is one. *)
LEMMA LastQuoteIs ==
  ASSUME TypeOK, NEW t \in Tickers, NEW i \in Int
  PROVE  /\ LastQuote(t, i) \in Nat
         /\ Quotes(t, i) = {} => LastQuote(t, i) = 0
         /\ Quotes(t, i) # {} => LastQuote(t, i) # 0 /\ Unit % LastQuote(t, i) = 0
         /\ i \in Fold /\ Quoted(t, i) => LastQuote(t, i) = closes[i][t]
<1>1. CASE Quotes(t, i) = {}
  <2>1. LastQuote(t, i) = 0
    BY <1>1 DEF LastQuote, Quotes, Missing
  <2>2. ~(i \in Fold /\ Quoted(t, i))
    BY <1>1 DEF Quotes
  <2> QED
    BY <1>1, <2>1, <2>2
<1>2. CASE Quotes(t, i) # {}
  <2> DEFINE last == CHOOSE j \in Quotes(t, i) : \A k \in Quotes(t, i) : k <= j
  <2>1. Quotes(t, i) \in SUBSET 0..Len(closes) /\ Len(closes) \in Nat
        /\ Fold \subseteq Days
    BY BacktestAssumption DEF Quotes, Fold, Days, TypeOK
  <2>2. \E j \in Quotes(t, i) : \A k \in Quotes(t, i) : k <= j
    BY <1>2, <2>1, Greatest
  <2>3. last \in Quotes(t, i) /\ \A k \in Quotes(t, i) : k <= last
    BY <2>2
  <2>4. LastQuote(t, i) = closes[last][t]
    BY <1>2 DEF LastQuote, Quotes
  <2> HIDE DEF last
  <2>5. last \in Days /\ Quoted(t, last) /\ last <= i /\ last \in Int
    BY <2>1, <2>3 DEF Quotes
  <2>6. LastQuote(t, i) \in Nat \ {0} /\ Unit % LastQuote(t, i) = 0
    BY <2>4, <2>5, QuotesAreOf
  <2>7. i \in Fold /\ Quoted(t, i) => last = i
    <3>1. i \in Fold /\ Quoted(t, i) => i \in Quotes(t, i)
      BY DEF Quotes
    <3> QED
      BY <2>3, <2>5, <3>1
  <2> QED
    BY <1>2, <2>4, <2>6, <2>7
<1> QED
  BY <1>1, <1>2

(* A day's return takes the close before to the close of the day, exactly. *)
LEMMA ReturnIs ==
  ASSUME TypeOK, NEW t \in Tickers, NEW i \in Int
  PROVE  /\ Return(t, i) \in Int
         /\ LastQuote(t, i - 1) = 0 \/ LastQuote(t, i) = 0 => Return(t, i) = 0
         /\ LastQuote(t, i - 1) # 0 /\ LastQuote(t, i) # 0
              => (Unit + Return(t, i)) * LastQuote(t, i - 1) = Unit * LastQuote(t, i)
<1> DEFINE now == LastQuote(t, i)
           prior == LastQuote(t, i - 1)
<1>1. now \in Nat /\ prior \in Nat /\ Unit \in Nat
      /\ (prior # 0 => Unit % prior = 0)
  <2>1. i - 1 \in Int /\ Unit \in Nat
    BY BacktestAssumption
  <2>2. now \in Nat
    BY LastQuoteIs
  <2>3. prior \in Nat /\ (prior # 0 => Unit % prior = 0)
    BY <2>1, LastQuoteIs
  <2> QED
    BY <2>1, <2>2, <2>3
<1>2. Return(t, i) = IF prior = 0 \/ now = 0 THEN 0 ELSE ((now - prior) * Unit) \div prior
  BY DEF Return, Missing
<1> HIDE DEF now, prior
<1>3. ASSUME prior # 0, now # 0
      PROVE  Return(t, i) \in Int /\ (Unit + Return(t, i)) * prior = Unit * now
  <2> DEFINE q == Unit \div prior
             r == Return(t, i)
  <2>1. prior \in Nat \ {0} /\ Unit % prior = 0
    BY <1>1, <1>3
  <2>2. q \in Int /\ Unit = prior * q
    <3>1. q \in Int /\ Unit = prior * q + (Unit % prior)
      BY <1>1, <2>1, SMT
    <3> HIDE DEF q
    <3> QED
      BY <1>1, <2>1, <3>1
  <2>3. r = ((now - prior) * Unit) \div prior
    BY <1>2, <1>3
  <2> HIDE DEF q, r
  <2>4. (now - prior) * Unit = ((now - prior) * q) * prior /\ (now - prior) * q \in Int
    BY <1>1, <2>1, <2>2
  <2> DEFINE x == (now - prior) * q
  <2>5. x \in Int /\ r = (x * prior) \div prior
    BY <2>3, <2>4
  <2>6. x = now * q - prior * q
    BY <1>1, <2>1, <2>2
  <2> HIDE DEF x
  <2>7. r = x
    BY <2>1, <2>5, SMT
  <2>8. Unit + r = now * q
    BY <1>1, <2>1, <2>2, <2>6, <2>7
  <2>9. (now * q) * prior = (prior * q) * now
    BY <1>1, <2>1, <2>2
  <2>10. (Unit + r) * prior = Unit * now /\ r \in Int
    BY <2>2, <2>5, <2>7, <2>8, <2>9
  <2> QED
    BY <2>10 DEF r
<1>4. prior = 0 \/ now = 0 => Return(t, i) = 0
  BY <1>2
<1> QED
  BY <1>1, <1>3, <1>4 DEF now, prior

(* The days of a window are those from its start to the last. *)
LEMMA WindowDays ==
  ASSUME TypeOK, Fold # {}
  PROVE  /\ start \in Nat \ {0} /\ Len(closes) \in Nat /\ start <= Len(closes)
         /\ Days = 1..Len(closes) /\ Fold = start..Len(closes)
         /\ Cardinality(Fold) - 1 = Len(closes) - start
<1>1. start \in Nat \ {0} /\ Len(closes) \in Nat /\ Days = 1..Len(closes)
  BY BacktestAssumption DEF TypeOK, Days
<1>2. Fold = start..Len(closes) /\ start <= Len(closes)
  BY <1>1 DEF Fold
<1>3. Cardinality(start..Len(closes)) = Len(closes) - start + 1
  <2>1. start \in Int /\ Len(closes) \in Int
    BY <1>1
  <2> QED
    BY <2>1, <1>2, FS_Interval
<1> QED
  BY <1>1, <1>2, <1>3

(* The first quote of a column is the last one on its day. *)
LEMMA FirstQuoteIs ==
  ASSUME TypeOK, NEW t \in Tickers, NEW i \in Fold, Quoted(t, i),
         \A j \in Fold : Quoted(t, j) => i <= j
  PROVE  FirstQuote(t) = closes[i][t]
<1> DEFINE quotes == {j \in Fold : Quoted(t, j)}
           first == CHOOSE j \in quotes : \A k \in quotes : j <= k
<1>1. i \in quotes /\ \A k \in quotes : i <= k
  OBVIOUS
<1>2. first \in quotes /\ \A k \in quotes : first <= k
  BY <1>1
<1>3. \A j \in quotes : j \in Int
  BY WindowDays
<1>4. first = i
  <2> HIDE DEF quotes, first
  <2> QED
    BY <1>1, <1>2, <1>3
<1> QED
  BY <1>4 DEF FirstQuote

(* A column has a first quote. *)
LEMMA FirstQuoteTyped ==
  ASSUME TypeOK, NEW t \in Columns
  PROVE  FirstQuote(t) \in Nat
<1> DEFINE quotes == {j \in Fold : Quoted(t, j)}
<1>1. quotes # {} /\ t \in Tickers
  BY DEF Columns
<1>2. quotes \in SUBSET Nat /\ Fold # {} /\ Fold \subseteq Days
  BY <1>1, WindowDays
<1>3. PICK i \in quotes : \A j \in quotes : ~(<<j, i>> \in OpToRel(<, Nat))
  <2> HIDE DEF quotes
  <2> QED
    BY <1>1, <1>2, NatLessThanWellFounded, WFMin
<1>4. \A j \in quotes : ~(j < i)
  <2> HIDE DEF quotes
  <2> QED
    BY <1>2, <1>3 DEF OpToRel
<1>5. \A j \in quotes : i <= j
  <2> HIDE DEF quotes
  <2>1. \A j \in quotes : i \in Nat /\ j \in Nat
    BY <1>2
  <2> QED
    BY <1>4, <2>1
<1>6. FirstQuote(t) = closes[i][t] /\ i \in Days
  BY <1>1, <1>2, <1>5, FirstQuoteIs
<1> QED
  BY <1>1, <1>6, ClosesTyped

(* One day after the other: until a ticker is quoted nothing is earned,    *)
(* and from then on what was earned is its last quote over its first.      *)
LEMMA Compounds ==
  ASSUME TypeOK, Fold # {}, NEW t \in Tickers, NEW m \in Nat, m = Len(closes) - start,
         NEW F \in [0..m -> Factor], F[0] = One,
         \A k \in 0..(m - 1) : F[k + 1] = Times(F[k], Return(t, start + (k + 1)))
  PROVE  \A k \in 0..m :
           IF LastQuote(t, start + k) = 0 THEN F[k].num = F[k].den
           ELSE F[k].num * FirstQuote(t) = F[k].den * LastQuote(t, start + k)
<1> DEFINE Quote(k) == LastQuote(t, start + k)
           first == FirstQuote(t)
           Holds(k) == IF Quote(k) = 0 THEN F[k].num = F[k].den
                       ELSE F[k].num * first = F[k].den * Quote(k)
           T == {k \in Nat : k <= m => Holds(k)}
<1>1. /\ start \in Nat \ {0} /\ Fold = start..(start + m)
  BY WindowDays
<1>2. \A k \in 0..m : Quote(k) \in Nat /\ start + k \in Fold
  BY <1>1, LastQuoteIs
(* The day of the first quote. *)
<1>3. ASSUME NEW k \in 0..m, Quote(k) # 0, \A j \in Fold : j < start + k => ~Quoted(t, j)
      PROVE  Quote(k) = first
  <2>1. start + k \in Fold /\ start + k \in Int
    BY <1>1
  <2>2. Quotes(t, start + k) # {}
    BY <1>3, <2>1, LastQuoteIs
  <2>3. PICK j \in Quotes(t, start + k) : TRUE
    BY <2>2
  <2>4. j \in Fold /\ j <= start + k /\ Quoted(t, j) /\ j \in Int
    BY <1>1, <2>3 DEF Quotes
  <2>5. j = start + k
    BY <1>3, <2>1, <2>4
  <2>6. \A i \in Fold : Quoted(t, i) => start + k <= i
    BY <1>1, <1>3, <2>1
  <2>7. first = closes[start + k][t]
    BY <2>1, <2>4, <2>5, <2>6, FirstQuoteIs
  <2>8. Quote(k) = closes[start + k][t]
    BY <2>1, <2>4, <2>5, LastQuoteIs
  <2> QED
    BY <2>7, <2>8
<1>4. 0 \in T
  <2>1. Quote(0) # 0 => Quote(0) = first
    <3>1. 0 \in 0..m /\ \A j \in Fold : j < start + 0 => ~Quoted(t, j)
      BY <1>1
    <3> QED
      BY <1>3, <3>1
  <2>2. F[0].num = 1 /\ F[0].den = 1
    BY DEF One
  <2> HIDE DEF Quote, first
  <2>3. 0 \in 0..m
    OBVIOUS
  <2>4. Quote(0) \in Nat
    BY <1>2, <2>3
  <2> QED
    BY <2>1, <2>2, <2>4
<1>5. ASSUME NEW k \in T PROVE k + 1 \in T
  <2> SUFFICES ASSUME k + 1 <= m PROVE Holds(k + 1)
    OBVIOUS
  <2> DEFINE r == Return(t, start + (k + 1))
             num == F[k].num
             den == F[k].den
             prior == Quote(k)
             now == Quote(k + 1)
  <2>1. k \in 0..(m - 1) /\ k \in 0..m /\ k + 1 \in 0..m /\ Holds(k)
    OBVIOUS
  <2>2. num \in Int /\ den \in Int
    BY <2>1 DEF Factor
  <2>3. F[k + 1].num = num * (Unit + r) /\ F[k + 1].den = den * Unit
    <3>1. F[k + 1] = Times(F[k], r)
      BY <2>1
    <3> QED
      BY <3>1 DEF Times
  <2>4. start + (k + 1) \in Int /\ (start + (k + 1)) - 1 = start + k
    BY <1>1, <2>1
  <2>5. /\ r \in Int /\ (prior = 0 \/ now = 0 => r = 0)
        /\ prior # 0 /\ now # 0 => (Unit + r) * prior = Unit * now
    BY <2>4, ReturnIs
  <2>6. prior \in Nat /\ now \in Nat /\ Unit \in Nat
    BY <1>2, <2>1, BacktestAssumption
  <2>7. Quotes(t, start + k) \subseteq Quotes(t, start + (k + 1))
    BY <1>1, <2>1 DEF Quotes
  <2>8. prior # 0 => now # 0
    <3>1. start + k \in Int /\ start + (k + 1) \in Int
      BY <1>1, <2>1
    <3> QED
      BY <2>7, <3>1, LastQuoteIs
  <2>9. prior = 0 /\ now # 0 => now = first
    <3> SUFFICES ASSUME prior = 0, now # 0 PROVE now = first
      OBVIOUS
    <3>1. Quotes(t, start + k) = {}
      <4>1. start + k \in Int
        BY <1>1, <2>1
      <4> QED
        BY <4>1, LastQuoteIs
    <3>2. \A j \in Fold : j < start + (k + 1) => ~Quoted(t, j)
      BY <1>1, <2>1, <3>1 DEF Quotes
    <3> QED
      BY <1>3, <2>1, <3>2
  <2>10. IF prior = 0 THEN num = den ELSE num * first = den * prior
    BY <2>1
  <2>11. now # 0 => first \in Nat
    <3> SUFFICES ASSUME now # 0 PROVE t \in Columns
      BY FirstQuoteTyped
    <3>1. Quotes(t, start + (k + 1)) # {}
      BY <2>4, LastQuoteIs
    <3> QED
      BY <3>1 DEF Quotes, Columns
  <2> DEFINE newNum == F[k + 1].num
             newDen == F[k + 1].den
  <2>12. newNum = num * (Unit + r) /\ newDen = den * Unit
    BY <2>3
  <2> HIDE DEF r, num, den, prior, now, first, newNum, newDen
  <2>13. ASSUME now = 0 PROVE newNum = newDen
    <3>1. r = 0 /\ num = den
      BY <2>5, <2>8, <2>10, <2>13
    <3> QED
      BY <2>2, <2>6, <2>12, <3>1
  <2>14. ASSUME now # 0, prior = 0 PROVE newNum * first = newDen * now
    <3>1. r = 0 /\ num = den /\ now = first
      BY <2>5, <2>9, <2>10, <2>14
    <3> QED
      BY <2>2, <2>6, <2>12, <3>1
  <2>15. ASSUME now # 0, prior # 0 PROVE newNum * first = newDen * now
    <3>1. /\ num * first = den * prior /\ (Unit + r) * prior = Unit * now
          /\ first \in Nat /\ r \in Int
      BY <2>5, <2>10, <2>11, <2>15
    <3> DEFINE x == Unit + r
    <3>2. x \in Int /\ newNum = num * x /\ x * prior = Unit * now
      BY <2>6, <2>12, <3>1
    <3> HIDE DEF x
    <3>3. (num * x) * first = (num * first) * x
      BY <2>2, <3>1, <3>2
    <3>4. (den * prior) * x = den * (x * prior)
      BY <2>2, <2>6, <3>2
    <3>5. den * (Unit * now) = (den * Unit) * now
      BY <2>2, <2>6
    <3> QED
      BY <2>12, <3>1, <3>2, <3>3, <3>4, <3>5, Zenon
  <2>16. IF now = 0 THEN newNum = newDen ELSE newNum * first = newDen * now
    BY <2>13, <2>14, <2>15
  <2> QED
    BY <2>16 DEF now, first, newNum, newDen
<1>6. T = Nat
  <2> HIDE DEF T
  <2> T \in SUBSET Nat
    BY DEF T
  <2> QED
    BY <1>4, <1>5, AllNaturals
<1> QED
  BY <1>6

(* A ticker's daily returns compound to its last close in the window over  *)
(* its first, whatever gaps there are between the two.                     *)
THEOREM ReturnsCompoundHolds == Spec => []ReturnsCompound
<1>1. TypeOK => ReturnsCompound
  <2> SUFFICES ASSUME TypeOK, Fold # {}, NEW t \in Columns
               PROVE  Compound(t).num * FirstQuote(t)
                        = Compound(t).den * LastQuote(t, Len(closes))
    BY DEF ReturnsCompound, Reports
  <2> DEFINE m == Len(closes) - start
  <2>1. t \in Tickers /\ m \in Nat /\ Cardinality(Fold) - 1 = m /\ start + m = Len(closes)
        /\ Len(closes) \in Nat /\ start \in Nat
    BY WindowDays DEF Columns
  <2>2. \A n \in 1..m : Return(t, start + n) \in Int
    BY <2>1, ReturnIs
  <2> HIDE DEF m
  <2>3. PICK F \in [0..m -> Factor] :
          /\ F[0] = One /\ Compound(t) = F[m]
          /\ \A k \in 0..(m - 1) : F[k + 1] = Times(F[k], Return(t, start + (k + 1)))
    BY <2>1, <2>2, CompoundSteps
  <2>4. IF LastQuote(t, start + m) = 0 THEN F[m].num = F[m].den
        ELSE F[m].num * FirstQuote(t) = F[m].den * LastQuote(t, start + m)
    <3>1. \A k \in 0..m :
            IF LastQuote(t, start + k) = 0 THEN F[k].num = F[k].den
            ELSE F[k].num * FirstQuote(t) = F[k].den * LastQuote(t, start + k)
      BY <2>1, <2>3, Compounds DEF m
    <3>2. m \in 0..m
      BY <2>1
    <3> QED
      BY <3>1, <3>2
  <2>5. LastQuote(t, Len(closes)) # 0
    <3>1. Quotes(t, Len(closes)) # {}
      BY WindowDays DEF Columns, Quotes
    <3> QED
      BY <2>1, <3>1, LastQuoteIs
  <2> QED
    BY <2>1, <2>3, <2>4, <2>5
<1> QED
  BY <1>1, BacktestTyped, PTL

-----------------------------------------------------------------------------
(* The metrics.                                                            *)

LEMMA WholeTyped == Whole \in Nat \ {0}
<1>1. K \in Nat \ {0}
  <2>1. Universe \in Seq(Tickers) /\ TopK \in 1..Len(Universe)
    BY BacktestAssumption
  <2> QED
    BY <2>1 DEF K
<1> QED
  BY <1>1, BacktestAssumption DEF Whole

(* The equity is reached one result after the other.                        *)
Grows(e, r) == e * (Whole + r)
IsEquity(g, seq) ==
  g = [s \in SUBSET DOMAIN seq |->
         IF s = {} THEN 1 ELSE Grows(g[s \ {Max(s)}], seq[Max(s)])]

LEMMA EquitySteps ==
  ASSUME NEW m \in Nat, NEW seq \in [1..m -> Int]
  PROVE  \E F \in [0..m -> Int] :
           /\ F[0] = 1 /\ Equity(seq) = F[m]
           /\ \A k \in 0..(m - 1) : F[k + 1] = Grows(F[k], seq[k + 1])
<1> DEFINE o == [x \in Int |-> [r \in Int |-> Grows(x, r)]]
           c == CHOOSE g : IsEquity(g, seq)
<1>1. DOMAIN seq = 1..m
  OBVIOUS
<1>2. Equity(seq) = c[1..m]
  BY <1>1 DEF Equity, FoldLeft, MapThenFoldSet, IsEquity, Grows
<1>3. 1 \in Int /\ \A x \in Int, r \in Int : Grows(x, r) \in Int
  BY WholeTyped DEF Grows
<1>4. o \in [Int -> [Int -> Int]] /\ \A x \in Int, r \in Int : o[x][r] = Grows(x, r)
  BY <1>3
<1> HIDE DEF o
<1>5. LeftFold(Int, Int, 1, o, m, seq)
  BY <1>3, <1>4 DEF LeftFold
<1>6. PICK g \in [SUBSET (1..m) -> Int] : LeftFolds(g, 1, o, m, seq)
  BY <1>5, LeftFoldExists
<1>7. IsEquity(g, seq)
  <2>1. ASSUME NEW s \in SUBSET (1..m), s # {}
        PROVE  o[g[s \ {Max(s)}]][seq[Max(s)]] = Grows(g[s \ {Max(s)}], seq[Max(s)])
    <3>1. s \ {Max(s)} \in SUBSET (1..m) /\ Max(s) \in 1..m
      BY <2>1, MaxIn
    <3>2. g[s \ {Max(s)}] \in Int /\ seq[Max(s)] \in Int
      BY <3>1
    <3> QED
      BY <3>2, <1>4
  <2>2. \A s \in SUBSET (1..m) :
          g[s] = IF s = {} THEN 1 ELSE o[g[s \ {Max(s)}]][seq[Max(s)]]
    BY <1>6 DEF LeftFolds
  <2> QED
    BY <1>1, <2>1, <2>2 DEF IsEquity
<1>8. IsEquity(c, seq)
  BY <1>7
<1> HIDE DEF c
<1>9. \A s \in SUBSET (1..m) :
        c[s] = IF s = {} THEN 1 ELSE Grows(c[s \ {Max(s)}], seq[Max(s)])
  BY <1>1, <1>8 DEF IsEquity
<1>10. Extends(Int, 1, o, m, seq, c)
  <2>1. c[1..0] = 1
    <3>1. 1..0 \in SUBSET (1..m) /\ 1..0 = {}
      OBVIOUS
    <3> QED
      BY <1>9, <3>1
  <2>2. ASSUME NEW k \in 0..(m - 1), c[1..k] \in Int
        PROVE  c[1..(k + 1)] = o[c[1..k]][seq[k + 1]]
    <3>1. c[1..(k + 1)] = Grows(c[1..k], seq[k + 1])
      BY <1>9, NextIndex
    <3>2. seq[k + 1] \in Int
      BY NextIndex
    <3> QED
      BY <1>4, <2>2, <3>1, <3>2
  <2> QED
    BY <2>1, <2>2 DEF Extends
<1>11. PICK F \in [0..m -> Int] :
         /\ F[0] = 1 /\ c[1..m] = F[m]
         /\ \A k \in 0..(m - 1) : F[k + 1] = o[F[k]][seq[k + 1]]
  <2>1. Reaches(Int, 1, o, m, seq, c[1..m])
    BY <1>5, <1>10, LeftFoldSteps
  <2> QED
    BY <2>1 DEF Reaches
<1>12. ASSUME NEW k \in 0..(m - 1) PROVE F[k + 1] = Grows(F[k], seq[k + 1])
  <2>1. F[k] \in Int /\ seq[k + 1] \in Int
    OBVIOUS
  <2> QED
    BY <1>4, <1>11, <2>1
<1> QED
  BY <1>2, <1>11, <1>12

(* So is the drawdown.                                                      *)
Drawdown == [equity : Int, peak : Int, num : Int, den : Int]
IsDrawdown(g, seq) ==
  g = [s \in SUBSET DOMAIN seq |->
         IF s = {} THEN DrawdownStart ELSE AfterResult(g[s \ {Max(s)}], seq[Max(s)])]

LEMMA DrawdownSteps ==
  ASSUME NEW m \in Nat, NEW seq \in [1..m -> Int]
  PROVE  \E F \in [0..m -> Drawdown] :
           /\ F[0] = DrawdownStart /\ MaxDrawdown(seq) = F[m]
           /\ \A k \in 0..(m - 1) : F[k + 1] = AfterResult(F[k], seq[k + 1])
<1> DEFINE o == [x \in Drawdown |-> [r \in Int |-> AfterResult(x, r)]]
           c == CHOOSE g : IsDrawdown(g, seq)
<1>1. DOMAIN seq = 1..m
  OBVIOUS
<1>2. MaxDrawdown(seq) = c[1..m]
  BY <1>1 DEF MaxDrawdown, FoldLeft, MapThenFoldSet, IsDrawdown, AfterResult, DrawdownStart
<1>3. DrawdownStart \in Drawdown /\ \A x \in Drawdown, r \in Int : AfterResult(x, r) \in Drawdown
  BY WholeTyped DEF Drawdown, DrawdownStart, AfterResult
<1>4. o \in [Drawdown -> [Int -> Drawdown]] /\ \A x \in Drawdown, r \in Int : o[x][r] = AfterResult(x, r)
  BY <1>3
<1> HIDE DEF o
<1>5. LeftFold(Drawdown, Int, DrawdownStart, o, m, seq)
  BY <1>3, <1>4 DEF LeftFold
<1>6. PICK g \in [SUBSET (1..m) -> Drawdown] : LeftFolds(g, DrawdownStart, o, m, seq)
  BY <1>5, LeftFoldExists
<1>7. IsDrawdown(g, seq)
  <2>1. ASSUME NEW s \in SUBSET (1..m), s # {}
        PROVE  o[g[s \ {Max(s)}]][seq[Max(s)]] = AfterResult(g[s \ {Max(s)}], seq[Max(s)])
    <3>1. s \ {Max(s)} \in SUBSET (1..m) /\ Max(s) \in 1..m
      BY <2>1, MaxIn
    <3>2. g[s \ {Max(s)}] \in Drawdown /\ seq[Max(s)] \in Int
      BY <3>1
    <3> QED
      BY <3>2, <1>4
  <2>2. \A s \in SUBSET (1..m) :
          g[s] = IF s = {} THEN DrawdownStart ELSE o[g[s \ {Max(s)}]][seq[Max(s)]]
    BY <1>6 DEF LeftFolds
  <2> QED
    BY <1>1, <2>1, <2>2 DEF IsDrawdown
<1>8. IsDrawdown(c, seq)
  BY <1>7
<1> HIDE DEF c
<1>9. \A s \in SUBSET (1..m) :
        c[s] = IF s = {} THEN DrawdownStart ELSE AfterResult(c[s \ {Max(s)}], seq[Max(s)])
  BY <1>1, <1>8 DEF IsDrawdown
<1>10. Extends(Drawdown, DrawdownStart, o, m, seq, c)
  <2>1. c[1..0] = DrawdownStart
    <3>1. 1..0 \in SUBSET (1..m) /\ 1..0 = {}
      OBVIOUS
    <3> QED
      BY <1>9, <3>1
  <2>2. ASSUME NEW k \in 0..(m - 1), c[1..k] \in Drawdown
        PROVE  c[1..(k + 1)] = o[c[1..k]][seq[k + 1]]
    <3>1. c[1..(k + 1)] = AfterResult(c[1..k], seq[k + 1])
      BY <1>9, NextIndex
    <3>2. seq[k + 1] \in Int
      BY NextIndex
    <3> QED
      BY <1>4, <2>2, <3>1, <3>2
  <2> QED
    BY <2>1, <2>2 DEF Extends
<1>11. PICK F \in [0..m -> Drawdown] :
         /\ F[0] = DrawdownStart /\ c[1..m] = F[m]
         /\ \A k \in 0..(m - 1) : F[k + 1] = o[F[k]][seq[k + 1]]
  <2>1. Reaches(Drawdown, DrawdownStart, o, m, seq, c[1..m])
    BY <1>5, <1>10, LeftFoldSteps
  <2> QED
    BY <2>1 DEF Reaches
<1>12. ASSUME NEW k \in 0..(m - 1) PROVE F[k + 1] = AfterResult(F[k], seq[k + 1])
  <2>1. F[k] \in Drawdown /\ seq[k + 1] \in Int
    OBVIOUS
  <2> QED
    BY <1>4, <1>11, <2>1
<1> QED
  BY <1>2, <1>11, <1>12

(* A sum is an integer, and one of naturals is zero exactly if each of     *)
(* them is.                                                                *)
First(s) == CHOOSE x \in s : TRUE
IsSum(g, v, I) ==
  g = [s \in SUBSET I |-> IF s = {} THEN 0 ELSE v[First(s)] + g[s \ {First(s)}]]

LEMMA SumExists ==
  ASSUME NEW I, IsFiniteSet(I), NEW v \in [I -> Int]
  PROVE  \E g : IsSum(g, v, I)
<1> DEFINE o == [x \in Int |-> [y \in Int |-> y + x]]
           last == [s \in SUBSET I |-> First(s)]
<1>1. \A s \in SUBSET I : last[s] = First(s) /\ (s # {} => First(s) \in s)
  BY DEF First
<1>2. o \in [Int -> [Int -> Int]] /\ \A x, y \in Int : o[x][y] = y + x
  OBVIOUS
<1> HIDE DEF o, last
<1>3. Foldable(Int, Int, 0, o, I, v, last)
  <2>1. \A s \in SUBSET I : s # {} => last[s] \in s
    BY <1>1, Zenon
  <2>2. 0 \in Int
    OBVIOUS
  <2> QED
    BY <1>2, <2>1, <2>2, Zenon DEF Foldable
<1>4. HasFold(Int, 0, o, I, v, last)
  BY <1>3, FoldExists
<1>5. PICK g \in [SUBSET I -> Int] : \A s \in SUBSET I : FoldsTo(g, 0, o, v, last, s)
  BY <1>4 DEF HasFold
<1>6. ASSUME NEW s \in SUBSET I
      PROVE  g[s] = IF s = {} THEN 0 ELSE v[First(s)] + g[s \ {First(s)}]
  <2>1. g[s] = IF s = {} THEN 0 ELSE o[g[s \ {First(s)}]][v[First(s)]]
    BY <1>1, <1>5 DEF FoldsTo
  <2>2. s # {} => g[s \ {First(s)}] \in Int /\ v[First(s)] \in Int
    BY <1>1
  <2> QED
    BY <1>2, <2>1, <2>2
<1> QED
  BY <1>6 DEF IsSum

LEMMA SumOf ==
  ASSUME NEW I, IsFiniteSet(I), NEW v \in [I -> Int]
  PROVE  /\ SumFunction(v) \in Int
         /\ (\A i \in I : v[i] >= 0) =>
              SumFunction(v) >= 0 /\ (SumFunction(v) = 0 <=> \A i \in I : v[i] = 0)
<1> DEFINE c == CHOOSE g : IsSum(g, v, I)
           Right(s) ==
             /\ c[s] \in Int
             /\ (\A i \in s : v[i] >= 0) => c[s] >= 0 /\ (c[s] = 0 <=> \A i \in s : v[i] = 0)
           T == {n \in Nat : \A s \in SUBSET I : Cardinality(s) = n => Right(s)}
<1>1. SumFunction(v) = c[I]
  <2>1. DOMAIN v = I
    OBVIOUS
  <2> QED
    BY <2>1 DEF SumFunction, SumFunctionOnSet, FoldFunctionOnSet, MapThenFoldSet, IsSum, First
<1>2. IsSum(c, v, I)
  BY SumExists
<1> HIDE DEF c
<1>3. \A s \in SUBSET I : c[s] = IF s = {} THEN 0 ELSE v[First(s)] + c[s \ {First(s)}]
  BY <1>2 DEF IsSum
<1>4. \A s \in SUBSET I : IsFiniteSet(s) /\ Cardinality(s) \in Nat
  BY FS_Subset, FS_CardinalityType
<1>5. 0 \in T
  <2>1. \A s \in SUBSET I : Cardinality(s) = 0 => s = {}
    BY <1>4, FS_EmptySet
  <2>2. {} \in SUBSET I /\ c[{}] = 0
    BY <1>3
  <2>3. Right({})
    BY <2>2
  <2> HIDE DEF Right
  <2> QED
    BY <2>1, <2>3
<1>6. ASSUME NEW n \in T PROVE n + 1 \in T
  <2> SUFFICES ASSUME NEW s \in SUBSET I, Cardinality(s) = n + 1 PROVE Right(s)
    OBVIOUS
  <2> DEFINE x == First(s)
             r == s \ {x}
  <2>1. s # {}
    <3>1. n \in Nat
      OBVIOUS
    <3>2. Cardinality(s) # 0
      <4> HIDE DEF T
      <4> QED
        BY <3>1
    <3> QED
      BY <3>2, FS_EmptySet
  <2>2. x \in s
    BY <2>1 DEF First
  <2>3. r \in SUBSET I /\ Cardinality(r) = n
    <3>1. Cardinality(r) = Cardinality(s) - 1
      BY <1>4, <2>2, FS_RemoveElement
    <3>2. n \in Nat
      OBVIOUS
    <3> HIDE DEF x
    <3> QED
      BY <3>1, <3>2
  <2>4. Right(r)
    BY <2>3
  <2>5. c[s] = v[x] + c[r] /\ v[x] \in Int
    BY <1>3, <2>1, <2>2
  <2>6. /\ (\A i \in s : v[i] = 0) <=> v[x] = 0 /\ \A i \in r : v[i] = 0
        /\ (\A i \in s : v[i] >= 0) <=> v[x] >= 0 /\ \A i \in r : v[i] >= 0
    BY <2>2
  <2> HIDE DEF x, r
  <2> QED
    BY <2>4, <2>5, <2>6
<1>7. T = Nat
  <2> HIDE DEF T
  <2> T \in SUBSET Nat
    BY DEF T
  <2> QED
    BY <1>5, <1>6, AllNaturals
<1>8. Right(I)
  <2>1. \A n \in T : \A s \in SUBSET I : Cardinality(s) = n => Right(s)
    OBVIOUS
  <2> HIDE DEF T, Right
  <2>2. Cardinality(I) \in T
    BY <1>4, <1>7
  <2> QED
    BY <2>1, <2>2
<1> QED
  BY <1>1, <1>8

(* Losses as fractions.  A loss that does not exceed num/den from a peak   *)
(* does not exceed it from anything below the peak.                        *)
LEMMA LossFromBelow ==
  ASSUME NEW x \in Int, NEW peak \in Int, NEW e \in Int, NEW num \in Int, NEW den \in Int,
         0 < x, x <= peak, 0 <= e, 0 < den, (peak - e) * den <= num * peak
  PROVE  (x - e) * den <= num * x
<1> DEFINE d == den - num
<1>1. d \in Int /\ num = den - d
  OBVIOUS
<1>2. (peak - e) * den = den * peak - den * e /\ (x - e) * den = den * x - den * e
  OBVIOUS
<1>3. num * peak = den * peak - d * peak /\ num * x = den * x - d * x
  OBVIOUS
<1>4. den * e >= 0 /\ den * e \in Int
  OBVIOUS
<1> HIDE DEF d
<1>5. d * peak <= den * e
  <2>1. /\ den * peak \in Int /\ d * peak \in Int /\ den * e \in Int
        /\ den * peak - den * e <= den * peak - d * peak
    BY <1>1, <1>2, <1>3, <1>4
  <2> QED
    BY <2>1
<1>6. d * x <= den * e
  <2>1. CASE d >= 0
    <3>1. d * (peak - x) >= 0 /\ d * (peak - x) = d * peak - d * x
      BY <1>1, <2>1
    <3>2. d * peak \in Int /\ d * x \in Int
      BY <1>1
    <3> QED
      BY <1>4, <1>5, <3>1, <3>2
  <2>2. CASE d < 0
    <3>1. d * x <= 0 /\ d * x \in Int
      BY <1>1, <2>2
    <3> QED
      BY <1>4, <3>1
  <2> QED
    BY <1>1, <2>1, <2>2
<1>7. den * x - den * e <= den * x - d * x
  <2>1. den * x \in Int /\ d * x \in Int /\ den * e \in Int
    BY <1>1
  <2> QED
    BY <1>6, <2>1
<1> QED
  BY <1>2, <1>3, <1>7

(* A loss that exceeds num/den exceeds every loss that does not. *)
LEMMA LossExceeds ==
  ASSUME NEW x \in Int, NEW y \in Int, NEW p \in Int, NEW e \in Int,
         NEW num \in Int, NEW den \in Int, 0 < x, 0 < p, 0 < den,
         (x - y) * den <= num * x, num * p < (p - e) * den
  PROVE  (x - y) * p <= (p - e) * x
<1> DEFINE u == x - y
           v == p - e
<1>1. u \in Int /\ v \in Int /\ u * den <= num * x /\ num * p < v * den
  OBVIOUS
<1> HIDE DEF u, v
<1>2. (num * x - u * den) * p >= 0
  <2>1. num * x - u * den \in Int /\ num * x - u * den >= 0
    BY <1>1
  <2> DEFINE z == num * x - u * den
  <2> HIDE DEF z
  <2> QED
    BY <2>1 DEF z
<1>3. (v * den - num * p) * x >= 0
  <2>1. v * den - num * p \in Int /\ v * den - num * p >= 0
    BY <1>1
  <2> DEFINE z == v * den - num * p
  <2> HIDE DEF z
  <2> QED
    BY <2>1 DEF z
<1>4. (num * x - u * den) * p = num * x * p - (u * p) * den
  BY <1>1
<1>5. (v * den - num * p) * x = (v * x) * den - num * x * p
  BY <1>1
<1> DEFINE a == u * p
           b == v * x
           c == num * x * p
<1>6. a \in Int /\ b \in Int /\ c \in Int
  BY <1>1
<1>7. c - a * den >= 0 /\ b * den - c >= 0
  BY <1>2, <1>3, <1>4, <1>5
<1> HIDE DEF a, b, c
<1>8. a <= b
  <2> SUFFICES ASSUME a >= b + 1 PROVE FALSE
    BY <1>6
  <2>1. (a - b - 1) * den >= 0 /\ (a - b - 1) * den = a * den - b * den - den
    BY <1>6
  <2>2. a * den \in Int /\ b * den \in Int
    BY <1>6
  <2> QED
    BY <1>6, <1>7, <2>1, <2>2
<1> QED
  BY <1>8 DEF a, b, u, v

(* Another day to the scale does not change a loss. *)
LEMMA LossScales ==
  ASSUME NEW x \in Int, NEW y \in Int, NEW num \in Int, NEW den \in Int, NEW w \in Nat \ {0}
  PROVE  /\ (x - y) * den <= num * x => (x * w - y * w) * den <= num * (x * w)
         /\ (x - y) * den = num * x => (x * w - y * w) * den = num * (x * w)
<1> DEFINE l == (x - y) * den
           r == num * x
<1>1. l \in Int /\ r \in Int
  OBVIOUS
<1>2. (x * w - y * w) * den = l * w /\ num * (x * w) = r * w
  OBVIOUS
<1> HIDE DEF l, r
<1>3. l <= r => l * w <= r * w
  BY <1>1
<1>4. (l <= r => (x * w - y * w) * den <= num * (x * w))
      /\ (l = r => (x * w - y * w) * den = num * (x * w))
  BY <1>2, <1>3
<1> QED
  BY <1>4 DEF l, r

(* The books of m days with results R: E[a][k] is the equity after k days  *)
(* if nothing is earned after day a, D[k] what the single pass knows.      *)
Books(m, R, E, D) ==
  /\ m \in Nat /\ R \in [1..m -> Int] /\ \A n \in 1..m : Whole + R[n] >= 0
  /\ E \in [0..m -> [0..m -> Int]] /\ \A a \in 0..m : E[a][0] = 1
  /\ \A a \in 0..m, k \in 0..(m - 1) :
       E[a][k + 1] = Grows(E[a][k], IF k + 1 <= a THEN R[k + 1] ELSE 0)
  /\ D \in [0..m -> Drawdown] /\ D[0] = DrawdownStart
  /\ \A k \in 0..(m - 1) : D[k + 1] = AfterResult(D[k], R[k + 1])

(* After k days: the equity is that of the books, the peak the greatest so *)
(* far, and no loss from one day to a later one exceeds the worst, which   *)
(* is one of them.                                                         *)
EquityKept(m, E, D, k) ==
  D[k].equity = E[k][k] /\ E[k][k] >= 0 /\ \A a \in k..m : E[a][k] = E[k][k]
PeakKept(E, D, k) ==
  /\ \A a \in 0..k : 0 <= E[a][k] /\ E[a][k] <= D[k].peak
  /\ \E a \in 0..k : E[a][k] = D[k].peak
  /\ 0 < E[0][k]
LossBounded(E, D, k) ==
  /\ 0 < D[k].den
  /\ \A a \in 0..k : E[a][k] > 0 => \A b \in a..k :
       (E[a][k] - E[b][k]) * D[k].den <= D[k].num * E[a][k]
LossReached(E, D, k) ==
  \E a \in 0..k, b \in 0..k : a <= b /\
    (E[a][k] - E[b][k]) * D[k].den = D[k].num * E[a][k]
WorstKept(m, E, D, k) ==
  EquityKept(m, E, D, k) /\ PeakKept(E, D, k) /\ LossBounded(E, D, k) /\ LossReached(E, D, k)

(* One more result, in the books and in the pass. *)
LEMMA BooksStep ==
  ASSUME NEW m, NEW R, NEW E, NEW D, Books(m, R, E, D), NEW k \in 0..(m - 1),
         WorstKept(m, E, D, k)
  PROVE  /\ m \in Nat /\ k \in 0..m /\ k + 1 \in 0..m
         /\ \A a \in 0..m : E[a][k] \in Int /\ E[a][k + 1] \in Int
         /\ D[k] \in Drawdown /\ D[k + 1] = AfterResult(D[k], R[k + 1])
         /\ R[k + 1] \in Int /\ Whole + R[k + 1] >= 0 /\ Whole \in Nat \ {0}
         /\ \A a \in 0..k : E[a][k + 1] = E[a][k] * Whole
         /\ \A a \in (k + 1)..m : E[a][k + 1] = D[k].equity * (Whole + R[k + 1])
<1>1. /\ m \in Nat /\ R \in [1..m -> Int] /\ \A n \in 1..m : Whole + R[n] >= 0
      /\ E \in [0..m -> [0..m -> Int]] /\ D \in [0..m -> Drawdown]
      /\ D[k + 1] = AfterResult(D[k], R[k + 1])
      /\ \A a \in 0..m : E[a][k + 1] = Grows(E[a][k], IF k + 1 <= a THEN R[k + 1] ELSE 0)
  BY DEF Books
<1>2. k \in 0..m /\ k + 1 \in 0..m /\ k + 1 \in 1..m
  BY <1>1
<1>3. R[k + 1] \in Int /\ Whole + R[k + 1] >= 0 /\ Whole \in Nat \ {0}
  BY <1>1, <1>2, WholeTyped
<1>4. \A a \in 0..m : E[a][k] \in Int /\ E[a][k + 1] \in Int
  BY <1>1, <1>2
<1>5. ASSUME NEW a \in 0..k PROVE E[a][k + 1] = E[a][k] * Whole
  <2>1. a \in 0..m /\ ~(k + 1 <= a)
    BY <1>1
  <2>2. E[a][k + 1] = E[a][k] * (Whole + 0)
    BY <1>1, <2>1 DEF Grows
  <2> QED
    BY <1>3, <2>2
<1>6. ASSUME NEW a \in (k + 1)..m
      PROVE  E[a][k + 1] = D[k].equity * (Whole + R[k + 1])
  <2>1. a \in 0..m /\ k + 1 <= a /\ a \in k..m
    BY <1>1
  <2>2. E[a][k] = D[k].equity
    BY <2>1 DEF WorstKept, EquityKept
  <2> QED
    BY <1>1, <2>1, <2>2 DEF Grows
<1> QED
  BY <1>1, <1>2, <1>3, <1>4, <1>5, <1>6

LEMMA WorstStep ==
  ASSUME NEW m, NEW R, NEW E, NEW D, Books(m, R, E, D), NEW k \in 0..(m - 1),
         WorstKept(m, E, D, k)
  PROVE  WorstKept(m, E, D, k + 1)
<1> DEFINE r == R[k + 1]
           w == Whole
           x(a) == E[a][k]
           y(a) == E[a][k + 1]
           eq == D[k].equity
           pk == D[k].peak
           nm == D[k].num
           dn == D[k].den
           eq1 == eq * (w + r)
           pk1 == IF eq1 > pk * w THEN eq1 ELSE pk * w
           worse == (pk1 - eq1) * dn > nm * pk1
           nm1 == IF worse THEN pk1 - eq1 ELSE nm
           dn1 == IF worse THEN pk1 ELSE dn
<1>1. /\ m \in Nat /\ k \in Nat /\ k + 1 <= m
      /\ r \in Int /\ w + r >= 0 /\ w \in Nat \ {0}
  BY BooksStep
<1>2. \A a \in 0..m : x(a) \in Int /\ y(a) \in Int
  BY BooksStep
<1>3. \A a \in 0..k : y(a) = x(a) * w
  BY BooksStep
<1>4. \A a \in (k + 1)..m : y(a) = eq1
  BY BooksStep
<1>5. /\ eq \in Int /\ pk \in Int /\ nm \in Int /\ dn \in Int
      /\ D[k + 1] = AfterResult(D[k], r)
  BY BooksStep DEF Drawdown
<1>6. /\ D[k + 1].equity = eq1 /\ D[k + 1].peak = pk1
      /\ D[k + 1].num = nm1 /\ D[k + 1].den = dn1
  BY <1>5 DEF AfterResult
<1>7. /\ eq = x(k) /\ x(k) >= 0
      /\ \A a \in 0..k : 0 <= x(a) /\ x(a) <= pk
      /\ \E a \in 0..k : x(a) = pk
      /\ 0 < x(0) /\ 0 < dn
  BY DEF WorstKept, EquityKept, PeakKept, LossBounded
<1>8. \A a \in 0..k : x(a) > 0 => \A b \in a..k : (x(a) - x(b)) * dn <= nm * x(a)
  BY DEF WorstKept, LossBounded
<1>9. \E a \in 0..k, b \in 0..k : a <= b /\ (x(a) - x(b)) * dn = nm * x(a)
  BY DEF WorstKept, LossReached
<1> HIDE DEF x, y, r, w, eq, pk, nm, dn
<1>10. /\ eq1 \in Int /\ eq1 >= 0 /\ pk1 \in Int /\ eq1 <= pk1 /\ pk * w <= pk1
       /\ pk > 0 /\ pk * w > 0
  <2>1. 0 \in 0..k
    BY <1>1
  <2>2. pk > 0
    BY <1>2, <1>5, <1>7, <2>1, <1>1
  <2>3. pk * w > 0 /\ pk * w \in Int
    BY <1>1, <1>5, <2>2
  <2>4. eq1 \in Int /\ eq1 >= 0
    <3>1. eq >= 0 /\ eq \in Int /\ w + r >= 0 /\ w + r \in Int
      BY <1>1, <1>5, <1>7
    <3> DEFINE f == w + r
    <3> HIDE DEF f
    <3>2. eq * f \in Int /\ eq * f >= 0
      BY <3>1 DEF f
    <3> QED
      BY <3>2 DEF f
  <2> HIDE DEF eq1
  <2> QED
    BY <2>2, <2>3, <2>4
<1> HIDE DEF eq1, pk1, worse
<1>11. EquityKept(m, E, D, k + 1)
  <2>1. k + 1 \in (k + 1)..m
    BY <1>1
  <2>2. y(k + 1) = eq1
    BY <1>4, <2>1
  <2> QED
    BY <1>4, <1>6, <1>10, <2>2 DEF EquityKept, y
(* The days before and the new one. *)
<1>12. \A a \in 0..(k + 1) : a \in 0..k \/ (a = k + 1 /\ y(a) = eq1)
  BY <1>1, <1>4
<1>13. \A a \in 0..k : 0 <= y(a) /\ y(a) <= pk * w
  <2> SUFFICES ASSUME NEW a \in 0..k PROVE 0 <= y(a) /\ y(a) <= pk * w
    OBVIOUS
  <2>1. x(a) \in Int /\ 0 <= x(a) /\ x(a) <= pk /\ y(a) = x(a) * w
    BY <1>1, <1>2, <1>3, <1>7
  <2>2. 0 <= x(a) * w
    BY <1>1, <2>1
  <2>3. (pk - x(a)) * w >= 0 /\ (pk - x(a)) * w = pk * w - x(a) * w
    BY <1>1, <1>5, <2>1
  <2>4. pk * w \in Int /\ x(a) * w \in Int
    BY <1>1, <1>5, <2>1
  <2> QED
    BY <2>1, <2>2, <2>3, <2>4
<1>14. \E a \in 0..(k + 1) : y(a) = pk1
  <2>1. CASE pk1 = eq1
    <3>1. k + 1 \in 0..(k + 1) /\ y(k + 1) = eq1
      BY <1>1, <1>4
    <3> QED
      BY <2>1, <3>1
  <2>2. CASE pk1 = pk * w
    <3>1. PICK a \in 0..k : x(a) = pk
      BY <1>7
    <3>2. a \in 0..(k + 1) /\ y(a) = pk1
      BY <1>1, <1>3, <2>2, <3>1
    <3> QED
      BY <3>2
  <2> QED
    BY <2>1, <2>2 DEF pk1
<1>15. PeakKept(E, D, k + 1)
  <2>1. \A a \in 0..(k + 1) : 0 <= y(a) /\ y(a) <= pk1
    <3> SUFFICES ASSUME NEW a \in 0..(k + 1) PROVE 0 <= y(a) /\ y(a) <= pk1
      OBVIOUS
    <3>1. y(a) \in Int
      BY <1>1, <1>2
    <3>2. CASE a \in 0..k
      <4>1. 0 <= y(a) /\ y(a) <= pk * w /\ pk * w \in Int
        BY <1>1, <1>5, <1>13, <3>2
      <4> QED
        BY <1>10, <3>1, <4>1
    <3>3. CASE a = k + 1 /\ y(a) = eq1
      BY <1>10, <3>3
    <3> QED
      BY <1>12, <3>2, <3>3
  <2>2. 0 < y(0)
    <3>1. 0 \in 0..k /\ 0 \in 0..m
      BY <1>1
    <3>2. y(0) = x(0) * w /\ x(0) \in Int /\ 0 < x(0)
      BY <1>2, <1>3, <1>7, <3>1
    <3> QED
      BY <1>1, <3>2
  <2> QED
    BY <1>6, <1>14, <2>1, <2>2 DEF PeakKept, y
(* The worst loss to the new day is from the peak. *)
<1>16. /\ nm1 \in Int /\ dn1 \in Int /\ 0 < dn1
       /\ (pk1 - eq1) * dn1 <= nm1 * pk1
       /\ worse => nm1 = pk1 - eq1 /\ dn1 = pk1 /\ nm * pk1 < (pk1 - eq1) * dn
       /\ ~worse => nm1 = nm /\ dn1 = dn
  <2>1. pk1 > 0 /\ dn > 0
    BY <1>1, <1>5, <1>7, <1>10
  <2>2. CASE worse
    BY <1>5, <1>10, <2>1, <2>2 DEF worse
  <2>3. CASE ~worse
    BY <1>5, <1>10, <2>1, <2>3 DEF worse
  <2> QED
    BY <2>2, <2>3
<1> HIDE DEF nm1, dn1
<1>17. \A a \in 0..(k + 1) : y(a) > 0 => (y(a) - eq1) * dn1 <= nm1 * y(a)
  <2> SUFFICES ASSUME NEW a \in 0..(k + 1), y(a) > 0
               PROVE  (y(a) - eq1) * dn1 <= nm1 * y(a)
    OBVIOUS
  <2>1. y(a) \in Int /\ y(a) <= pk1
    <3>1. y(a) \in Int
      BY <1>1, <1>2
    <3>2. y(a) <= pk1
      BY <1>6, <1>15 DEF PeakKept, y
    <3> QED
      BY <3>1, <3>2
  <2> QED
    BY <1>10, <1>16, <2>1, LossFromBelow
<1>18. ASSUME NEW a \in 0..k, y(a) > 0, NEW b \in a..k
       PROVE  (y(a) - y(b)) * dn1 <= nm1 * y(a)
  <2>1. /\ b \in 0..k /\ x(a) \in Int /\ x(b) \in Int /\ y(a) = x(a) * w /\ y(b) = x(b) * w
        /\ y(a) \in Int /\ y(b) \in Int
    BY <1>1, <1>2, <1>3
  <2>2. x(a) > 0
    <3>1. x(a) >= 0 /\ x(a) # 0
      BY <1>1, <1>7, <1>18, <2>1
    <3> QED
      BY <2>1, <3>1
  <2>3. (x(a) - x(b)) * dn <= nm * x(a)
    BY <1>8, <2>2
  <2>4. (y(a) - y(b)) * dn <= nm * y(a)
    BY <1>1, <1>5, <2>1, <2>3, LossScales
  <2>5. CASE worse
    <3>1. (y(a) - y(b)) * pk1 <= (pk1 - eq1) * y(a)
      <4>1. 0 < pk1
        BY <1>16, <2>5
      <4> QED
        BY <1>5, <1>7, <1>10, <1>16, <1>18, <2>1, <2>4, <2>5, <4>1, LossExceeds
    <3> QED
      BY <1>16, <2>5, <3>1
  <2>6. CASE ~worse
    BY <1>16, <2>4, <2>6
  <2> QED
    BY <2>5, <2>6
<1>19. LossBounded(E, D, k + 1)
  <2>1. ASSUME NEW a \in 0..(k + 1), y(a) > 0, NEW b \in a..(k + 1)
        PROVE  (y(a) - y(b)) * dn1 <= nm1 * y(a)
    <3>1. CASE b = k + 1
      <4>1. y(b) = eq1
        BY <1>1, <1>4, <3>1
      <4> QED
        BY <1>17, <2>1, <4>1
    <3>2. CASE b # k + 1
      <4>1. a \in 0..k /\ b \in a..k
        BY <1>1, <3>2
      <4> QED
        BY <1>18, <2>1, <4>1
    <3> QED
      BY <3>1, <3>2
  <2> QED
    BY <1>6, <1>16, <2>1 DEF LossBounded, y
<1>20. LossReached(E, D, k + 1)
  <2>1. CASE worse
    <3>1. PICK a \in 0..(k + 1) : y(a) = pk1
      BY <1>14
    <3>2. a \in 0..(k + 1) /\ k + 1 \in 0..(k + 1) /\ a <= k + 1 /\ y(k + 1) = eq1
      BY <1>1, <1>4
    <3>3. (y(a) - y(k + 1)) * dn1 = nm1 * y(a)
      BY <1>10, <1>16, <2>1, <3>1, <3>2
    <3> QED
      BY <1>6, <3>2, <3>3 DEF LossReached, y
  <2>2. CASE ~worse
    <3>1. PICK a \in 0..k, b \in 0..k : a <= b /\ (x(a) - x(b)) * dn = nm * x(a)
      BY <1>9
    <3>2. /\ a \in 0..(k + 1) /\ b \in 0..(k + 1) /\ x(a) \in Int /\ x(b) \in Int
          /\ y(a) = x(a) * w /\ y(b) = x(b) * w
      BY <1>1, <1>2, <1>3
    <3>3. (y(a) - y(b)) * dn = nm * y(a)
      <4>1. w \in Nat \ {0} /\ nm \in Int /\ dn \in Int /\ x(a) \in Int /\ x(b) \in Int
        BY <1>1, <1>5, <3>2
      <4>2. \A u, v \in Int :
              (u - v) * dn = nm * u => (u * w - v * w) * dn = nm * (u * w)
        BY <4>1, LossScales
      <4>3. (x(a) * w - x(b) * w) * dn = nm * (x(a) * w)
        BY <3>1, <4>1, <4>2
      <4> QED
        BY <3>2, <4>3
    <3>4. (y(a) - y(b)) * dn1 = nm1 * y(a)
      BY <1>16, <2>2, <3>3
    <3> QED
      BY <1>6, <3>1, <3>2, <3>4 DEF LossReached, y
  <2> QED
    BY <2>1, <2>2
<1> QED
  BY <1>11, <1>15, <1>19, <1>20 DEF WorstKept

LEMMA WorstAlways ==
  ASSUME NEW m, NEW R, NEW E, NEW D, Books(m, R, E, D)
  PROVE  WorstKept(m, E, D, m)
<1> DEFINE T == {k \in Nat : k <= m => WorstKept(m, E, D, k)}
<1>1. m \in Nat /\ \A a \in 0..m : E[a][0] = 1
  BY DEF Books
<1>2. D[0] = DrawdownStart
  BY DEF Books
<1>3. 0 \in T
  <2>1. /\ D[0].equity = 1 /\ D[0].peak = 1 /\ D[0].num = 0 /\ D[0].den = 1
        /\ E[0][0] = 1 /\ 0..0 = {0} /\ 0 \in 0..m
    BY <1>1, <1>2 DEF DrawdownStart
  <2>2. EquityKept(m, E, D, 0)
    BY <1>1, <2>1 DEF EquityKept
  <2>3. PeakKept(E, D, 0)
    BY <2>1 DEF PeakKept
  <2>4. LossBounded(E, D, 0)
    BY <2>1 DEF LossBounded
  <2>5. LossReached(E, D, 0)
    BY <2>1 DEF LossReached
  <2> QED
    BY <2>2, <2>3, <2>4, <2>5 DEF WorstKept
<1>4. ASSUME NEW k \in T PROVE k + 1 \in T
  <2> SUFFICES ASSUME k + 1 <= m PROVE WorstKept(m, E, D, k + 1)
    OBVIOUS
  <2>1. k \in 0..(m - 1) /\ WorstKept(m, E, D, k)
    BY <1>1
  <2> QED
    BY <2>1, WorstStep
<1>5. T = Nat
  <2> HIDE DEF T
  <2> T \in SUBSET Nat
    BY DEF T
  <2> QED
    BY <1>3, <1>4, AllNaturals
<1> QED
  BY <1>1, <1>5

(* The worst loss of the pass is that of the results, and none without any *)
(* result.                                                                 *)
Path(F, m, seq) ==
  /\ F \in [0..m -> Int] /\ F[0] = 1 /\ Equity(seq) = F[m]
  /\ \A k \in 0..(m - 1) : F[k + 1] = Grows(F[k], seq[k + 1])

LEMMA BooksExist ==
  ASSUME NEW m \in Nat, NEW R \in [1..m -> Int], \A n \in 1..m : Whole + R[n] >= 0
  PROVE  \E E, D : /\ Books(m, R, E, D) /\ MaxDrawdown(R) = D[m]
                   /\ \A a \in 0..m : Equity(EarnedUpTo(a, R)) = E[a][m]
<1> DEFINE E == [a \in 0..m |-> CHOOSE F : Path(F, m, EarnedUpTo(a, R))]
<1>1. ASSUME NEW a \in 0..m
      PROVE  /\ EarnedUpTo(a, R) \in [1..m -> Int]
             /\ \A k \in 0..(m - 1) :
                  EarnedUpTo(a, R)[k + 1] = IF k + 1 <= a THEN R[k + 1] ELSE 0
             /\ Path(E[a], m, EarnedUpTo(a, R))
  <2>1. EarnedUpTo(a, R) \in [1..m -> Int]
    BY DEF EarnedUpTo
  <2>2. \A k \in 0..(m - 1) : EarnedUpTo(a, R)[k + 1] = IF k + 1 <= a THEN R[k + 1] ELSE 0
    BY DEF EarnedUpTo
  <2> DEFINE seq == EarnedUpTo(a, R)
  <2>3. \E F : Path(F, m, seq)
    <3> HIDE DEF seq
    <3>1. seq \in [1..m -> Int]
      BY <2>1 DEF seq
    <3>2. PICK F \in [0..m -> Int] :
            /\ F[0] = 1 /\ Equity(seq) = F[m]
            /\ \A k \in 0..(m - 1) : F[k + 1] = Grows(F[k], seq[k + 1])
      BY <3>1, EquitySteps
    <3>3. Path(F, m, seq)
      BY <3>2 DEF Path
    <3> QED
      BY <3>3
  <2> QED
    BY <2>1, <2>2, <2>3
<1> HIDE DEF E
<1>2. PICK D \in [0..m -> Drawdown] :
        /\ D[0] = DrawdownStart /\ MaxDrawdown(R) = D[m]
        /\ \A k \in 0..(m - 1) : D[k + 1] = AfterResult(D[k], R[k + 1])
  BY DrawdownSteps
<1>3. E \in [0..m -> [0..m -> Int]]
  <2>1. E = [a \in 0..m |-> E[a]]
    BY DEF E
  <2>2. \A a \in 0..m : E[a] \in [0..m -> Int]
    BY <1>1 DEF Path
  <2> QED
    BY <2>1, <2>2
<1>4. \A a \in 0..m : E[a][0] = 1 /\ Equity(EarnedUpTo(a, R)) = E[a][m]
  BY <1>1 DEF Path
<1>5. \A a \in 0..m, k \in 0..(m - 1) :
        E[a][k + 1] = Grows(E[a][k], IF k + 1 <= a THEN R[k + 1] ELSE 0)
  BY <1>1 DEF Path
<1>6. Books(m, R, E, D)
  BY <1>2, <1>3, <1>4, <1>5 DEF Books
<1> QED
  BY <1>2, <1>4, <1>6

LEMMA PassIsWorst ==
  ASSUME NEW m \in Nat, NEW R \in [1..m -> Int]
  PROVE  /\ DrawdownIsWorst(MaxDrawdown(R), R)
         /\ (\A n \in 1..m : R[n] = 0) => MaxDrawdown(R).num = 0
<1>1. Len(R) = m /\ ToSet(R) = {R[n] : n \in 1..m}
  <2>1. R \in Seq(Int) /\ DOMAIN R = 1..m
    OBVIOUS
  <2> QED
    BY <2>1 DEF ToSet
<1>2. ASSUME \A n \in 1..m : Whole + R[n] >= 0
      PROVE  /\ DrawdownIsWorst(MaxDrawdown(R), R)
             /\ (\A n \in 1..m : R[n] = 0) => MaxDrawdown(R).num = 0
  <2>1. PICK E, D : /\ Books(m, R, E, D) /\ MaxDrawdown(R) = D[m]
                    /\ \A a \in 0..m : Equity(EarnedUpTo(a, R)) = E[a][m]
    BY <1>2, BooksExist
  <2> DEFINE equity == [a \in 0..m |-> Equity(EarnedUpTo(a, R))]
  <2>2. \A a \in 0..m : equity[a] = E[a][m] /\ E[a][m] \in Int
    BY <2>1 DEF Books
  <2>3. WorstKept(m, E, D, m) /\ D[m] \in Drawdown
    <3>1. WorstKept(m, E, D, m)
      BY <2>1, WorstAlways
    <3>2. D \in [0..m -> Drawdown]
      BY <2>1 DEF Books
    <3> QED
      BY <3>1, <3>2
  <2> HIDE DEF equity
  <2>4. \A a \in 0..m : equity[a] > 0 => \A b \in a..m :
          (equity[a] - equity[b]) * D[m].den <= D[m].num * equity[a]
    <3> SUFFICES ASSUME NEW a \in 0..m, equity[a] > 0, NEW b \in a..m
                 PROVE  (equity[a] - equity[b]) * D[m].den <= D[m].num * equity[a]
      OBVIOUS
    <3>1. b \in 0..m
      OBVIOUS
    <3>2. equity[a] = E[a][m] /\ equity[b] = E[b][m]
      BY <2>2, <3>1
    <3>3. E[a][m] > 0 => (E[a][m] - E[b][m]) * D[m].den <= D[m].num * E[a][m]
      BY <2>3 DEF WorstKept, LossBounded
    <3> QED
      BY <3>2, <3>3
  <2>5. PICK a \in 0..m, b \in 0..m :
          a <= b /\ (E[a][m] - E[b][m]) * D[m].den = D[m].num * E[a][m]
    BY <2>3 DEF WorstKept, LossReached
  <2>6. (equity[a] - equity[b]) * D[m].den = D[m].num * equity[a]
    <3>1. equity[a] = E[a][m] /\ equity[b] = E[b][m]
      BY <2>2
    <3> QED
      BY <2>5, <3>1
  <2>7. DrawdownIsWorst(MaxDrawdown(R), R)
    BY <1>1, <2>1, <2>4, <2>5, <2>6 DEF DrawdownIsWorst, equity
  <2>8. ASSUME \A n \in 1..m : R[n] = 0 PROVE MaxDrawdown(R).num = 0
    <3>1. \A c \in 0..m : EarnedUpTo(c, R) = EarnedUpTo(0, R)
      BY <2>8 DEF EarnedUpTo
    <3>2. E[a][m] = E[0][m] /\ E[b][m] = E[0][m]
      <4>1. 0 \in 0..m
        OBVIOUS
      <4> QED
        BY <2>1, <3>1, <4>1
    <3>3. E[0][m] > 0 /\ E[0][m] \in Int
      BY <2>2, <2>3 DEF WorstKept, PeakKept
    <3>4. D[m].num \in Int /\ D[m].den \in Int
      BY <2>3 DEF Drawdown
    <3>5. 0 = D[m].num * E[0][m]
      BY <2>5, <3>2, <3>3, <3>4
    <3> QED
      BY <2>1, <3>3, <3>4, <3>5
  <2> QED
    BY <2>7, <2>8
<1>3. ASSUME ~(\A n \in 1..m : Whole + R[n] >= 0) PROVE DrawdownIsWorst(MaxDrawdown(R), R)
  BY <1>1, <1>3 DEF DrawdownIsWorst
<1>4. (\A n \in 1..m : R[n] = 0) => \A n \in 1..m : Whole + R[n] >= 0
  BY WholeTyped
<1> QED
  BY <1>2, <1>3, <1>4

(* A window is quiet if nothing changes hands in it.                       *)
Quiet == \A t \in Columns, i \in Fold : Weight(t, i) = Held(t, i)

LEMMA TradedIs ==
  ASSUME NEW i
  PROVE  /\ Traded(i) \in Int /\ Traded(i) >= 0
         /\ Traded(i) = 0 <=> \A t \in Columns : Weight(t, i) = Held(t, i)
<1> DEFINE v == [t \in Tickers |-> IF t \in Columns THEN Distance(Weight(t, i), Held(t, i)) ELSE 0]
<1>1. ASSUME NEW t \in Tickers
      PROVE  /\ Distance(Weight(t, i), Held(t, i)) \in Int
             /\ Distance(Weight(t, i), Held(t, i)) >= 0
             /\ Distance(Weight(t, i), Held(t, i)) = 0 <=> Weight(t, i) = Held(t, i)
  <2>1. Weight(t, i) \in Int /\ Held(t, i) \in Int
    BY DEF Weight, Held, RankWeight
  <2> QED
    BY <2>1 DEF Distance
<1>2. v \in [Tickers -> Int] /\ \A t \in Tickers : v[t] >= 0
  BY <1>1
<1>3. (\A t \in Tickers : v[t] = 0) <=> \A t \in Columns : Weight(t, i) = Held(t, i)
  BY <1>1 DEF Columns
<1>4. Traded(i) = SumFunction(v)
  BY DEF Traded, SumOver
<1> HIDE DEF v
<1>5. SumFunction(v) \in Int /\ (SumFunction(v) = 0 <=> \A t \in Tickers : v[t] = 0)
  BY <1>2, TickersListed, SumOf
<1>6. SumFunction(v) >= 0
  BY <1>2, TickersListed, SumOf
<1> QED
  BY <1>3, <1>4, <1>5, <1>6

LEMMA FoldFinite ==
  ASSUME TypeOK PROVE IsFiniteSet(Fold) /\ Fold \subseteq Int
<1>1. Len(closes) \in Nat /\ Days = 1..Len(closes)
  BY DEF TypeOK, Days
<1>2. IsFiniteSet(Days) /\ Fold \subseteq Days
  BY <1>1, FS_Interval DEF Fold
<1>3. IsFiniteSet(Fold)
  BY <1>2, FS_Subset
<1> QED
  BY <1>1, <1>2, <1>3

LEMMA TurnoverIs ==
  ASSUME TypeOK
  PROVE  Turnover = 0 <=> Quiet
<1> DEFINE v == [i \in Fold |-> Traded(i)]
<1>1. v \in [Fold -> Int] /\ \A i \in Fold : v[i] >= 0
  BY TradedIs
<1>2. (\A i \in Fold : v[i] = 0) <=> Quiet
  BY TradedIs DEF Quiet
<1>3. Turnover = SumFunction(v)
  BY DEF Turnover
<1> HIDE DEF v
<1>4. SumFunction(v) = 0 <=> \A i \in Fold : v[i] = 0
  BY <1>1, FoldFinite, SumOf
<1> QED
  BY <1>2, <1>3, <1>4

LEMMA TradesIs ==
  ASSUME TypeOK
  PROVE  Trades = 0 <=> Quiet
<1> DEFINE changes(t) == {i \in Fold : Weight(t, i) # Held(t, i)}
           v == [t \in Tickers |-> IF t \in Columns THEN Cardinality(changes(t)) ELSE 0]
<1>1. ASSUME NEW t \in Tickers
      PROVE  /\ Cardinality(changes(t)) \in Nat
             /\ Cardinality(changes(t)) = 0 <=> changes(t) = {}
  <2>1. IsFiniteSet(changes(t))
    BY FoldFinite, FS_Subset
  <2> HIDE DEF changes
  <2> QED
    BY <2>1, FS_EmptySet, FS_CardinalityType
<1>2. v \in [Tickers -> Int] /\ \A t \in Tickers : v[t] >= 0
  <2> HIDE DEF changes
  <2> QED
    BY <1>1
<1>3. (\A t \in Tickers : v[t] = 0) <=> \A t \in Columns : changes(t) = {}
  <2> HIDE DEF changes
  <2> QED
    BY <1>1 DEF Columns
<1>4. Trades = SumFunction(v)
  BY DEF Trades, SumOver
<1>5. (\A t \in Columns : changes(t) = {}) <=> Quiet
  BY DEF Quiet
<1> HIDE DEF v
<1>6. SumFunction(v) = 0 <=> \A t \in Tickers : v[t] = 0
  BY <1>2, TickersListed, SumOf
<1> QED
  BY <1>3, <1>4, <1>5, <1>6

LEMMA GrossIs ==
  ASSUME TypeOK, NEW i \in Int
  PROVE  /\ Gross(i) \in Int
         /\ (\A t \in Columns : Held(t, i) = 0) => Gross(i) = 0
<1>1. ASSUME NEW t \in Tickers
      PROVE  Return(t, i) * Held(t, i) \in Int
             /\ (Held(t, i) = 0 => Return(t, i) * Held(t, i) = 0)
  <2>1. Held(t, i) \in Int
    BY DEF Held, Weight, RankWeight
  <2>2. Return(t, i) \in Int
    BY ReturnIs
  <2> QED
    BY <2>1, <2>2
<1>2. Earned(i) \in [Tickers -> Int]
  BY <1>1 DEF Earned
<1>3. Gross(i) = SumFunction(Earned(i))
  BY DEF Gross, SumOver, Earned
<1>4. (\A t \in Columns : Held(t, i) = 0) => \A t \in Tickers : Earned(i)[t] = 0
  BY <1>1 DEF Earned
<1>5. SumFunction(Earned(i)) \in Int
  BY <1>2, TickersListed, SumOf
<1>6. (\A t \in Tickers : Earned(i)[t] = 0) => SumFunction(Earned(i)) = 0
  BY <1>2, TickersListed, SumOf
<1> QED
  BY <1>3, <1>4, <1>5, <1>6

LEMMA ResultsTyped ==
  ASSUME TypeOK, Fold # {}
  PROVE  /\ Cardinality(Fold) - 1 \in Nat
         /\ NetResults \in [1..(Cardinality(Fold) - 1) -> Int]
<1>1. Cardinality(Fold) - 1 \in Nat /\ start \in Nat
  BY WindowDays
<1>2. \A i \in Int : Net(i) \in Int
  BY GrossIs, TradedIs, BacktestAssumption DEF Net
<1> DEFINE m == Cardinality(Fold) - 1
<1> HIDE DEF m
<1>3. \A n \in 1..m : Net(start + n) \in Int
  BY <1>1, <1>2
<1> QED
  BY <1>1, <1>3 DEF NetResults, m

(* A quiet window, which starts flat, stays flat: it holds and earns       *)
(* nothing.                                                                *)
LEMMA QuietEarnsNothing ==
  ASSUME TypeOK, Fold # {}, Quiet
  PROVE  \A n \in 1..(Cardinality(Fold) - 1) : NetResults[n] = 0
<1> DEFINE m == Len(closes) - start
           Flat(i) == \A t \in Columns : Weight(t, i) = 0 /\ Held(t, i) = 0
           T == {k \in Nat : k <= m => Flat(start + k)}
<1>1. /\ start \in Nat \ {0} /\ m \in Nat /\ Fold = start..(start + m)
      /\ Cardinality(Fold) - 1 = m
  BY WindowDays
<1> HIDE DEF m
<1>2. 0 \in T
  <2>1. start + 0 = start /\ start \in Fold /\ start - 1 \notin Fold
    BY <1>1
  <2>2. \A t \in Columns : Held(t, start) = 0
    BY <2>1 DEF Held
  <2>3. Flat(start)
    BY <2>1, <2>2 DEF Quiet
  <2> QED
    BY <2>1, <2>3
<1>3. ASSUME NEW k \in T PROVE k + 1 \in T
  <2> SUFFICES ASSUME k + 1 <= m PROVE Flat(start + (k + 1))
    OBVIOUS
  <2>1. k \in Nat /\ Flat(start + k)
    BY <1>1
  <2>2. start + (k + 1) \in Fold /\ (start + (k + 1)) - 1 = start + k /\ start + k \in Fold
    BY <1>1, <2>1
  <2>3. \A t \in Columns : Held(t, start + (k + 1)) = 0
    BY <2>1, <2>2 DEF Held
  <2> QED
    BY <2>2, <2>3 DEF Quiet
<1>4. T = Nat
  <2> HIDE DEF T
  <2> T \in SUBSET Nat
    BY DEF T
  <2> QED
    BY <1>2, <1>3, AllNaturals
<1>5. \A k \in 0..m : Flat(start + k)
  <2>1. \A k \in T : k <= m => Flat(start + k)
    OBVIOUS
  <2> HIDE DEF T, Flat
  <2>2. \A k \in 0..m : k \in T /\ k <= m
    BY <1>1, <1>4
  <2> QED
    BY <2>1, <2>2
<1> HIDE DEF T
<1>6. ASSUME NEW n \in 1..m PROVE Net(start + n) = 0
  <2>1. /\ n \in 0..m /\ n - 1 \in 0..m /\ start + n \in Int
        /\ (start + n) - 1 = start + (n - 1) /\ start + (n - 1) \in Fold
    BY <1>1
  <2>2. Gross(start + n) = 0
    BY <1>5, <2>1, GrossIs
  <2>3. Traded(start + (n - 1)) = 0
    BY <2>1, TradedIs DEF Quiet
  <2> QED
    BY <2>1, <2>2, <2>3, BacktestAssumption DEF Net
<1> QED
  BY <1>1, <1>6 DEF NetResults

(* The metrics of a report describe one and the same book, for a window of *)
(* any length: the drawdown is the worst there was, and a window without   *)
(* trades has no turnover, no profit, no loss and no drawdown.             *)
THEOREM MetricsAgreeHolds == Spec => []MetricsAgree
<1>1. TypeOK => MetricsAgree
  <2> SUFFICES ASSUME TypeOK, Fold # {}
               PROVE  /\ DrawdownIsWorst(MaxDrawdown(NetResults), NetResults)
                      /\ Trades = 0 <=> Turnover = 0
                      /\ Trades = 0 => /\ Equity(NetResults) = Equity(EarnedUpTo(0, NetResults))
                                       /\ MaxDrawdown(NetResults).num = 0
    BY DEF MetricsAgree, Reports, FoldMetrics
  <2> DEFINE m == Cardinality(Fold) - 1
             R == NetResults
  <2>1. m \in Nat /\ R \in [1..m -> Int]
    BY ResultsTyped
  <2>2. Trades = 0 <=> Quiet
    BY TradesIs
  <2>3. Turnover = 0 <=> Quiet
    BY TurnoverIs
  <2>4. Quiet => \A n \in 1..m : R[n] = 0
    BY QuietEarnsNothing
  <2> HIDE DEF m, R
  <2>5. (\A n \in 1..m : R[n] = 0) => EarnedUpTo(0, R) = R
    BY <2>1 DEF EarnedUpTo
  <2>6. /\ DrawdownIsWorst(MaxDrawdown(R), R)
        /\ (\A n \in 1..m : R[n] = 0) => MaxDrawdown(R).num = 0
    BY <2>1, PassIsWorst
  <2> QED
    BY <2>2, <2>3, <2>4, <2>5, <2>6 DEF R
<1> QED
  BY <1>1, BacktestTyped, PTL
=============================================================================
