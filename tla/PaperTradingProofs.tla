------------------------- MODULE PaperTradingProofs -------------------------
(***************************************************************************)
(* The loss budget, the rebalance and the books, for any tickers, prices,  *)
(* decisions and units.                                                    *)
(*                                                                         *)
(* The sums over tickers are what a reader takes them for: integers that   *)
(* add up, scale and compare term by term.  That is proved first, from the *)
(* definition of the community modules, by induction on the tickers summed.*)
(***************************************************************************)
EXTENDS PaperTrading, FiniteSetTheorems, WellFoundedInduction, TLAPS

-----------------------------------------------------------------------------
(* Sums.                                                                   *)

(* Induction over the naturals, as a property of sets.                     *)
LEMMA NatSets ==
  ASSUME NEW T \in SUBSET Nat, 0 \in T, \A n \in T : n + 1 \in T
  PROVE  T = Nat
<1> SUFFICES ASSUME Nat \ T # {} PROVE FALSE
  OBVIOUS
<1>1. PICK n \in Nat \ T : \A m \in Nat \ T : ~(<<m, n>> \in OpToRel(<, Nat))
  BY NatLessThanWellFounded, WFMin
<1>2. n # 0 /\ n - 1 \in Nat
  OBVIOUS
<1>3. <<n - 1, n>> \in OpToRel(<, Nat)
  BY <1>2 DEF OpToRel
<1>4. n - 1 \in T
  BY <1>1, <1>2, <1>3
<1>5. (n - 1) + 1 \in T
  BY <1>4
<1> QED BY <1>5

(* The sum of a function over a set of tickers takes one of them, and the  *)
(* sum over the others.                                                    *)
Pick(s) == CHOOSE x \in s : TRUE
Unfolds(g, v, s) == g[s] = IF s = {} THEN 0 ELSE v[Pick(s)] + g[s \ {Pick(s)}]
IsSum(g, v) ==
  g = [s \in SUBSET DOMAIN v |-> IF s = {} THEN 0 ELSE v[Pick(s)] + g[s \ {Pick(s)}]]
Partial(v) == CHOOSE g : IsSum(g, v)

Amounts == [Tickers -> Int]

(* Induction over the sets of tickers.                                     *)
LEMMA TickerSets ==
  ASSUME PaperAssumption, NEW C \in SUBSET (SUBSET Tickers), {} \in C,
         \A s \in SUBSET Tickers : s # {} /\ s \ {Pick(s)} \in C => s \in C
  PROVE  C = SUBSET Tickers
<1> DEFINE T == {n \in Nat : \A s \in SUBSET Tickers : Cardinality(s) = n => s \in C}
<1>1. \A s \in SUBSET Tickers : IsFiniteSet(s) /\ Cardinality(s) \in Nat
  BY FS_Subset, FS_CardinalityType DEF PaperAssumption
<1>2. 0 \in T
  BY <1>1, FS_EmptySet
<1>3. ASSUME NEW n \in T PROVE n + 1 \in T
  <2>1. SUFFICES ASSUME NEW s \in SUBSET Tickers, Cardinality(s) = n + 1 PROVE s \in C
    OBVIOUS
  <2>2. s # {} /\ Pick(s) \in s
    BY <1>1, <2>1, FS_EmptySet DEF Pick
  <2>3. Cardinality(s \ {Pick(s)}) = n /\ s \ {Pick(s)} \in SUBSET Tickers
    <3>1. \A x \in s : Cardinality(s \ {x}) = Cardinality(s) - 1
      BY <1>1, <2>1, FS_RemoveElement
    <3>2. n \in Nat /\ Cardinality(s \ {Pick(s)}) = Cardinality(s) - 1
      BY <2>2, <3>1
    <3> QED BY <2>1, <3>2
  <2> QED BY <2>2, <2>3
<1>4. T = Nat
  <2> HIDE DEF T
  <2> T \in SUBSET Nat
    BY DEF T
  <2> QED BY <1>2, <1>3, NatSets
<1> QED BY <1>1, <1>4

(* There is such a function, and so the sum is it.                         *)
LEMMA PartialExists ==
  ASSUME PaperAssumption, NEW v \in Amounts
  PROVE  \E g \in [SUBSET Tickers -> Int] : \A s \in SUBSET Tickers : Unfolds(g, v, s)
<1> DEFINE Upto(g, n) == \A s \in SUBSET Tickers : Cardinality(s) <= n => Unfolds(g, v, s)
           T == {n \in Nat : \E g \in [SUBSET Tickers -> Int] : Upto(g, n)}
<1>1. \A s \in SUBSET Tickers : IsFiniteSet(s) /\ Cardinality(s) \in Nat
                                /\ Cardinality(s) <= Cardinality(Tickers)
  BY FS_Subset, FS_CardinalityType DEF PaperAssumption
<1>2. 0 \in T
  <2> DEFINE g == [s \in SUBSET Tickers |-> 0]
  <2>1. Upto(g, 0) /\ g \in [SUBSET Tickers -> Int]
    BY <1>1, FS_EmptySet DEF Unfolds
  <2> QED BY <2>1
<1>3. ASSUME NEW n \in T PROVE n + 1 \in T
  <2>1. PICK g \in [SUBSET Tickers -> Int] : Upto(g, n)
    OBVIOUS
  <2> DEFINE h == [s \in SUBSET Tickers |->
                     IF Cardinality(s) <= n \/ s = {} THEN g[s]
                     ELSE v[Pick(s)] + g[s \ {Pick(s)}]]
  <2>2. ASSUME NEW s \in SUBSET Tickers, s # {}
        PROVE  /\ Pick(s) \in s /\ s \ {Pick(s)} \in SUBSET Tickers
               /\ Cardinality(s \ {Pick(s)}) = Cardinality(s) - 1
    BY <1>1, <2>2, FS_RemoveElement DEF Pick
  <2>3. h \in [SUBSET Tickers -> Int]
    BY <2>1, <2>2 DEF Amounts
  <2>4. ASSUME NEW s \in SUBSET Tickers, Cardinality(s) <= n + 1 PROVE Unfolds(h, v, s)
    <3>1. CASE s = {}
      <4>1. Unfolds(g, v, {})
        BY <1>1, <2>1, <3>1, FS_EmptySet
      <4> QED BY <3>1, <4>1 DEF Unfolds
    <3>2. CASE s # {}
      <4> DEFINE r == s \ {Pick(s)}
      <4>1. r \in SUBSET Tickers /\ Cardinality(r) <= n
        BY <1>1, <2>2, <2>4, <3>2
      <4>2. h[r] = g[r]
        BY <4>1
      <4>3. h[s] = v[Pick(s)] + g[r]
        <5>1. CASE Cardinality(s) <= n
          <6>1. Unfolds(g, v, s)
            BY <2>1, <5>1
          <6> QED BY <3>2, <5>1, <6>1 DEF Unfolds
        <5>2. CASE ~(Cardinality(s) <= n)
          BY <3>2, <5>2
        <5> QED BY <5>1, <5>2
      <4> QED BY <3>2, <4>2, <4>3 DEF Unfolds
    <3> QED BY <3>1, <3>2
  <2> HIDE DEF h
  <2>5. Upto(h, n + 1)
    BY <2>4
  <2>6. n + 1 \in Nat
    OBVIOUS
  <2> QED BY <2>3, <2>5, <2>6
<1>4. T = Nat
  <2> HIDE DEF T
  <2> T \in SUBSET Nat
    BY DEF T
  <2> QED BY <1>2, <1>3, NatSets
<1>5. Cardinality(Tickers) \in T
  BY <1>1, <1>4
<1> QED BY <1>1, <1>5

(* The sum over the tickers is reached through the sums over their sets, and *)
(* each of these takes one ticker and leaves the rest.                     *)
LEMMA SumUnfolds ==
  ASSUME PaperAssumption, NEW v \in Amounts
  PROVE  /\ SumFunction(v) = Partial(v)[Tickers]
         /\ Partial(v) \in [SUBSET Tickers -> Int]
         /\ \A s \in SUBSET Tickers : Unfolds(Partial(v), v, s)
<1>1. DOMAIN v = Tickers
  BY DEF Amounts
<1>2. SumFunction(v) = Partial(v)[Tickers]
  BY <1>1 DEF SumFunction, SumFunctionOnSet, FoldFunctionOnSet, MapThenFoldSet, Partial,
              IsSum, Pick
<1>3. PICK g \in [SUBSET Tickers -> Int] : \A s \in SUBSET Tickers : Unfolds(g, v, s)
  BY PartialExists
<1>4. IsSum(g, v)
  BY <1>1, <1>3 DEF IsSum, Unfolds
<1>5. IsSum(Partial(v), v)
  BY <1>4 DEF Partial
<1> DEFINE p == Partial(v)
<1>6. DOMAIN p = SUBSET Tickers /\ \A s \in SUBSET Tickers : Unfolds(p, v, s)
  BY <1>1, <1>5 DEF IsSum, Unfolds
<1>7. \A s \in SUBSET Tickers : p[s] \in Int
  <2> DEFINE C == {s \in SUBSET Tickers : p[s] \in Int}
  <2>1. {} \in C
    <3>1. Unfolds(p, v, {})
      BY <1>6
    <3> HIDE DEF p
    <3> QED BY <3>1 DEF Unfolds
  <2>2. ASSUME NEW s \in SUBSET Tickers, s # {}, s \ {Pick(s)} \in C PROVE s \in C
    <3>1. Pick(s) \in Tickers
      BY <2>2 DEF Pick
    <3> QED BY <1>6, <2>2, <3>1 DEF Unfolds, Amounts
  <2>3. C = SUBSET Tickers
    <3> HIDE DEF C
    <3> C \in SUBSET (SUBSET Tickers)
      BY DEF C
    <3> QED BY <2>1, <2>2, TickerSets
  <2> QED BY <2>3
<1>8. p = [s \in SUBSET Tickers |-> p[s]]
  BY <1>1, <1>5, <1>6 DEF IsSum
<1> QED BY <1>2, <1>6, <1>7, <1>8

(* A sum of integers is one.                                               *)
LEMMA SumTyped == ASSUME PaperAssumption, NEW v \in Amounts PROVE SumFunction(v) \in Int
  BY SumUnfolds

(* Sums of two functions add up to the sum of the function that adds them. *)
LEMMA SumAdds ==
  ASSUME PaperAssumption, NEW u \in Amounts, NEW v \in Amounts, NEW w \in Amounts,
         \A t \in Tickers : w[t] = u[t] + v[t]
  PROVE  SumFunction(w) = SumFunction(u) + SumFunction(v)
<1> DEFINE p == Partial(u)  q == Partial(v)  r == Partial(w)
           C == {s \in SUBSET Tickers : r[s] = p[s] + q[s]}
<1>1. /\ p \in [SUBSET Tickers -> Int] /\ \A s \in SUBSET Tickers : Unfolds(p, u, s)
      /\ q \in [SUBSET Tickers -> Int] /\ \A s \in SUBSET Tickers : Unfolds(q, v, s)
      /\ r \in [SUBSET Tickers -> Int] /\ \A s \in SUBSET Tickers : Unfolds(r, w, s)
      /\ SumFunction(u) = p[Tickers] /\ SumFunction(v) = q[Tickers]
      /\ SumFunction(w) = r[Tickers]
  BY SumUnfolds
<1> HIDE DEF p, q, r
<1>2. {} \in C
  <2>1. Unfolds(p, u, {}) /\ Unfolds(q, v, {}) /\ Unfolds(r, w, {})
    BY <1>1
  <2>2. p[{}] = 0 /\ q[{}] = 0 /\ r[{}] = 0
    BY <2>1 DEF Unfolds
  <2> QED BY <2>2
<1>3. ASSUME NEW s \in SUBSET Tickers, s # {}, s \ {Pick(s)} \in C PROVE s \in C
  <2>1. Pick(s) \in Tickers /\ s \ {Pick(s)} \in SUBSET Tickers
    BY <1>3 DEF Pick
  <2>2. /\ p[s] = u[Pick(s)] + p[s \ {Pick(s)}] /\ q[s] = v[Pick(s)] + q[s \ {Pick(s)}]
        /\ r[s] = w[Pick(s)] + r[s \ {Pick(s)}]
    BY <1>1, <1>3 DEF Unfolds
  <2>3. /\ u[Pick(s)] \in Int /\ v[Pick(s)] \in Int /\ w[Pick(s)] = u[Pick(s)] + v[Pick(s)]
        /\ p[s \ {Pick(s)}] \in Int /\ q[s \ {Pick(s)}] \in Int
        /\ r[s \ {Pick(s)}] = p[s \ {Pick(s)}] + q[s \ {Pick(s)}]
    BY <1>1, <1>3, <2>1 DEF Amounts
  <2> QED BY <2>2, <2>3
<1>4. C = SUBSET Tickers
  <2> HIDE DEF C
  <2> C \in SUBSET (SUBSET Tickers)
    BY DEF C
  <2> QED BY <1>2, <1>3, TickerSets
<1> QED BY <1>1, <1>4

(* A common factor comes out of a sum.                                     *)
LEMMA SumScales ==
  ASSUME PaperAssumption, NEW k \in Int, NEW v \in Amounts, NEW w \in Amounts,
         \A t \in Tickers : w[t] = k * v[t]
  PROVE  SumFunction(w) = k * SumFunction(v)
<1> DEFINE q == Partial(v)  r == Partial(w)
           C == {s \in SUBSET Tickers : r[s] = k * q[s]}
<1>1. /\ q \in [SUBSET Tickers -> Int] /\ \A s \in SUBSET Tickers : Unfolds(q, v, s)
      /\ r \in [SUBSET Tickers -> Int] /\ \A s \in SUBSET Tickers : Unfolds(r, w, s)
      /\ SumFunction(v) = q[Tickers] /\ SumFunction(w) = r[Tickers]
  BY SumUnfolds
<1> HIDE DEF q, r
<1>2. {} \in C
  <2>1. Unfolds(q, v, {}) /\ Unfolds(r, w, {})
    BY <1>1
  <2>2. q[{}] = 0 /\ r[{}] = 0
    BY <2>1 DEF Unfolds
  <2> QED BY <2>2
<1>3. ASSUME NEW s \in SUBSET Tickers, s # {}, s \ {Pick(s)} \in C PROVE s \in C
  <2>1. Pick(s) \in Tickers /\ s \ {Pick(s)} \in SUBSET Tickers
    BY <1>3 DEF Pick
  <2>2. /\ q[s] = v[Pick(s)] + q[s \ {Pick(s)}]
        /\ r[s] = w[Pick(s)] + r[s \ {Pick(s)}]
    BY <1>1, <1>3 DEF Unfolds
  <2>3. /\ v[Pick(s)] \in Int /\ w[Pick(s)] = k * v[Pick(s)]
        /\ q[s \ {Pick(s)}] \in Int /\ r[s \ {Pick(s)}] = k * q[s \ {Pick(s)}]
    BY <1>1, <1>3, <2>1 DEF Amounts
  <2>4. \A x, y \in Int : k * (x + y) = k * x + k * y
    OBVIOUS
  <2> QED BY <2>2, <2>3, <2>4
<1>4. C = SUBSET Tickers
  <2> HIDE DEF C
  <2> C \in SUBSET (SUBSET Tickers)
    BY DEF C
  <2> QED BY <1>2, <1>3, TickerSets
<1> QED BY <1>1, <1>4

(* What is no larger for any ticker sums to no more.                       *)
LEMMA SumOrders ==
  ASSUME PaperAssumption, NEW v \in Amounts, NEW w \in Amounts,
         \A t \in Tickers : v[t] <= w[t]
  PROVE  SumFunction(v) <= SumFunction(w)
<1> DEFINE q == Partial(v)  r == Partial(w)
           C == {s \in SUBSET Tickers : q[s] <= r[s]}
<1>1. /\ q \in [SUBSET Tickers -> Int] /\ \A s \in SUBSET Tickers : Unfolds(q, v, s)
      /\ r \in [SUBSET Tickers -> Int] /\ \A s \in SUBSET Tickers : Unfolds(r, w, s)
      /\ SumFunction(v) = q[Tickers] /\ SumFunction(w) = r[Tickers]
  BY SumUnfolds
<1> HIDE DEF q, r
<1>2. {} \in C
  <2>1. Unfolds(q, v, {}) /\ Unfolds(r, w, {})
    BY <1>1
  <2>2. q[{}] = 0 /\ r[{}] = 0
    BY <2>1 DEF Unfolds
  <2> QED BY <2>2
<1>3. ASSUME NEW s \in SUBSET Tickers, s # {}, s \ {Pick(s)} \in C PROVE s \in C
  <2>1. Pick(s) \in Tickers /\ s \ {Pick(s)} \in SUBSET Tickers
    BY <1>3 DEF Pick
  <2>2. /\ q[s] = v[Pick(s)] + q[s \ {Pick(s)}]
        /\ r[s] = w[Pick(s)] + r[s \ {Pick(s)}]
    BY <1>1, <1>3 DEF Unfolds
  <2>3. /\ v[Pick(s)] \in Int /\ w[Pick(s)] \in Int /\ v[Pick(s)] <= w[Pick(s)]
        /\ q[s \ {Pick(s)}] \in Int /\ r[s \ {Pick(s)}] \in Int
        /\ q[s \ {Pick(s)}] <= r[s \ {Pick(s)}]
    BY <1>1, <1>3, <2>1 DEF Amounts
  <2> QED BY <2>2, <2>3
<1>4. C = SUBSET Tickers
  <2> HIDE DEF C
  <2> C \in SUBSET (SUBSET Tickers)
    BY DEF C
  <2> QED BY <1>2, <1>3, TickerSets
<1> QED BY <1>1, <1>4

(* An account that is empty everywhere sums to nothing.                    *)
LEMMA SumOfZeros ==
  ASSUME PaperAssumption, NEW v \in Amounts, \A t \in Tickers : v[t] = 0
  PROVE  SumFunction(v) = 0
<1>1. \A t \in Tickers : v[t] = 0 * v[t]
  BY DEF Amounts
<1>2. SumFunction(v) = 0 * SumFunction(v)
  BY <1>1, SumScales
<1> QED BY <1>2, SumTyped

-----------------------------------------------------------------------------
(* Rounding.                                                               *)

(* A quotient rounded half to even is within half a unit of the exact one. *)
LEMMA RoundDivWithinHalf ==
  ASSUME NEW a \in Int, NEW b \in Nat \ {0}
  PROVE  /\ RoundDiv(a, b) \in Int
         /\ 2 * (RoundDiv(a, b) * b - a) <= b /\ -b <= 2 * (RoundDiv(a, b) * b - a)
<1> DEFINE q == a \div b  r == a % b  d == RoundDiv(a, b)
<1>1. q \in Int /\ r \in 0..(b - 1) /\ a = b * q + r
  OBVIOUS
<1>2. /\ d = q \/ d = q + 1
      /\ d = q + 1 => 2 * r >= b
      /\ d = q => 2 * r <= b
  BY <1>1 DEF RoundDiv
<1> HIDE DEF d
<1>3. q * b = b * q /\ (q + 1) * b = b * q + b /\ b * q \in Int
  BY <1>1
<1>4. d * b = b * q \/ d * b = b * q + b
  BY <1>2, <1>3
<1> DEFINE m == b * q
<1>5. /\ m \in Int /\ a = m + r /\ r \in Int /\ b \in Int
      /\ \/ d * b = m /\ 2 * r <= b /\ 0 <= r
         \/ d * b = m + b /\ 2 * r >= b /\ r < b
  BY <1>1, <1>2, <1>3, <1>4
<1> HIDE DEF m, q, r
<1>6. 2 * (d * b - a) <= b /\ -b <= 2 * (d * b - a)
  BY <1>5
<1> QED BY <1>1, <1>2, <1>6 DEF d, q

-----------------------------------------------------------------------------
(* The account, and the sums a trade takes over it.                        *)

Holding == [qty : Int, avg_cost : Int]

(* The account's types when nothing is known of its equity: a price that   *)
(* falls to almost nothing could leave less than the rounding overdrew.    *)
AccountTyped ==
  /\ cash \in Int /\ realized_pnl \in Int /\ baseline \in Int
  /\ day_pnl \in Int /\ slack \in Int
  /\ positions \in [Tickers -> Holding]
  /\ current_day \in Nat \union {NoDay} /\ today \in Nat
  /\ configs \in [Runners -> Config \union {NoConfig}]
  /\ trades \in Nat

Worth(prices) ==
  [t \in Tickers |-> IF t \in Held THEN positions[t].qty * prices[t] ELSE 0]
Moved(d, prices) ==
  [t \in Tickers |-> IF t \in Involved(d) THEN Delta(d, prices, t) * prices[t] ELSE 0]
Gains(d, prices) ==
  [t \in Tickers |->
     IF t \in Sold(d, prices)
     THEN (positions[t].avg_cost - prices[t] * AvgUnits) * Delta(d, prices, t) ELSE 0]
Added(d, prices) ==
  [t \in Tickers |-> IF t \in Bought(d, prices) \cap Held THEN positions'[t].qty ELSE 0]
Costs ==
  [t \in Tickers |-> IF t \in Tickers THEN positions[t].qty * positions[t].avg_cost ELSE 0]

(* The sums of the model are the sums of these.                            *)
LEMMA SumsOfTheModel ==
  ASSUME NEW d, NEW prices
  PROVE  /\ Equity(prices) = cash + SumFunction(Worth(prices))
         /\ Profit(d, prices) = SumFunction(Gains(d, prices))
         /\ Rebalance(d, prices) =>
              /\ cash' = cash - SumFunction(Moved(d, prices))
              /\ realized_pnl' = realized_pnl + SumFunction(Gains(d, prices))
  BY DEF Equity, Profit, Rebalance, SumOver, Worth, Gains, Moved

(* What the assumption on the decisions says of one of them.               *)
LEMMA DecisionFacts ==
  ASSUME PaperAssumption, NEW d \in Decisions
  PROVE  /\ d.weights \in [Tickers -> 0..WeightUnits] /\ d.daily_loss_limit \in Nat
         /\ SumFunction(d.weights) <= WeightUnits
         /\ WeightUnits \in Nat \ {0} /\ AvgUnits \in Nat \ {0} /\ Units \in Nat \ {0}
         /\ Targets(d) \subseteq Tickers
         /\ \A t \in Tickers \ Targets(d) : d.weights[t] = 0
<1>1. d \in Decision
  BY DEF PaperAssumption
<1>2. d.weights \in [Tickers -> 0..WeightUnits] /\ d.daily_loss_limit \in Nat
  BY <1>1 DEF Decision
<1>3. WeightUnits \in Nat \ {0} /\ AvgUnits \in Nat \ {0} /\ Units \in Nat \ {0}
  BY DEF PaperAssumption
<1>4. SumFunction(d.weights) <= WeightUnits
  BY DEF PaperAssumption
<1>5. \A t \in Tickers \ Targets(d) : d.weights[t] = 0
  BY <1>2, <1>3 DEF Targets
<1> QED BY <1>2, <1>3, <1>4, <1>5 DEF Targets

(* What an action computes is defined and of its type: every ticker it needs *)
(* is priced, and nothing is divided by zero.                              *)
LEMMA TradeTyped ==
  ASSUME PaperAssumption, AccountTyped, NEW d \in Decisions,
         NEW priced \in SUBSET Tickers, NEW prices \in [priced -> Prices],
         Involved(d) \subseteq priced
  PROVE  /\ Held \subseteq Involved(d) /\ Targets(d) \subseteq Involved(d)
         /\ Involved(d) \subseteq Tickers
         /\ \A t \in Involved(d) : prices[t] \in Nat \ {0}
         /\ \A t \in Tickers : positions[t].qty \in Int /\ positions[t].avg_cost \in Int
         /\ Worth(prices) \in Amounts /\ Equity(prices) \in Int
         /\ \A t \in Tickers : TargetQty(d, prices, t) \in Int /\ Delta(d, prices, t) \in Int
         /\ Moved(d, prices) \in Amounts /\ Gains(d, prices) \in Amounts
         /\ Profit(d, prices) \in Int
         /\ \A t \in Involved(d) : AvgCostAfter(d, prices, t) \in Int
<1>1. /\ Held \subseteq Involved(d) /\ Targets(d) \subseteq Involved(d)
      /\ Involved(d) \subseteq Tickers
  BY DEF Involved, Held, Targets
<1>2. \A t \in Involved(d) : prices[t] \in Nat \ {0}
  BY DEF PaperAssumption
<1>3. \A t \in Tickers : positions[t].qty \in Int /\ positions[t].avg_cost \in Int
  BY DEF AccountTyped, Holding
<1>4. Worth(prices) \in Amounts
  <2>1. \A t \in Held : positions[t].qty * prices[t] \in Int
    BY <1>1, <1>2, <1>3
  <2> QED BY <2>1 DEF Worth, Amounts
<1>5. Equity(prices) \in Int
  BY <1>4, SumsOfTheModel, SumTyped DEF AccountTyped
<1>6. \A t \in Targets(d) : TargetQty(d, prices, t) \in Int
  <2>1. SUFFICES ASSUME NEW t \in Targets(d) PROVE TargetQty(d, prices, t) \in Int
    OBVIOUS
  <2>2. prices[t] \in Nat \ {0} /\ d.weights[t] \in Int /\ WeightUnits \in Nat \ {0}
    BY <1>1, <1>2, DecisionFacts
  <2>3. WeightUnits * prices[t] \in Nat \ {0} /\ Equity(prices) * d.weights[t] \in Int
    BY <1>5, <2>2
  <2> QED BY <2>3, RoundDivWithinHalf DEF TargetQty
<1>7. \A t \in Tickers : TargetQty(d, prices, t) \in Int /\ Delta(d, prices, t) \in Int
  BY <1>3, <1>6 DEF TargetQty, Delta
<1>8. Moved(d, prices) \in Amounts
  <2>1. \A t \in Involved(d) : Delta(d, prices, t) * prices[t] \in Int
    BY <1>1, <1>2, <1>7
  <2> QED BY <2>1 DEF Moved, Amounts
<1>9. Gains(d, prices) \in Amounts
  <2>1. \A t \in Involved(d) :
          (positions[t].avg_cost - prices[t] * AvgUnits) * Delta(d, prices, t) \in Int
    BY <1>1, <1>2, <1>3, <1>7, DecisionFacts
  <2> QED BY <2>1 DEF Gains, Amounts, Sold
<1>10. Profit(d, prices) \in Int
  BY <1>9, SumsOfTheModel, SumTyped
<1>11. \A t \in Involved(d) : AvgCostAfter(d, prices, t) \in Int
  <2>1. SUFFICES ASSUME NEW t \in Involved(d) PROVE AvgCostAfter(d, prices, t) \in Int
    OBVIOUS
  <2>2. /\ prices[t] * AvgUnits \in Int /\ positions[t].avg_cost \in Int
        /\ positions[t].qty * positions[t].avg_cost \in Int
        /\ Delta(d, prices, t) * prices[t] * AvgUnits \in Int
    BY <1>1, <1>2, <1>3, <1>7, DecisionFacts
  <2>3. CASE t \in Bought(d, prices) /\ t \in Held
    <3>1. TargetQty(d, prices, t) \in Nat \ {0}
      BY <1>1, <1>3, <1>7, <2>3 DEF Bought, Held, Delta
    <3>2. positions[t].qty * positions[t].avg_cost
            + Delta(d, prices, t) * prices[t] * AvgUnits \in Int
      BY <2>2
    <3> QED BY <2>3, <3>1, <3>2, RoundDivWithinHalf DEF AvgCostAfter
  <2> QED BY <2>2, <2>3 DEF AvgCostAfter
<1> QED BY <1>1, <1>2, <1>3, <1>4, <1>5, <1>7, <1>8, <1>9, <1>10, <1>11

(* Every action keeps the account typed.                                   *)
LEMMA TradeKeepsTypes ==
  ASSUME PaperAssumption, AccountTyped, NEW r \in Runners, NEW d \in Decisions,
         NEW priced \in SUBSET Tickers, NEW prices \in [priced -> Prices],
         Trade(r, d, prices)
  PROVE  /\ AccountTyped'
         /\ \A t \in Tickers :
              /\ positions'[t].qty = IF t \in Targets(d) THEN TargetQty(d, prices, t) ELSE 0
              /\ positions'[t] = Flat
                   \/ (/\ t \in Involved(d)
                       /\ positions'[t].avg_cost = AvgCostAfter(d, prices, t))
<1>1. Involved(d) \subseteq priced /\ Rebalance(d, prices)
  BY DEF Trade
<1>2. /\ Held \subseteq Involved(d) /\ Targets(d) \subseteq Involved(d)
      /\ Involved(d) \subseteq Tickers
      /\ \A t \in Tickers : TargetQty(d, prices, t) \in Int
      /\ Moved(d, prices) \in Amounts /\ Profit(d, prices) \in Int
      /\ \A t \in Involved(d) : AvgCostAfter(d, prices, t) \in Int
  BY <1>1, TradeTyped
<1>3. \A t \in Tickers : positions'[t] =
        IF t \notin Involved(d) \/ TargetQty(d, prices, t) = 0 THEN Flat
        ELSE [qty |-> TargetQty(d, prices, t), avg_cost |-> AvgCostAfter(d, prices, t)]
  BY <1>1 DEF Rebalance
<1>4. ASSUME NEW t \in Tickers
      PROVE  /\ positions'[t] \in Holding
             /\ positions'[t].qty = IF t \in Targets(d) THEN TargetQty(d, prices, t) ELSE 0
             /\ positions'[t] = Flat
                  \/ (/\ t \in Involved(d)
                      /\ positions'[t].avg_cost = AvgCostAfter(d, prices, t))
  <2> DEFINE q == TargetQty(d, prices, t)  a == AvgCostAfter(d, prices, t)
  <2>1. t \notin Targets(d) => q = 0
    BY DEF TargetQty
  <2>2. q \in Int /\ (t \in Involved(d) => a \in Int) /\ (t \in Targets(d) => t \in Involved(d))
    BY <1>2
  <2>3. positions'[t] = IF t \notin Involved(d) \/ q = 0 THEN Flat
                        ELSE [qty |-> q, avg_cost |-> a]
    BY <1>3
  <2> HIDE DEF q, a
  <2>4. CASE t \notin Involved(d) \/ q = 0
    <3>1. positions'[t] = Flat
      BY <2>3, <2>4
    <3> QED BY <2>1, <2>2, <2>4, <3>1 DEF Flat, Holding, q
  <2>5. CASE t \in Involved(d) /\ q # 0
    <3>1. positions'[t] = [qty |-> q, avg_cost |-> a]
      BY <2>3, <2>5
    <3> QED BY <2>1, <2>2, <2>5, <3>1 DEF Holding, q, a
  <2> QED BY <2>4, <2>5
<1>5. positions' = [t \in Tickers |-> positions'[t]]
  BY <1>1 DEF Rebalance
<1>6. positions' \in [Tickers -> Holding]
  BY <1>4, <1>5
<1>7. cash' \in Int
  BY <1>1, <1>2, SumsOfTheModel, SumTyped DEF AccountTyped
<1>8. realized_pnl' \in Int /\ day_pnl' \in Int
  <2>1. realized_pnl' = realized_pnl + Profit(d, prices) /\ day_pnl' = day_pnl + Profit(d, prices)
    BY DEF Trade, Rebalance
  <2> QED BY <1>2, <2>1 DEF AccountTyped
<1>9. slack' \in Int
  <2>1. Added(d, prices) \in Amounts
    BY <1>4 DEF Added, Amounts, Holding
  <2>2. slack' = slack + SumFunction(Added(d, prices))
    BY DEF Trade, SumOver, Added
  <2> QED BY <2>1, <2>2, SumTyped DEF AccountTyped
<1>10. AccountTyped'
  BY <1>6, <1>7, <1>8, <1>9 DEF AccountTyped, Trade
<1> QED BY <1>4, <1>10

(* Marking the day keeps the account typed.                                *)
LEMMA BuildKeepsTypes ==
  ASSUME AccountTyped, NEW r \in Runners, NEW permitted \in PermitSets, PaperAssumption,
         BuildRunner(r, permitted)
  PROVE  /\ AccountTyped'
         /\ configs'[r] \in Config
         /\ configs'[r].daily_realized_loss = ReportedLoss(baseline')
         /\ \A s \in Runners \ {r} : configs'[s] = configs[s]
<1>1. baseline' \in Int /\ current_day' \in Nat /\ today \in Nat
  BY DEF BuildRunner, AccountTyped
<1>2. ReportedLoss(baseline') \in Nat
  <2>1. \A b \in Int : ReportedLoss(b) \in Nat
    BY DEF ReportedLoss, AccountTyped
  <2> QED BY <1>1, <2>1
<1> DEFINE c == [daily_realized_loss |-> ReportedLoss(baseline'), permitted |-> permitted]
<1>3. c \in Config
  BY <1>2 DEF Config, PaperAssumption
<1>4. configs' = [configs EXCEPT ![r] = c]
  BY DEF BuildRunner
<1>5. /\ configs' \in [Runners -> Config \union {NoConfig}] /\ configs'[r] = c
      /\ \A s \in Runners \ {r} : configs'[s] = configs[s]
  <2> HIDE DEF c
  <2> QED BY <1>3, <1>4 DEF AccountTyped
<1>6. AccountTyped'
  BY <1>1, <1>5 DEF AccountTyped, BuildRunner, brokerVars
<1> QED BY <1>3, <1>5, <1>6

-----------------------------------------------------------------------------
(* The loss budget.                                                        *)

(* The day's profit is what was realised since the baseline, and a runner  *)
(* without a trade since it was built was told of at least its loss: a day *)
(* that ended since then has only taken the loss away.                     *)
LossesTold ==
  /\ day_pnl = realized_pnl - baseline
  /\ \A r \in Runners : fresh[r] /\ configs[r] # NoConfig =>
       configs[r].daily_realized_loss >= -day_pnl

LossInv == AccountTyped /\ LossesTold /\ NoTradeOverDailyLoss

(* A new account has neither profits nor losses to tell of.                *)
LEMMA LossInit == ASSUME PaperAssumption, Init PROVE LossInv /\ Rebalanced
<1>1. AccountTyped
  <2>1. Flat \in Holding
    BY DEF Flat, Holding
  <2> QED BY <2>1 DEF Init, AccountTyped, PaperAssumption
<1>2. LossesTold
  BY DEF Init, LossesTold
<1>3. NoTradeOverDailyLoss /\ Rebalanced
  BY DEF Init, NoTradeOverDailyLoss, Rebalanced
<1> QED BY <1>1, <1>2, <1>3 DEF LossInv

(* A runner that is built is told the whole loss of the day, first mark or *)
(* later one.                                                              *)
LEMMA BuildTellsLosses ==
  ASSUME PaperAssumption, LossInv, NEW r \in Runners, NEW permitted \in PermitSets,
         BuildRunner(r, permitted)
  PROVE  LossInv'
<1>1. /\ AccountTyped' /\ configs'[r] \in Config
      /\ configs'[r].daily_realized_loss = ReportedLoss(baseline')
      /\ \A s \in Runners \ {r} : configs'[s] = configs[s]
  BY BuildKeepsTypes DEF LossInv
<1>2. /\ realized_pnl' = realized_pnl /\ last' = last /\ realized_pnl \in Int /\ day_pnl \in Int
      /\ baseline \in Int /\ baseline' \in Int /\ day_pnl = realized_pnl - baseline
  BY <1>1 DEF BuildRunner, LossInv, AccountTyped, brokerVars, LossesTold
<1>3. \/ baseline' = baseline /\ day_pnl' = day_pnl
      \/ baseline' = realized_pnl /\ day_pnl' = 0
  BY DEF BuildRunner, Backwards, StartsDay, LossInv, AccountTyped, PaperAssumption
<1>4. day_pnl' = realized_pnl' - baseline'
  BY <1>2, <1>3
<1>5. ASSUME NEW s \in Runners, fresh'[s], configs'[s] # NoConfig
      PROVE  configs'[s].daily_realized_loss >= -day_pnl'
  <2>1. CASE s = r
    BY <1>1, <1>2, <1>4, <2>1 DEF ReportedLoss
  <2>2. CASE s # r
    <3>1. fresh[s] /\ configs[s] # NoConfig /\ configs'[s] = configs[s]
      BY <1>1, <1>5, <2>2 DEF BuildRunner
    <3>2. configs[s].daily_realized_loss >= -day_pnl
      BY <3>1 DEF LossInv, LossesTold
    <3>3. configs[s].daily_realized_loss \in Nat
      BY <3>1 DEF LossInv, AccountTyped, Config
    <3> QED BY <1>2, <1>3, <3>1, <3>2, <3>3
  <2> QED BY <2>1, <2>2
<1>6. NoTradeOverDailyLoss'
  BY <1>2 DEF LossInv, NoTradeOverDailyLoss
<1> QED BY <1>1, <1>4, <1>5, <1>6 DEF LossInv, LossesTold

(* The loss a fresh runner was told is the day's, so the gateway lets an   *)
(* action through only below its limit.                                    *)
LEMMA TradeWithinLosses ==
  ASSUME PaperAssumption, LossInv, NEW r \in Runners, NEW d \in Decisions,
         NEW priced \in SUBSET Tickers, NEW prices \in [priced -> Prices],
         Trade(r, d, prices)
  PROVE  LossInv'
<1>1. AccountTyped /\ AccountTyped'
  BY TradeKeepsTypes DEF LossInv
<1>2. Profit(d, prices) \in Int
  <2>1. Involved(d) \subseteq priced
    BY DEF Trade
  <2> QED BY <1>1, <2>1, TradeTyped
<1>3. day_pnl' = realized_pnl' - baseline'
  <2>1. /\ realized_pnl' = realized_pnl + Profit(d, prices)
        /\ day_pnl' = day_pnl + Profit(d, prices) /\ baseline' = baseline
    BY DEF Trade, Rebalance
  <2>2. /\ day_pnl = realized_pnl - baseline /\ realized_pnl \in Int /\ baseline \in Int
        /\ day_pnl \in Int
    BY DEF LossInv, LossesTold, AccountTyped
  <2> QED BY <1>2, <2>1, <2>2
<1>4. \A s \in Runners : ~fresh'[s]
  BY DEF Trade
<1>5. NoTradeOverDailyLoss'
  <2>1. last'.decision = d /\ last'.fresh = fresh[r] /\ last'.day_pnl = day_pnl
    BY DEF Trade
  <2>2. configs[r] \in Config /\ configs[r] # NoConfig
    BY <1>1 DEF Trade, AccountTyped
  <2>3. Violations(d, configs[r]) = {}
    BY DEF Trade, Feasible
  <2>4. ~(d.daily_loss_limit * Units * AvgUnits <= configs[r].daily_realized_loss)
    BY <2>3 DEF Violations
  <2> DEFINE lim == d.daily_loss_limit * Units * AvgUnits
  <2>5. lim \in Int
    BY DecisionFacts
  <2>6. configs[r].daily_realized_loss \in Nat /\ day_pnl \in Int
    BY <1>1, <2>2 DEF Config, AccountTyped
  <2>7. ASSUME fresh[r] PROVE -day_pnl < lim
    <3>1. configs[r].daily_realized_loss >= -day_pnl
      BY <2>2, <2>7 DEF LossInv, LossesTold
    <3> HIDE DEF lim
    <3>2. ~(lim <= configs[r].daily_realized_loss)
      BY <2>4 DEF lim
    <3> QED BY <2>5, <2>6, <3>1, <3>2
  <2> QED BY <2>1, <2>7 DEF NoTradeOverDailyLoss
<1> QED BY <1>1, <1>3, <1>4, <1>5 DEF LossInv, LossesTold

(* Every step keeps the losses told and the limit respected.               *)
LEMMA LossStep == ASSUME PaperAssumption, LossInv, [Next]_vars PROVE LossInv'
<1>1. CASE ClockMoves \/ UNCHANGED vars
  <2>1. /\ UNCHANGED <<cash, positions, realized_pnl, baseline, current_day, configs, trades,
                       fresh, day_pnl, slack, last>>
        /\ today' \in Nat
    BY <1>1 DEF ClockMoves, vars, brokerVars, historyVars, LossInv, AccountTyped,
                PaperAssumption
  <2> QED BY <2>1 DEF LossInv, AccountTyped, LossesTold, NoTradeOverDailyLoss
<1>2. ASSUME NEW r \in Runners, NEW permitted \in PermitSets, BuildRunner(r, permitted)
      PROVE  LossInv'
  BY <1>2, BuildTellsLosses
<1>3. ASSUME NEW r \in Runners, NEW d \in Decisions, NEW priced \in SUBSET Tickers,
             NEW prices \in [priced -> Prices], Trade(r, d, prices)
      PROVE  LossInv'
  BY <1>3, TradeWithinLosses
<1> QED BY <1>1, <1>2, <1>3 DEF Next

(* The account stays typed, its day's profit is what the tracker measures, *)
(* and every configuration without a trade since tells the day's loss.     *)
THEOREM LossInvariant == Spec => []LossInv
<1>1. Init => LossInv
  BY LossInit, PaperAssumption
<1>2. LossInv /\ [Next]_vars => LossInv'
  BY LossStep, PaperAssumption
<1> QED BY <1>1, <1>2, PTL DEF Spec

(* No trade is made over the decision's daily limit by a runner built      *)
(* since the last trade, for any decisions, prices and calendars.          *)
THEOREM LossBudgetHolds == Spec => []NoTradeOverDailyLoss
<1>1. LossInv => NoTradeOverDailyLoss
  BY DEF LossInv
<1> QED BY <1>1, LossInvariant, PTL

-----------------------------------------------------------------------------
(* The rebalance.                                                          *)

(* A target is within half a part of its share of the equity.              *)
LEMMA TargetWithinHalf ==
  ASSUME PaperAssumption, AccountTyped, NEW d \in Decisions,
         NEW priced \in SUBSET Tickers, NEW prices \in [priced -> Prices],
         Involved(d) \subseteq priced, NEW t \in Targets(d)
  PROVE  LET q == TargetQty(d, prices, t)
             w == d.weights[t]
             off == 2 * (q * prices[t] * WeightUnits - Equity(prices) * w)
         IN  off <= prices[t] * WeightUnits /\ -off <= prices[t] * WeightUnits
<1> DEFINE q == TargetQty(d, prices, t)  p == prices[t]  W == WeightUnits
           E == Equity(prices)  w == d.weights[t]
<1>1. /\ p \in Nat \ {0} /\ W \in Nat \ {0} /\ E \in Int /\ q \in Int /\ w \in Int
      /\ q = RoundDiv(E * w, W * p)
  BY TradeTyped, DecisionFacts DEF TargetQty
<1> HIDE DEF q, p, E, w, W
<1>2. W * p \in Nat \ {0} /\ E * w \in Int
  BY <1>1
<1>3. 2 * (q * (W * p) - E * w) <= W * p /\ -(W * p) <= 2 * (q * (W * p) - E * w)
  BY <1>1, <1>2, RoundDivWithinHalf
<1>4. W * p = p * W /\ q * (p * W) = q * p * W
  BY <1>1
<1> DEFINE m == q * p * W  n == p * W  e == E * w
<1>5. m \in Int /\ n \in Int /\ e \in Int /\ 2 * (m - e) <= n /\ -n <= 2 * (m - e)
  BY <1>1, <1>2, <1>3, <1>4
<1>6. 2 * (m - e) <= n /\ -(2 * (m - e)) <= n
  <2> HIDE DEF m, n, e
  <2> QED BY <1>5
<1> QED BY <1>6 DEF q, p, E, w, W

(* An action leaves the holdings its decision asks for.                    *)
LEMMA TradeRebalances ==
  ASSUME PaperAssumption, AccountTyped, NEW r \in Runners, NEW d \in Decisions,
         NEW priced \in SUBSET Tickers, NEW prices \in [priced -> Prices],
         Trade(r, d, prices)
  PROVE  Rebalanced'
<1>1. /\ last'.decision = d /\ last'.prices = prices /\ last'.equity = Equity(prices)
      /\ Involved(d) \subseteq priced
  BY DEF Trade
<1>2. \A t \in Tickers :
        positions'[t].qty = IF t \in Targets(d) THEN TargetQty(d, prices, t) ELSE 0
  BY TradeKeepsTypes
<1>3. ASSUME NEW t \in Tickers
      PROVE  LET w == d.weights[t]
             IN  IF w = 0 THEN positions'[t].qty = 0
                 ELSE LET p == prices[t]
                          off == 2 * (positions'[t].qty * p * WeightUnits - Equity(prices) * w)
                      IN  off <= p * WeightUnits /\ -off <= p * WeightUnits
  <2>1. CASE t \in Targets(d)
    <3>1. positions'[t].qty = TargetQty(d, prices, t)
      BY <1>2, <2>1
    <3>2. d.weights[t] # 0
      BY <2>1, DecisionFacts DEF Targets
    <3> QED BY <1>1, <2>1, <3>1, <3>2, TargetWithinHalf
  <2>2. CASE t \notin Targets(d)
    BY <1>2, <2>2, DecisionFacts
  <2> QED BY <2>1, <2>2
<1> QED BY <1>1, <1>3 DEF Rebalanced

(* After every action the holdings are at the decision's weights, to half  *)
(* a part, and nothing else is held.                                       *)
THEOREM RebalancedHolds == Spec => []Rebalanced
<1>1. Init => Rebalanced
  BY LossInit, PaperAssumption
<1>2. LossInv /\ Rebalanced /\ [Next]_vars => Rebalanced'
  <2> SUFFICES ASSUME LossInv, Rebalanced, [Next]_vars PROVE Rebalanced'
    OBVIOUS
  <2>1. CASE UNCHANGED <<last, positions>>
    BY <2>1 DEF Rebalanced
  <2>2. ASSUME NEW r \in Runners, NEW d \in Decisions, NEW priced \in SUBSET Tickers,
               NEW prices \in [priced -> Prices], Trade(r, d, prices)
        PROVE  Rebalanced'
    BY <2>2, TradeRebalances, PaperAssumption DEF LossInv
  <2>3. ASSUME NEW r \in Runners, NEW permitted \in PermitSets, BuildRunner(r, permitted)
        PROVE  UNCHANGED <<last, positions>>
    BY <2>3 DEF BuildRunner, brokerVars
  <2>4. ClockMoves \/ UNCHANGED vars => UNCHANGED <<last, positions>>
    BY DEF ClockMoves, vars, brokerVars, historyVars
  <2> QED BY <2>1, <2>2, <2>3, <2>4 DEF Next
<1> QED BY <1>1, <1>2, LossInvariant, PTL DEF Spec

-----------------------------------------------------------------------------
(* The books.                                                              *)

(* The equity an action rebalances is not negative.  It would be if the    *)
(* prices fell to the size of the rounding that overdrew the account; the  *)
(* action would then aim at selling what it does not hold.                 *)
Solvent == trades > 0 => last.equity >= 0

NothingShort == \A t \in Tickers : positions[t].qty >= 0

(* What is rounded from a positive amount is not negative.                 *)
LEMMA RoundDivOfNat ==
  ASSUME NEW a \in Nat, NEW b \in Nat \ {0}
  PROVE  RoundDiv(a, b) >= 0
<1> DEFINE d == RoundDiv(a, b)
<1>1. d \in Int /\ -b <= 2 * (d * b - a)
  BY RoundDivWithinHalf
<1> HIDE DEF d
<1>2. SUFFICES ASSUME d <= -1 PROVE FALSE
  BY <1>1 DEF d
<1>3. PICK k \in Nat : d = -1 - k
  BY <1>1, <1>2, -1 - d \in Nat
<1>4. d * b = -b - k * b /\ k * b \in Nat
  BY <1>3
<1> DEFINE m == k * b
<1>5. m \in Nat /\ -b <= 2 * (-b - m - a)
  BY <1>1, <1>4
<1> HIDE DEF m
<1> QED BY <1>5

(* No share of an equity that is not negative is.                          *)
LEMMA TargetsAreNatural ==
  ASSUME PaperAssumption, AccountTyped, NEW d \in Decisions,
         NEW priced \in SUBSET Tickers, NEW prices \in [priced -> Prices],
         Involved(d) \subseteq priced, Equity(prices) >= 0
  PROVE  \A t \in Tickers : TargetQty(d, prices, t) >= 0
<1>1. Equity(prices) \in Nat
  BY TradeTyped
<1>2. ASSUME NEW t \in Targets(d) PROVE TargetQty(d, prices, t) >= 0
  <2>1. prices[t] \in Nat \ {0}
    BY TradeTyped
  <2>2. d.weights[t] \in Nat /\ WeightUnits \in Nat \ {0}
    BY DecisionFacts
  <2>3. WeightUnits * prices[t] \in Nat \ {0} /\ Equity(prices) * d.weights[t] \in Nat
    BY <1>1, <2>1, <2>2
  <2> QED BY <2>3, RoundDivOfNat DEF TargetQty
<1> QED BY <1>1, <1>2 DEF TargetQty

(* What an action does to the cost of one holding, beside what it pays and *)
(* what it realises.                                                       *)
Off(d, prices, t) ==
  positions'[t].qty * positions'[t].avg_cost - positions[t].qty * positions[t].avg_cost
    - AvgUnits * Moved(d, prices)[t] - Gains(d, prices)[t]

(* For each holding that is what rounding its average cost changes, and that *)
(* only if it is added to: half a part for each part held.                 *)
LEMMA HoldingBalances ==
  ASSUME PaperAssumption, AccountTyped, NothingShort,
         NEW r \in Runners, NEW d \in Decisions,
         NEW priced \in SUBSET Tickers, NEW prices \in [priced -> Prices],
         Trade(r, d, prices), Equity(prices) >= 0, NEW t \in Tickers
  PROVE  /\ Off(d, prices, t) \in Int
         /\ 2 * Off(d, prices, t) <= Added(d, prices)[t]
         /\ -(2 * Off(d, prices, t)) <= Added(d, prices)[t]
<1> DEFINE q == positions[t].qty  a == positions[t].avg_cost
           Q == positions'[t].qty  A == positions'[t].avg_cost
           T == TargetQty(d, prices, t)  D == Delta(d, prices, t)
           U == AvgUnits
           m == Moved(d, prices)[t]  g == Gains(d, prices)[t]  n == Added(d, prices)[t]
           o == Off(d, prices, t)
<1>1. Involved(d) \subseteq priced
  BY DEF Trade
<1>2. /\ q \in Int /\ a \in Int /\ q >= 0 /\ T \in Int /\ D \in Int /\ D = T - q
      /\ U \in Nat \ {0} /\ T >= 0
  BY <1>1, TradeTyped, TargetsAreNatural, DecisionFacts DEF NothingShort, Delta
<1>3. Q \in Int /\ A \in Int /\ Q = IF t \in Targets(d) THEN T ELSE 0
  BY TradeKeepsTypes DEF AccountTyped, Holding
<1>4. Q = T
  BY <1>3 DEF TargetQty
<1>5. Q * A = 0 \/ (t \in Involved(d) /\ A = AvgCostAfter(d, prices, t))
  <2>1. CASE positions'[t] = Flat
    BY <1>3, <2>1 DEF Flat
  <2> QED BY <2>1, TradeKeepsTypes
<1>6. m = IF t \in Involved(d) THEN D * prices[t] ELSE 0
  BY DEF Moved
<1>7. g = IF t \in Sold(d, prices) THEN (a - prices[t] * U) * D ELSE 0
  BY DEF Gains
<1>8. n = IF t \in Bought(d, prices) \cap Held THEN Q ELSE 0
  BY DEF Added
<1>9. o = Q * A - q * a - U * m - g
  BY DEF Off
<1>10. t \in Held <=> q > 0
  BY DEF Held
<1>11. /\ t \in Sold(d, prices) <=> t \in Involved(d) /\ D < 0
       /\ t \in Bought(d, prices) <=> t \in Involved(d) /\ D > 0
  BY DEF Sold, Bought
<1>12. Q = 0 => Q * A = 0
  BY <1>3
<1>13. o = 0 \/ (n = Q /\ 2 * o <= Q /\ -Q <= 2 * o)
  <2>1. CASE t \notin Involved(d)
    <3>1. q = 0 /\ Q = 0
      BY <1>2, <1>3, <1>10, <2>1 DEF Involved
    <3>2. m = 0 /\ g = 0 /\ Q * A = 0 /\ q * a = 0 /\ U * 0 = 0
      BY <1>2, <1>6, <1>7, <1>11, <1>12, <2>1, <3>1
    <3> HIDE DEF m, g, Q, A, q, a, U, o
    <3> QED BY <1>9, <3>2
  <2>2. CASE t \in Involved(d)
    <3> DEFINE p == prices[t]
    <3>1. p \in Nat \ {0}
      BY <1>1, <2>2, TradeTyped
    <3>2. m = D * p
      BY <1>6, <2>2
    <3>3. CASE D < 0
      <4>1. t \notin Bought(d, prices) /\ g = (a - p * U) * D
        BY <1>2, <1>7, <1>11, <2>2, <3>3
      <4>2. Q * A = Q * a
        <5>1. CASE Q = 0
          <6> HIDE DEF Q, A, a
          <6> QED BY <1>2, <1>12, <5>1
        <5>2. CASE A = AvgCostAfter(d, prices, t)
          BY <4>1, <5>2 DEF AvgCostAfter
        <5>3. Q # 0 => Q * A # 0 \/ A = AvgCostAfter(d, prices, t) \/ A = 0
          <6> HIDE DEF Q, A
          <6> QED BY <1>3
        <5>4. CASE positions'[t] = Flat
          <6>1. Q = 0
            BY <5>4 DEF Flat
          <6> QED BY <5>1, <6>1
        <5> QED BY <5>2, <5>4, TradeKeepsTypes
      <4> HIDE DEF m, g, Q, A, q, a, U, o, p, D
      <4>3. Q * a - q * a - U * (D * p) - (a - p * U) * D = 0
        BY <1>2, <1>3, <1>4, <3>1
      <4> QED BY <1>9, <3>2, <4>1, <4>2, <4>3
    <3>4. CASE D = 0
      <4>1. g = 0 /\ t \notin Bought(d, prices)
        BY <1>7, <1>11, <3>4
      <4>2. Q = q
        <5> HIDE DEF D, T, Q, q
        <5> QED BY <1>2, <1>4, <3>4
      <4>3. Q * A = q * a
        <5>1. CASE A = AvgCostAfter(d, prices, t)
          BY <4>1, <4>2, <5>1 DEF AvgCostAfter
        <5>2. CASE positions'[t] = Flat
          <6>1. Q = 0
            BY <5>2 DEF Flat
          <6> HIDE DEF Q, q, A, a
          <6> QED BY <1>2, <1>12, <4>2, <6>1
        <5> QED BY <5>1, <5>2, TradeKeepsTypes
      <4> HIDE DEF m, g, Q, A, q, a, U, o, p, D
      <4>4. U * (D * p) = 0 /\ q * a \in Int
        BY <1>2, <3>1, <3>4
      <4> QED BY <1>9, <3>2, <4>1, <4>3, <4>4
    <3>5. CASE D > 0
      <4>1. g = 0 /\ t \in Bought(d, prices)
        BY <1>2, <1>7, <1>11, <2>2, <3>5
      <4>2. Q > 0
        <5> HIDE DEF D, T, Q, q
        <5> QED BY <1>2, <1>4, <3>5
      <4>3. A = AvgCostAfter(d, prices, t)
        <5>1. positions'[t] # Flat
          BY <4>2 DEF Flat
        <5> QED BY <5>1, TradeKeepsTypes
      <4>4. CASE t \notin Held
        <5>1. A = p * U /\ q = 0
          BY <1>2, <1>10, <4>1, <4>3, <4>4 DEF AvgCostAfter
        <5> HIDE DEF m, g, Q, A, q, a, U, o, p, D, T
        <5>2. D = Q /\ q * a = 0
          BY <1>2, <1>4, <5>1
        <5>3. Q * (p * U) = U * (Q * p) /\ Q * (p * U) \in Int
          BY <1>2, <1>3, <3>1
        <5> QED BY <1>9, <3>2, <4>1, <5>1, <5>2, <5>3
      <4>5. CASE t \in Held
        <5>1. n = Q
          BY <1>8, <4>1, <4>5
        <5>2. A = RoundDiv(q * a + D * p * U, T)
          BY <4>1, <4>3, <4>5 DEF AvgCostAfter
        <5> HIDE DEF m, g, Q, A, q, a, U, o, p, D, T, n
        <5>3. q * a + D * p * U \in Int /\ T \in Nat \ {0}
          BY <1>2, <1>4, <3>1, <4>2
        <5>4. 2 * (A * Q - (q * a + D * p * U)) <= Q /\ -Q <= 2 * (A * Q - (q * a + D * p * U))
          BY <1>4, <5>2, <5>3, RoundDivWithinHalf
        <5>5. A * Q = Q * A /\ D * p * U = U * (D * p)
          BY <1>2, <1>3, <3>1
        <5> DEFINE c == Q * A  e == q * a  h == U * (D * p)
        <5>6. o = c - e - h - 0 /\ c \in Int /\ e \in Int /\ h \in Int
          BY <1>2, <1>3, <1>9, <3>1, <3>2, <4>1
        <5>7. 2 * (c - (e + h)) <= Q /\ -Q <= 2 * (c - (e + h))
          BY <5>4, <5>5
        <5> HIDE DEF c, e, h
        <5> QED BY <1>3, <5>1, <5>6, <5>7
      <4> QED BY <4>4, <4>5
    <3> HIDE DEF D
    <3> QED BY <1>2, <3>3, <3>4, <3>5
  <2> QED BY <2>1, <2>2
<1>14. n = 0 \/ n = Q
  BY <1>8
<1>15. m \in Int /\ g \in Int
  BY <1>1, TradeTyped DEF Amounts
<1> HIDE DEF m, g, Q, A, q, a, U, o, n, T
<1>16. o \in Int
  <2>1. Q * A \in Int /\ q * a \in Int /\ U * m \in Int
    BY <1>2, <1>3, <1>15
  <2> QED BY <1>9, <1>15, <2>1
<1>17. 2 * o <= n /\ -(2 * o) <= n
  BY <1>2, <1>3, <1>4, <1>13, <1>14, <1>16
<1> QED BY <1>16, <1>17 DEF o, n

(* The holdings at cost move by what is paid and what is realised, to half *)
(* a part for each part of a holding that was added to.                    *)
LEMMA CostsMove ==
  ASSUME PaperAssumption, AccountTyped, NothingShort,
         NEW r \in Runners, NEW d \in Decisions,
         NEW priced \in SUBSET Tickers, NEW prices \in [priced -> Prices],
         Trade(r, d, prices), Equity(prices) >= 0
  PROVE  LET moved == SumFunction(Moved(d, prices))
             gains == SumFunction(Gains(d, prices))
             added == SumFunction(Added(d, prices))
             before == SumFunction(Costs)
             after == SumFunction(Costs')
         IN  /\ moved \in Int /\ gains \in Int /\ added \in Int
             /\ before \in Int /\ after \in Int
             /\ 2 * (after - before - AvgUnits * moved - gains) <= added
             /\ -added <= 2 * (after - before - AvgUnits * moved - gains)
<1> DEFINE M == Moved(d, prices)  G == Gains(d, prices)  N == Added(d, prices)
           C == Costs  D == Costs'
           UM == [t \in Tickers |-> AvgUnits * M[t]]
           X == [t \in Tickers |-> UM[t] + G[t]]
           Y == [t \in Tickers |-> C[t] + X[t]]
           O == [t \in Tickers |-> Off(d, prices, t)]
           Two == [t \in Tickers |-> 2 * O[t]]
           Less == [t \in Tickers |-> (-2) * O[t]]
<1>1. Involved(d) \subseteq priced /\ AvgUnits \in Int
  BY DecisionFacts DEF Trade
<1>2. M \in Amounts /\ G \in Amounts
  BY <1>1, TradeTyped
<1>3. /\ \A t \in Tickers : positions[t].qty \in Int /\ positions[t].avg_cost \in Int
      /\ \A t \in Tickers : positions'[t].qty \in Int /\ positions'[t].avg_cost \in Int
  BY TradeKeepsTypes DEF AccountTyped, Holding
<1>4. C \in Amounts /\ D \in Amounts /\ N \in Amounts
  BY <1>3 DEF Costs, Added, Amounts
<1>5. UM \in Amounts
  BY <1>1, <1>2 DEF Amounts
<1>6. /\ \A t \in Tickers : O[t] \in Int /\ 2 * O[t] <= N[t] /\ -(2 * O[t]) <= N[t]
      /\ \A t \in Tickers : O[t] = D[t] - C[t] - UM[t] - G[t]
  BY HoldingBalances DEF Off, Costs
<1> HIDE DEF M, G, N, C, D
<1>7. X \in Amounts
  BY <1>2, <1>5 DEF Amounts
<1>8. Y \in Amounts
  <2> HIDE DEF X
  <2> QED BY <1>4, <1>7 DEF Amounts
<1>9. O \in Amounts
  BY <1>6 DEF Amounts
<1>10. \A t \in Tickers : D[t] = Y[t] + O[t]
  <2>1. SUFFICES ASSUME NEW t \in Tickers PROVE D[t] = Y[t] + O[t]
    OBVIOUS
  <2>2. Y[t] = C[t] + (UM[t] + G[t])
    OBVIOUS
  <2>3. C[t] \in Int /\ UM[t] \in Int /\ G[t] \in Int /\ D[t] \in Int
    BY <1>2, <1>4, <1>5 DEF Amounts
  <2>4. O[t] = D[t] - C[t] - UM[t] - G[t]
    BY <1>6
  <2> HIDE DEF Y, UM, O
  <2> QED BY <2>2, <2>3, <2>4
<1>11. Two \in Amounts /\ Less \in Amounts
  <2> HIDE DEF O
  <2> QED BY <1>9 DEF Amounts
<1>12. (\A t \in Tickers : Two[t] = 2 * O[t]) /\ (\A t \in Tickers : Less[t] = (-2) * O[t])
  OBVIOUS
<1>13. (\A t \in Tickers : Two[t] <= N[t]) /\ (\A t \in Tickers : Less[t] <= N[t])
  <2> HIDE DEF O, Two, Less
  <2> QED BY <1>6, <1>9, <1>12 DEF Amounts
<1>14. /\ \A t \in Tickers : UM[t] = AvgUnits * M[t]
       /\ \A t \in Tickers : X[t] = UM[t] + G[t]
       /\ \A t \in Tickers : Y[t] = C[t] + X[t]
  OBVIOUS
<1> HIDE DEF O, Two, Less, UM, X, Y
<1>15. SumFunction(UM) = AvgUnits * SumFunction(M)
  BY <1>1, <1>2, <1>5, <1>14, SumScales
<1>16. SumFunction(X) = SumFunction(UM) + SumFunction(G)
  BY <1>2, <1>5, <1>7, <1>14, SumAdds
<1>17. SumFunction(Y) = SumFunction(C) + SumFunction(X)
  BY <1>4, <1>7, <1>8, <1>14, SumAdds
<1>18. SumFunction(D) = SumFunction(Y) + SumFunction(O)
  BY <1>4, <1>8, <1>9, <1>10, SumAdds
<1>19. SumFunction(Two) = 2 * SumFunction(O) /\ SumFunction(Less) = (-2) * SumFunction(O)
  BY <1>9, <1>11, <1>12, SumScales
<1>20. SumFunction(Two) <= SumFunction(N) /\ SumFunction(Less) <= SumFunction(N)
  BY <1>4, <1>11, <1>13, SumOrders
<1> DEFINE m == SumFunction(M)  g == SumFunction(G)  n == SumFunction(N)
           c == SumFunction(C)  e == SumFunction(D)  o == SumFunction(O)
           um == AvgUnits * m
<1>21. m \in Int /\ g \in Int /\ n \in Int /\ c \in Int /\ e \in Int /\ o \in Int
  BY <1>2, <1>4, <1>9, SumTyped
<1>22. e = c + (um + g) + o /\ um \in Int
  BY <1>1, <1>15, <1>16, <1>17, <1>18, <1>21
<1>23. 2 * o <= n /\ (-2) * o <= n
  BY <1>19, <1>20
<1>24. 2 * (e - c - um - g) <= n /\ -n <= 2 * (e - c - um - g)
  <2> HIDE DEF m, g, n, c, e, o, um
  <2> QED BY <1>21, <1>22, <1>23
<1> QED BY <1>21, <1>24 DEF M, G, N, C, D

(* The books stay balanced, and nothing is sold short.                     *)
BooksInv == AccountTyped /\ NothingShort /\ BooksBalance

(* A new account's books are balanced.                                     *)
LEMMA BooksInit == ASSUME PaperAssumption, Init PROVE BooksInv
<1>1. AccountTyped
  BY LossInit DEF LossInv
<1>2. NothingShort /\ Costs \in Amounts /\ \A t \in Tickers : Costs[t] = 0
  BY DEF Init, Flat, NothingShort, Costs, Amounts
<1>3. SumFunction(Costs) = 0
  BY <1>2, SumOfZeros
<1>4. cash = Capital * Units /\ realized_pnl = 0 /\ slack = 0
  BY DEF Init
<1>5. AvgUnits \in Nat /\ Capital \in Nat /\ Units \in Nat
  BY DEF PaperAssumption
<1>6. AvgUnits * (Capital * Units) = AvgUnits * Capital * Units
      /\ AvgUnits * (Capital * Units) \in Int
  BY <1>5
<1>7. BooksBalance
  BY <1>3, <1>4, <1>6 DEF BooksBalance, SumOver, Costs
<1> QED BY <1>1, <1>2, <1>7 DEF BooksInv

(* An action of a solvent account keeps the books balanced.                *)
LEMMA TradeKeepsBooks ==
  ASSUME PaperAssumption, BooksInv, NEW r \in Runners, NEW d \in Decisions,
         NEW priced \in SUBSET Tickers, NEW prices \in [priced -> Prices],
         Trade(r, d, prices), Equity(prices) >= 0
  PROVE  BooksInv'
<1>1. Involved(d) \subseteq priced /\ Rebalance(d, prices)
  BY DEF Trade
<1>2. AccountTyped' /\ NothingShort'
  BY <1>1, TradeKeepsTypes, TargetsAreNatural DEF BooksInv, NothingShort
<1> DEFINE m == SumFunction(Moved(d, prices))  g == SumFunction(Gains(d, prices))
           n == SumFunction(Added(d, prices))  c == SumFunction(Costs)
           e == SumFunction(Costs')  k == AvgUnits * Capital * Units
           um == AvgUnits * m  uc == AvgUnits * cash
<1>3. cash' = cash - m /\ realized_pnl' = realized_pnl + g
  BY <1>1, SumsOfTheModel
<1>4. slack' = slack + n
  BY DEF Trade, SumOver, Added
<1>5. /\ m \in Int /\ g \in Int /\ n \in Int /\ c \in Int /\ e \in Int
      /\ 2 * (e - c - um - g) <= n /\ -n <= 2 * (e - c - um - g)
  BY CostsMove DEF BooksInv
<1>6. 2 * (uc + c - k - realized_pnl) <= slack /\ -(2 * (uc + c - k - realized_pnl)) <= slack
  BY DEF BooksInv, BooksBalance, SumOver, Costs
<1>7. AvgUnits \in Int /\ k \in Int /\ cash \in Int /\ realized_pnl \in Int /\ slack \in Int
  BY DEF PaperAssumption, BooksInv, AccountTyped
<1> HIDE DEF m, g, n, c, e, k
<1>8. um \in Int /\ uc \in Int /\ AvgUnits * cash' = uc - um
  BY <1>3, <1>5, <1>7
<1> HIDE DEF um, uc
<1>9. 2 * (uc - um + e - k - (realized_pnl + g)) <= slack + n
      /\ -(2 * (uc - um + e - k - (realized_pnl + g))) <= slack + n
  BY <1>5, <1>6, <1>7, <1>8
<1>10. 2 * (AvgUnits * cash' + e - k - realized_pnl') <= slack'
       /\ -(2 * (AvgUnits * cash' + e - k - realized_pnl')) <= slack'
  BY <1>3, <1>4, <1>8, <1>9
<1>11. BooksBalance'
  BY <1>10 DEF BooksBalance, SumOver, Costs, e, k
<1> QED BY <1>2, <1>11 DEF BooksInv

(* So does every step of it.                                               *)
LEMMA BooksStep == ASSUME PaperAssumption, BooksInv, Solvent', [Next]_vars PROVE BooksInv'
<1>1. CASE UNCHANGED <<cash, positions, realized_pnl, slack>> /\ AccountTyped'
  <2>1. Costs' = Costs /\ NothingShort'
    BY <1>1 DEF Costs, BooksInv, NothingShort
  <2>2. BooksBalance'
    BY <1>1, <2>1 DEF BooksInv, BooksBalance, SumOver, Costs
  <2> QED BY <1>1, <2>1, <2>2 DEF BooksInv
<1>2. ASSUME NEW r \in Runners, NEW d \in Decisions, NEW priced \in SUBSET Tickers,
             NEW prices \in [priced -> Prices], Trade(r, d, prices)
      PROVE  BooksInv'
  <2>1. trades' = trades + 1 /\ last'.equity = Equity(prices) /\ trades \in Nat
    BY <1>2 DEF Trade, BooksInv, AccountTyped
  <2>2. Equity(prices) >= 0
    BY <2>1 DEF Solvent
  <2> QED BY <1>2, <2>2, TradeKeepsBooks
<1>3. ASSUME NEW r \in Runners, NEW permitted \in PermitSets, BuildRunner(r, permitted)
      PROVE  UNCHANGED <<cash, positions, realized_pnl, slack>> /\ AccountTyped'
  BY <1>3, BuildKeepsTypes DEF BooksInv, BuildRunner, brokerVars
<1>4. ClockMoves \/ UNCHANGED vars =>
        UNCHANGED <<cash, positions, realized_pnl, slack>> /\ AccountTyped'
  BY DEF PaperAssumption, ClockMoves, vars, brokerVars, historyVars, BooksInv, AccountTyped
<1> QED BY <1>1, <1>2, <1>3, <1>4 DEF Next

(* Whatever the decisions, the runners and the days, cash, holdings at     *)
(* cost and realised profit of an account that stays solvent add up to its *)
(* capital, to the rounding of the averages.                               *)
THEOREM BooksHold == Spec /\ []Solvent => []BooksBalance
<1>1. Init => BooksInv
  BY BooksInit, PaperAssumption
<1>2. BooksInv /\ Solvent' /\ [Next]_vars => BooksInv'
  BY BooksStep, PaperAssumption
<1>3. BooksInv => BooksBalance
  BY DEF BooksInv
<1> QED BY <1>1, <1>2, <1>3, PTL DEF Spec

-----------------------------------------------------------------------------
(* The overdraft.                                                          *)

(* What the targets of an action are worth, and one part of each of them.  *)
TargetWorth(d, prices) ==
  [t \in Tickers |-> IF t \in Targets(d) THEN TargetQty(d, prices, t) * prices[t] ELSE 0]
TargetPrices(d, prices) == [t \in Tickers |-> IF t \in Targets(d) THEN prices[t] ELSE 0]
RoundedUp == SumFunction([t \in Tickers |-> IF t \in Targets(last.decision)
                                            THEN last.prices[t] ELSE 0])

(* An action turns the equity into its targets, and leaves the rest.       *)
LEMMA TargetsAreBought ==
  ASSUME PaperAssumption, AccountTyped, NothingShort, NEW d \in Decisions,
         NEW priced \in SUBSET Tickers, NEW prices \in [priced -> Prices],
         Involved(d) \subseteq priced, Rebalance(d, prices)
  PROVE  /\ TargetWorth(d, prices) \in Amounts
         /\ cash' = Equity(prices) - SumFunction(TargetWorth(d, prices))
<1> DEFINE V == TargetWorth(d, prices)  H == Worth(prices)  M == Moved(d, prices)
<1>1. H \in Amounts /\ M \in Amounts
  BY TradeTyped
<1>2. \A t \in Targets(d) : TargetQty(d, prices, t) * prices[t] \in Int
  <2>1. \A t \in Targets(d) : TargetQty(d, prices, t) \in Int /\ prices[t] \in Int
    BY TradeTyped, DecisionFacts
  <2> QED BY <2>1
<1>3. V \in Amounts
  BY <1>2 DEF TargetWorth, Amounts
<1>4. ASSUME NEW t \in Tickers PROVE V[t] = M[t] + H[t]
  <2> DEFINE q == positions[t].qty  T == TargetQty(d, prices, t)  p == prices[t]
  <2>1. /\ q \in Int /\ q >= 0 /\ T \in Int /\ Delta(d, prices, t) = T - q
        /\ t \notin Targets(d) => T = 0 /\ V[t] = 0
        /\ t \in Targets(d) => V[t] = T * p
        /\ H[t] = IF q > 0 THEN q * p ELSE 0
        /\ M[t] = IF t \in Involved(d) THEN (T - q) * p ELSE 0
    BY TradeTyped DEF NothingShort, Delta, TargetQty, TargetWorth, Worth, Held, Moved
  <2>2. t \notin Involved(d) => t \notin Targets(d) /\ ~(q > 0)
    BY DEF Involved, Held
  <2>3. t \in Involved(d) => p \in Int
    BY TradeTyped
  <2> HIDE DEF V, H, M, q, T, p
  <2>4. CASE t \in Involved(d)
    <3>1. p \in Int /\ (T - q) * p = T * p - q * p /\ T * p \in Int /\ q * p \in Int
      BY <2>1, <2>3, <2>4
    <3>2. V[t] = T * p
      BY <2>1, <3>1
    <3>3. H[t] = q * p
      BY <2>1, <3>1
    <3> DEFINE x == T * p  y == q * p
    <3>4. x \in Int /\ y \in Int /\ M[t] = x - y /\ V[t] = x /\ H[t] = y
      BY <2>1, <2>4, <3>1, <3>2, <3>3
    <3> HIDE DEF x, y
    <3> QED BY <3>4
  <2> QED BY <2>1, <2>2, <2>4
<1> HIDE DEF V, H, M
<1>5. SumFunction(V) = SumFunction(M) + SumFunction(H)
  BY <1>1, <1>3, <1>4, SumAdds
<1>6. cash' = cash - SumFunction(M) /\ Equity(prices) = cash + SumFunction(H) /\ cash \in Int
  BY SumsOfTheModel DEF AccountTyped, M, H
<1>7. SumFunction(M) \in Int /\ SumFunction(H) \in Int
  BY <1>1, SumTyped
<1>8. cash' = Equity(prices) - SumFunction(V)
  BY <1>5, <1>6, <1>7
<1> QED BY <1>3, <1>8 DEF V

(* The targets together are worth no more than the equity and half a part  *)
(* of each.                                                                *)
LEMMA TargetsArePaidFor ==
  ASSUME PaperAssumption, AccountTyped, NEW d \in Decisions,
         NEW priced \in SUBSET Tickers, NEW prices \in [priced -> Prices],
         Involved(d) \subseteq priced, Equity(prices) >= 0, TargetWorth(d, prices) \in Amounts
  PROVE  LET targets == SumFunction(TargetWorth(d, prices))
             parts == SumFunction(TargetPrices(d, prices))
         IN  /\ targets \in Int /\ parts \in Int
             /\ 2 * targets <= 2 * Equity(prices) + parts
<1> DEFINE V == TargetWorth(d, prices)  P == TargetPrices(d, prices)
           E == Equity(prices)  W == WeightUnits
           A == [t \in Tickers |-> (2 * W) * V[t]]
           B == [t \in Tickers |-> (2 * E) * d.weights[t]]
           C == [t \in Tickers |-> W * P[t]]
           D == [t \in Tickers |-> B[t] + C[t]]
<1>1. E \in Nat /\ W \in Nat \ {0} /\ V \in Amounts
  <2>1. E \in Int /\ E >= 0
    BY TradeTyped
  <2> QED BY <2>1, DecisionFacts
<1>2. P \in Amounts
  <2>1. \A t \in Targets(d) : prices[t] \in Int
    BY TradeTyped
  <2> QED BY <2>1 DEF TargetPrices, Amounts
<1>3. d.weights \in Amounts /\ SumFunction(d.weights) <= W
  BY DecisionFacts DEF Amounts
<1>4. \A t \in Tickers : A[t] <= D[t]
  <2>1. SUFFICES ASSUME NEW t \in Tickers PROVE A[t] <= D[t]
    OBVIOUS
  <2> DEFINE q == TargetQty(d, prices, t)  p == prices[t]  w == d.weights[t]
  <2>2. A[t] = (2 * W) * V[t] /\ D[t] = (2 * E) * w + W * P[t]
    OBVIOUS
  <2>3. CASE t \in Targets(d)
    <3>1. V[t] = q * p /\ P[t] = p
      BY <2>3 DEF TargetWorth, TargetPrices
    <3>2. q \in Int /\ p \in Int /\ w \in Int
      BY <2>3, TradeTyped, DecisionFacts
    <3>3. 2 * (q * p * W - E * w) <= p * W
      BY <2>3, TargetWithinHalf
    <3> HIDE DEF q, p, w, V, P, E, W, A, D
    <3>4. (2 * W) * (q * p) = 2 * (q * p * W) /\ (2 * E) * w = 2 * (E * w) /\ W * p = p * W
      BY <1>1, <3>2
    <3> DEFINE x == q * p * W  y == E * w  z == p * W
    <3>5. /\ x \in Int /\ y \in Int /\ z \in Int /\ 2 * (x - y) <= z
          /\ A[t] = 2 * x /\ D[t] = 2 * y + z
      BY <1>1, <2>2, <3>1, <3>2, <3>3, <3>4
    <3> HIDE DEF x, y, z
    <3> QED BY <3>5
  <2>4. CASE t \notin Targets(d)
    <3>1. V[t] = 0 /\ P[t] = 0 /\ w = 0
      BY <2>4, DecisionFacts DEF TargetWorth, TargetPrices
    <3> HIDE DEF w, V, P, E, W, A, D
    <3>2. (2 * W) * 0 = 0 /\ (2 * E) * 0 = 0 /\ W * 0 = 0
      BY <1>1
    <3> QED BY <2>2, <3>1, <3>2
  <2> QED BY <2>3, <2>4
<1> HIDE DEF V, P, E, W
<1>5. A \in Amounts /\ B \in Amounts /\ C \in Amounts
  BY <1>1, <1>2, <1>3 DEF Amounts
<1>6. /\ \A t \in Tickers : A[t] = (2 * W) * V[t]
      /\ \A t \in Tickers : B[t] = (2 * E) * d.weights[t]
      /\ \A t \in Tickers : C[t] = W * P[t]
      /\ \A t \in Tickers : D[t] = B[t] + C[t]
  OBVIOUS
<1>7. D \in Amounts
  <2> HIDE DEF B, C
  <2> QED BY <1>5 DEF Amounts
<1> HIDE DEF A, B, C, D
<1>8. 2 * W \in Int /\ 2 * E \in Int
  BY <1>1
<1>9. SumFunction(A) = (2 * W) * SumFunction(V)
  BY <1>1, <1>5, <1>6, <1>8, SumScales
<1>10. SumFunction(B) = (2 * E) * SumFunction(d.weights)
  BY <1>3, <1>5, <1>6, <1>8, SumScales
<1>11. SumFunction(C) = W * SumFunction(P)
  BY <1>1, <1>2, <1>5, <1>6, SumScales
<1>12. SumFunction(D) = SumFunction(B) + SumFunction(C)
  BY <1>5, <1>6, <1>7, SumAdds
<1>13. SumFunction(A) <= SumFunction(D)
  BY <1>4, <1>5, <1>7, SumOrders
<1> DEFINE v == SumFunction(V)  p == SumFunction(P)  w == SumFunction(d.weights)
<1>14. v \in Int /\ p \in Int /\ w \in Int
  BY <1>1, <1>2, <1>3, SumTyped
<1>15. (2 * W) * v <= (2 * E) * w + W * p /\ w <= W
  BY <1>3, <1>9, <1>10, <1>11, <1>12, <1>13
<1> HIDE DEF v, p, w
<1>16. E * w <= E * W
  <2>1. PICK k \in Nat : W = w + k
    BY <1>1, <1>14, <1>15, W - w \in Nat
  <2>2. E * W = E * w + E * k /\ E * k \in Nat /\ E * w \in Int
    BY <1>1, <1>14, <2>1
  <2> QED BY <2>2
<1>17. W * (2 * v - 2 * E - p) <= 0
  <2> DEFINE x == W * v  y == E * w  z == W * p  u == E * W
  <2>1. /\ (2 * W) * v = 2 * x /\ (2 * E) * w = 2 * y
        /\ W * (2 * v - 2 * E - p) = 2 * x - 2 * u - z
    BY <1>1, <1>14
  <2>2. x \in Int /\ y \in Int /\ z \in Int /\ u \in Int /\ y <= u /\ 2 * x <= 2 * y + z
    BY <1>1, <1>14, <1>15, <1>16, <2>1
  <2> HIDE DEF x, y, z, u
  <2> QED BY <2>1, <2>2
<1>18. 2 * v - 2 * E - p <= 0
  <2>1. \A x \in Nat \ {0}, y \in Nat \ {0} : x * y > 0
    OBVIOUS
  <2>2. 2 * v - 2 * E - p \in Int
    BY <1>1, <1>14
  <2> DEFINE y == 2 * v - 2 * E - p
  <2>3. y \in Int /\ W * y <= 0
    BY <1>17, <2>2
  <2> HIDE DEF y
  <2>4. y <= 0
    BY <1>1, <2>1, <2>3
  <2> QED BY <2>4 DEF y
<1>19. 2 * v <= 2 * E + p
  BY <1>1, <1>14, <1>18
<1> QED BY <1>14, <1>19 DEF v, p, V, P, E

(* An account that stays solvent is never overdrawn by more than rounding  *)
(* its targets up may cost: a buy is paid for by cash and sales.           *)
THEOREM OverdraftIsBounded == Spec /\ []Solvent => []OverdraftBounded
<1>1. Init => BooksInv /\ OverdraftBounded
  <2> SUFFICES ASSUME Init PROVE BooksInv /\ OverdraftBounded
    OBVIOUS
  <2>1. cash = Capital * Units /\ trades = 0 /\ Capital \in Nat /\ Units \in Nat
    BY PaperAssumption DEF Init, PaperAssumption
  <2>2. cash >= 0
    BY <2>1
  <2> QED BY <2>1, <2>2, BooksInit, PaperAssumption DEF OverdraftBounded
<1>2. BooksInv /\ Solvent' /\ OverdraftBounded /\ [Next]_vars => OverdraftBounded'
  <2> SUFFICES ASSUME BooksInv, Solvent', OverdraftBounded, [Next]_vars
               PROVE  OverdraftBounded'
    OBVIOUS
  <2>1. CASE UNCHANGED <<cash, trades, last>>
    <3>1. RoundedUp' = RoundedUp
      BY <2>1 DEF RoundedUp
    <3> QED BY <2>1, <3>1 DEF OverdraftBounded, RoundedUp, SumOver
  <2>2. ASSUME NEW r \in Runners, NEW d \in Decisions, NEW priced \in SUBSET Tickers,
               NEW prices \in [priced -> Prices], Trade(r, d, prices)
        PROVE  OverdraftBounded'
    <3>1. /\ Involved(d) \subseteq priced /\ Rebalance(d, prices) /\ trades' = trades + 1
          /\ last'.decision = d /\ last'.prices = prices /\ last'.equity = Equity(prices)
      BY <2>2 DEF Trade
    <3>2. trades' > 0 /\ AccountTyped /\ NothingShort
      BY <3>1 DEF BooksInv, AccountTyped
    <3>7. Equity(prices) >= 0
      BY <3>1, <3>2 DEF Solvent
    <3> DEFINE v == SumFunction(TargetWorth(d, prices))
               p == SumFunction(TargetPrices(d, prices))  e == Equity(prices)
    <3>3. cash' = e - v /\ TargetWorth(d, prices) \in Amounts
      BY <3>1, <3>2, TargetsAreBought, PaperAssumption
    <3>4. v \in Int /\ p \in Int /\ 2 * v <= 2 * e + p /\ e \in Int
      BY <3>1, <3>2, <3>3, <3>7, TargetsArePaidFor, TradeTyped, PaperAssumption
    <3> HIDE DEF v, p, e
    <3>5. 2 * cash' >= -p
      BY <3>3, <3>4
    <3>6. p = RoundedUp'
      BY <3>1 DEF p, RoundedUp, TargetPrices
    <3> QED BY <3>2, <3>5, <3>6 DEF OverdraftBounded, RoundedUp, SumOver
  <2>3. ASSUME NEW r \in Runners, NEW permitted \in PermitSets, BuildRunner(r, permitted)
        PROVE  UNCHANGED <<cash, trades, last>>
    BY <2>3 DEF BuildRunner, brokerVars
  <2>4. ClockMoves \/ UNCHANGED vars => UNCHANGED <<cash, trades, last>>
    BY DEF ClockMoves, vars, brokerVars, historyVars
  <2> QED BY <2>1, <2>2, <2>3, <2>4 DEF Next
<1>3. Init => BooksInv
  BY <1>1
<1>4. BooksInv /\ Solvent' /\ [Next]_vars => BooksInv'
  BY BooksStep, PaperAssumption
<1> QED BY <1>1, <1>2, <1>4, PTL DEF Spec
=============================================================================
