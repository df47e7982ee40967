------------------------------- MODULE Backtest -------------------------------
(***************************************************************************)
(* The walk-forward backtest of one test window, with the strategies that  *)
(* ship with it: equal-weight buy and hold, momentum and mean reversion.   *)
(* The days of prices arrive one after the other, so every state is the    *)
(* input of a backtest that ends on its last day, and a step shows what    *)
(* one more day of data changes in the report.                             *)
(*                                                                         *)
(* Prices are small and every one divides Unit, so that returns, costs and *)
(* equity are exact integers: a return is in 1/Unit, a weight in 1/K, a    *)
(* day's result in 1/(Unit*K).  The Sharpe ratio is left out.              *)
(***************************************************************************)
EXTENDS Integers, Sequences, FiniteSets, SequencesExt

CONSTANTS
  Universe,   \* the plan's tickers, in its order
  Prices,     \* the closes a bar may show
  Unit,
  TopK,       \* top_k, bottom_k
  Lookback,   \* lookback_days
  Cost,       \* (cost_bps + slippage_bps) / 10000, in 1/Unit
  Strategies, \* those looked at, among "hold", "momentum", "reversion"
  Starts,     \* the days a test window may start on
  MaxDays     \* bound on the days of data

Tickers == ToSet(Universe)
Missing == 0

(* A ticker listed twice would have two rows a day, which _pivot refuses.   *)
ASSUME BacktestAssumption ==
  /\ Universe \in Seq(Tickers) /\ IsInjective(Universe)
  /\ Unit \in Nat \ {0} /\ Prices \subseteq Nat \ {0}
  /\ \A p \in Prices : Unit % p = 0
  /\ TopK \in 1..Len(Universe) /\ Lookback \in Nat \ {0}
  /\ Cost \in Nat /\ Starts \subseteq Nat \ {0} /\ MaxDays \in Nat
  /\ Strategies \subseteq {"hold", "momentum", "reversion"}

VARIABLES
  strategy, \* which executor runs
  start,    \* the first day of the test window
  closes    \* by day, the close of each ticker

vars == <<strategy, start, closes>>

TypeOK ==
  /\ strategy \in Strategies /\ start \in Starts
  /\ closes \in Seq([Tickers -> Prices \union {Missing}])

Init == strategy \in Strategies /\ start \in Starts /\ closes = <<>>

(* One more day: of each ticker the adjusted close of its bar, or its      *)
(* close, or no row when it has neither.  A day without rows is no day.    *)
NewDay ==
  /\ Len(closes) < MaxDays
  /\ \E day \in [Tickers -> Prices \union {Missing}] :
       /\ \E t \in Tickers : day[t] # Missing
       /\ closes' = Append(closes, day)
  /\ UNCHANGED <<strategy, start>>

Next == NewDay
Spec == Init /\ [][Next]_vars

Days == DOMAIN closes
Quoted(t, i) == closes[i][t] # Missing

-----------------------------------------------------------------------------
(* Signals.                                                                *)
K == IF strategy = "hold" THEN Len(Universe) ELSE TopK
Position(t) == CHOOSE n \in DOMAIN Universe : Universe[n] = t

(* The return over the lookback needs a close on both days.                *)
HasReturn(t, i) == Quoted(t, i) /\ Quoted(t, i - Lookback)
Higher(t, u, i) ==
  closes[i][t] * closes[i - Lookback][u] > closes[i][u] * closes[i - Lookback][t]

(* The direction: momentum looks for the highest returns, reversion for    *)
(* the lowest.                                                             *)
Ahead(t, u, i) == IF strategy = "momentum" THEN Higher(t, u, i) ELSE Higher(u, t, i)

(* t is placed before u: by its return, and a ticker without one, which    *)
(* gets the worst there is, last.                                          *)
BetterBug(t, u, i) == Ahead(t, u, i)  \* mutant: no sentinel, an absent close is a zero
Better(t, u, i) == HasReturn(t, i) /\ (HasReturn(u, i) => Ahead(t, u, i))

(* The sort is stable: tickers that tie stay in the order of the universe. *)
Before(t, u, i) ==
  Better(t, u, i) \/ (~Better(u, t, i) /\ Position(t) < Position(u))

Winners(i) == {t \in Tickers : Cardinality({u \in Tickers : Before(u, t, i)}) < K}

(* The weight the strategy wants at the close of day i: none before there  *)
(* is a lookback, the same for each winner from then on.                   *)
RankWeight(t, i) == IF i > Lookback /\ t \in Winners(i) THEN 1 ELSE 0
Weight(t, i) == IF strategy = "hold" THEN 1 ELSE RankWeight(t, i)

-----------------------------------------------------------------------------
(* The fold.  Its days are those of the window; its columns the tickers    *)
(* quoted in it, others are dropped with their signals.                    *)
Fold == {i \in Days : i >= start}
Columns == {t \in Tickers : \E i \in Fold : Quoted(t, i)}

(* A ticker without any row is an error, and so is a window without days.  *)
Reports == Fold # {} /\ \A t \in Tickers : \E i \in Days : Quoted(t, i)

LastQuoteBug(t, i) ==            \* mutant: gaps are not filled forward
  IF i \in Fold THEN closes[i][t] ELSE Missing
(* pct_change fills a gap with the last close before it, in the window.    *)
LastQuote(t, i) ==
  LET quotes == {j \in Fold : j <= i /\ Quoted(t, j)} IN
  IF quotes = {} THEN Missing
  ELSE closes[CHOOSE j \in quotes : \A k \in quotes : k <= j][t]

Return(t, i) ==
  LET now == LastQuote(t, i)  prior == LastQuote(t, i - 1) IN
  IF prior = Missing \/ now = Missing THEN 0 ELSE ((now - prior) * Unit) \div prior

(* The weight of a day is held over the next one; the first has none.      *)
HeldBug(t, i) == Weight(t, i)    \* mutant: the signal is not lagged
Held(t, i) == IF i - 1 \in Fold THEN Weight(t, i - 1) ELSE 0

SumOver(S, op(_)) == SumFunction([t \in Tickers |-> IF t \in S THEN op(t) ELSE 0])
Gross(i) == SumOver(Columns, LAMBDA t : Return(t, i) * Held(t, i))

(* What changes hands at the close of day i, from a flat book.             *)
Distance(a, b) == IF a > b THEN a - b ELSE b - a
Traded(i) == SumOver(Columns, LAMBDA t : Distance(Weight(t, i), Held(t, i)))

(* The net result of each day but the first: the trades of a day are paid  *)
(* out of the next one's.                                                  *)
Net(i) == Gross(i) - Cost * Traded(i - 1)
NetResults == [n \in 1..(Cardinality(Fold) - 1) |-> Net(start + n)]

(* Both count from a flat book before the first day; turnover is a sum     *)
(* here, the mean per day in the report.                                   *)
Turnover == SumFunction([i \in Fold |-> Traded(i)])
Trades == SumOver(Columns, LAMBDA t : Cardinality({i \in Fold : Weight(t, i) # Held(t, i)}))

(* The equity those results end on, in Whole^n after n days, as a share of *)
(* the initial one.                                                        *)
Whole == Unit * K
Equity(results) == FoldLeft(LAMBDA e, r : e * (Whole + r), 1, results)

(* _max_drawdown_pct: one pass that keeps the equity, its peak and the     *)
(* worst loss so far, a fraction [num, den].  All are kept to the scale of *)
(* the day.                                                                *)
DrawdownStart == [equity |-> 1, peak |-> 1, num |-> 0, den |-> 1]
AfterResultBug(s, r) ==          \* mutant: the loss of the day, not from the peak
  LET equity == s.equity * (Whole + r)
      before == s.equity * Whole
      worse == (before - equity) * s.den > s.num * before
  IN  [equity |-> equity, peak |-> before,
       num |-> IF worse THEN before - equity ELSE s.num,
       den |-> IF worse THEN before ELSE s.den]
AfterResult(s, r) ==
  LET equity == s.equity * (Whole + r)
      peak == IF equity > s.peak * Whole THEN equity ELSE s.peak * Whole
      worse == (peak - equity) * s.den > s.num * peak
  IN  [equity |-> equity, peak |-> peak,
       num |-> IF worse THEN peak - equity ELSE s.num,
       den |-> IF worse THEN peak ELSE s.den]
MaxDrawdown(results) == FoldLeft(AfterResult, DrawdownStart, results)

FoldMetrics ==
  [max_drawdown |-> MaxDrawdown(NetResults), equity |-> Equity(NetResults),
   turnover |-> Turnover, n_trades |-> Trades]

-----------------------------------------------------------------------------
(* No look-ahead: what is held over a day is settled before the day, and a *)
(* day's data change neither the weights nor the gross results before it.  *)
NoLookahead ==
  [][/\ \A i \in Days' : i - 1 \in Fold => \A t \in Tickers : Held(t, i)' = Weight(t, i - 1)
     /\ \A i \in Fold : /\ Gross(i)' = Gross(i)
                       /\ \A t \in Tickers : Weight(t, i)' = Weight(t, i)]_vars

(* A ticker's daily returns compound to its last close in the window over  *)
(* its first, however many days in between it was not quoted.              *)
Compound(t) == FoldLeft(LAMBDA f, r : [num |-> f.num * (Unit + r), den |-> f.den * Unit],
                        [num |-> 1, den |-> 1],
                        [n \in 1..(Cardinality(Fold) - 1) |-> Return(t, start + n)])
FirstQuote(t) ==
  LET quotes == {i \in Fold : Quoted(t, i)}
  IN  closes[CHOOSE i \in quotes : \A k \in quotes : i <= k][t]

ReturnsCompound ==
  Reports => \A t \in Columns :
    Compound(t).num * FirstQuote(t) = Compound(t).den * LastQuote(t, Len(closes))

(* A ranked strategy holds exactly TopK tickers once it has its history,   *)
(* none of them while a better one with a return is left out, and one      *)
(* without a return only when fewer than TopK have one.                    *)
RankRespected ==
  strategy # "hold" =>
    \A i \in Days : i > Lookback =>
      LET ranked == {t \in Tickers : HasReturn(t, i)}
          held == {t \in Tickers : Weight(t, i) = 1}
      IN  /\ Cardinality(held) = TopK
          /\ held \subseteq ranked \/ ranked \subseteq held
          /\ \A t \in held \intersect ranked, u \in ranked \ held :
               ~Ahead(u, t, i)

(* The results up to day m, and nothing after it: their equity is that of  *)
(* day m, to the scale of the last day.                                    *)
EarnedUpTo(m, results) == [k \in DOMAIN results |-> IF k <= m THEN results[k] ELSE 0]

(* The drawdown of the single pass is the worst loss from any day, the     *)
(* start included, to any later one, as long as costs and losses have not  *)
(* taken more than there was.                                              *)
DrawdownIsWorst(worst, results) ==
  LET n == Len(results)
      equity == [m \in 0..n |-> Equity(EarnedUpTo(m, results))]
  IN  (\A r \in ToSet(results) : Whole + r >= 0) =>
        /\ \A a \in 0..n : equity[a] > 0 => \A b \in a..n :
             (equity[a] - equity[b]) * worst.den <= worst.num * equity[a]
        /\ \E a \in 0..n, b \in 0..n : a <= b /\
             (equity[a] - equity[b]) * worst.den = worst.num * equity[a]

(* The metrics of a report describe one and the same book: the drawdown is *)
(* the worst there was, and a window, which starts flat, counts trades     *)
(* exactly when something changed hands, and without any has no profit, no *)
(* loss and no drawdown.                                                   *)
MetricsAgree ==
  Reports =>
    LET metrics == FoldMetrics  results == NetResults IN
    /\ DrawdownIsWorst(metrics.max_drawdown, results)
    /\ metrics.n_trades = 0 <=> metrics.turnover = 0
    /\ metrics.n_trades = 0 =>
         metrics.equity = Equity(EarnedUpTo(0, results)) /\ metrics.max_drawdown.num = 0
=============================================================================
