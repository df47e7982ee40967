----------------------------- MODULE PaperTrading -----------------------------
(***************************************************************************)
(* From a decision to the paper account: the policy gateway, the paper     *)
(* broker and the loss budget tracker, used as their documentation asks.   *)
(* Before a cycle the caller marks the day, takes the day's loss and puts  *)
(* it into the gateway configuration of a cycle runner; the runner keeps   *)
(* that configuration for every cycle it runs.                             *)
(*                                                                         *)
(* A decision the gateway demotes, and an action with a price missing,     *)
(* change nothing and are no steps.  The broker ignores a target's side.   *)
(*                                                                         *)
(* Decimal arithmetic rounds quotients half to even.  Here a share has     *)
(* Units parts, an average cost AvgUnits parts of a dollar and a weight is *)
(* a number of WeightUnits-ths, so cash is in 1/Units dollars and profit   *)
(* in 1/(Units * AvgUnits).  Products are exact.                           *)
(***************************************************************************)
EXTENDS Integers, FiniteSets, Functions

CONSTANTS
  Tickers, Runners,
  Decisions,    \* the StrategyDecisions the agents may come to
  Prices,       \* dollars a share may cost
  PermitSets,   \* tickers allowed and not denied, as configured from time to time
  Capital,      \* initial_capital_usd
  AccountCap,   \* account_notional_cap_usd
  Units, AvgUnits, WeightUnits,
  NoDay, NoConfig, NoTrade,
  MaxDay,       \* bound on the calendar
  MaxTrades     \* bound on filled actions

Decision == [action : {"adopt", "reject", "defer"}, weights : [Tickers -> 0..WeightUnits],
             notional_cap : Nat, daily_loss_limit : Nat]
Targets(d) == {t \in Tickers : d.weights[t] > 0}

(* The sum of f(t) for the tickers t of a set.                             *)
SumOver(f(_), S) == SumFunction([t \in Tickers |-> IF t \in S THEN f(t) ELSE 0])

ASSUME PaperAssumption ==
  /\ IsFiniteSet(Tickers)
  /\ Units \in Nat \ {0} /\ AvgUnits \in Nat \ {0} /\ WeightUnits \in Nat \ {0}
  /\ Capital \in Nat \ {0} /\ AccountCap \in Nat /\ Prices \subseteq Nat \ {0}
  /\ PermitSets \subseteq SUBSET Tickers
  /\ MaxDay \in Nat /\ MaxTrades \in Nat /\ NoDay \notin Nat
  /\ Decisions \subseteq Decision
  /\ \A d \in Decisions :
       /\ d.action = "adopt" <=> Targets(d) # {}
       /\ SumFunction(d.weights) <= WeightUnits

VARIABLES
  cash, positions, realized_pnl,  \* the PaperBroker
  baseline, current_day,          \* the LossBudgetTracker
  today,                          \* the caller's calendar
  configs,                        \* the configuration each runner was built with
  trades,                         \* history: filled actions so far
  fresh,                          \* history: no trade since the runner was built
  day_pnl,                        \* history: profit of trades since the day was marked
  slack,                          \* history: parts bought on top of a holding
  last                            \* history: the last filled action

brokerVars == <<cash, positions, realized_pnl>>
historyVars == <<trades, fresh, day_pnl, slack, last>>
vars == <<brokerVars, baseline, current_day, today, configs, historyVars>>

Position == [qty : Nat, avg_cost : Nat]
Flat == [qty |-> 0, avg_cost |-> 0]
Config == [daily_realized_loss : Nat, permitted : SUBSET Tickers]

TypeOK ==
  /\ cash \in Int /\ realized_pnl \in Int /\ baseline \in Int
  /\ positions \in [Tickers -> Position]
  /\ \A t \in Tickers : positions[t].qty = 0 => positions[t] = Flat
  /\ current_day \in 0..MaxDay \union {NoDay} /\ today \in 0..MaxDay
  /\ configs \in [Runners -> Config \union {NoConfig}]
  /\ trades \in 0..MaxTrades /\ fresh \in [Runners -> BOOLEAN]
  /\ day_pnl \in Int /\ slack \in Nat

Init ==
  /\ cash = Capital * Units
  /\ positions = [t \in Tickers |-> Flat]
  /\ realized_pnl = 0 /\ baseline = 0 /\ current_day = NoDay
  /\ today \in 0..MaxDay
  /\ configs = [r \in Runners |-> NoConfig]
  /\ trades = 0 /\ fresh = [r \in Runners |-> FALSE]
  /\ day_pnl = 0 /\ slack = 0 /\ last = NoTrade

-----------------------------------------------------------------------------
(* The tracker and its caller.                                             *)

Backwards == current_day # NoDay /\ today < current_day
StartsDayBug == current_day = NoDay \/ today >= current_day  \* mutant: marked twice a day
StartsDay == current_day = NoDay \/ today > current_day

ReportedLoss(base) == IF realized_pnl < base THEN base - realized_pnl ELSE 0

(* mark_start_of_day, today_realized_loss_usd and a runner built with the  *)
(* result.  An earlier day than the marked one raises.                     *)
BuildRunner(r, permitted) ==
  /\ ~Backwards
  /\ baseline' = IF StartsDay THEN realized_pnl ELSE baseline
  /\ current_day' = today
  /\ configs' = [configs EXCEPT ![r] =
       [daily_realized_loss |-> ReportedLoss(baseline'), permitted |-> permitted]]
  /\ fresh' = [fresh EXCEPT ![r] = TRUE]
  /\ day_pnl' = IF today = current_day THEN day_pnl ELSE 0
  /\ UNCHANGED <<brokerVars, today, trades, slack, last>>

(* The caller's calendar moves on, or is set back.                         *)
ClockMoves ==
  /\ today' \in 0..MaxDay
  /\ UNCHANGED <<brokerVars, baseline, current_day, configs, historyVars>>

-----------------------------------------------------------------------------
(* apply_policy_gateway: any violation demotes the whole decision.         *)

Violations(d, config) ==
  {k \in {"notional_cap_exceeded"} : d.notional_cap > AccountCap}
    \union {k \in {"loss_budget_exhausted"} :
              d.daily_loss_limit * Units * AvgUnits <= config.daily_realized_loss}
    \union {k \in {"ticker_refused"} : ~(Targets(d) \subseteq config.permitted)}

Feasible(d, config) == d.action = "adopt" /\ Violations(d, config) = {}

-----------------------------------------------------------------------------
(* PaperBroker.execute.                                                    *)

RoundDiv(a, b) ==
  LET q == a \div b  rest == a % b
  IN  IF 2 * rest > b \/ (2 * rest = b /\ q % 2 = 1) THEN q + 1 ELSE q

Held == {t \in Tickers : positions[t].qty > 0}
Involved(d) == Targets(d) \union Held

EquityBug(prices) ==                \* mutant: holdings valued at what they cost
  cash + SumOver(LAMBDA t : RoundDiv(positions[t].qty * positions[t].avg_cost, AvgUnits),
                 Held)
Equity(prices) == cash + SumOver(LAMBDA t : positions[t].qty * prices[t], Held)

TargetQtyBug(d, prices, t) ==       \* mutant: a dropped ticker is kept
  IF t \in Targets(d)
  THEN RoundDiv(Equity(prices) * d.weights[t], WeightUnits * prices[t])
  ELSE positions[t].qty
TargetQty(d, prices, t) ==
  IF t \in Targets(d)
  THEN RoundDiv(Equity(prices) * d.weights[t], WeightUnits * prices[t])
  ELSE 0

Delta(d, prices, t) == TargetQty(d, prices, t) - positions[t].qty
Sold(d, prices) == {t \in Involved(d) : Delta(d, prices, t) < 0}
Bought(d, prices) == {t \in Involved(d) : Delta(d, prices, t) > 0}

Profit(d, prices) ==
  SumOver(LAMBDA t : (positions[t].avg_cost - prices[t] * AvgUnits) * Delta(d, prices, t),
          Sold(d, prices))

AvgCostAfterBug(d, prices, t) == prices[t] * AvgUnits  \* mutant: the last price
AvgCostAfter(d, prices, t) ==
  IF t \notin Bought(d, prices) THEN positions[t].avg_cost
  ELSE IF t \notin Held THEN prices[t] * AvgUnits
  ELSE RoundDiv(positions[t].qty * positions[t].avg_cost
                  + Delta(d, prices, t) * prices[t] * AvgUnits, TargetQty(d, prices, t))

Rebalance(d, prices) ==
  /\ positions' = [t \in Tickers |->
       IF t \notin Involved(d) \/ TargetQty(d, prices, t) = 0 THEN Flat
       ELSE [qty |-> TargetQty(d, prices, t), avg_cost |-> AvgCostAfter(d, prices, t)]]
  /\ cash' = cash - SumOver(LAMBDA t : Delta(d, prices, t) * prices[t], Involved(d))
  /\ realized_pnl' = realized_pnl + Profit(d, prices)

(* A cycle of runner r ends in decision d at these prices.                 *)
Trade(r, d, prices) ==
  /\ configs[r] # NoConfig /\ trades < MaxTrades
  /\ Feasible(d, configs[r])
  /\ Involved(d) \subseteq DOMAIN prices
  /\ Rebalance(d, prices)
  /\ trades' = trades + 1
  /\ fresh' = [s \in Runners |-> FALSE]
  /\ day_pnl' = day_pnl + Profit(d, prices)
  /\ slack' = slack + SumOver(LAMBDA t : positions'[t].qty, Bought(d, prices) \cap Held)
  /\ last' = [decision |-> d, prices |-> prices, equity |-> Equity(prices),
              fresh |-> fresh[r], day_pnl |-> day_pnl]
  /\ UNCHANGED <<baseline, current_day, today, configs>>

Next ==
  \/ \E r \in Runners, permitted \in PermitSets : BuildRunner(r, permitted)
  \/ ClockMoves
  \/ \E r \in Runners, d \in Decisions, priced \in SUBSET Tickers :
       \E prices \in [priced -> Prices] : Trade(r, d, prices)

Spec == Init /\ [][Next]_vars

-----------------------------------------------------------------------------
(* No trade is made once the day's realised loss has reached the           *)
(* decision's daily limit, by a runner built since the last trade: however *)
(* often the day is marked, whatever losses earlier days left behind and   *)
(* wherever the clock was set.  A day runs from its first mark to the next.*)
NoTradeOverDailyLoss ==
  last # NoTrade /\ last.fresh =>
    -last.day_pnl < last.decision.daily_loss_limit * Units * AvgUnits

(* A filled action leaves the book at its decision: every holding within   *)
(* half a part of its share of the equity at the prices of the action, and *)
(* no holding the decision does not name.                                  *)
Rebalanced ==
  last # NoTrade =>
    \A t \in Tickers :
      LET w == last.decision.weights[t]
      IN  IF w = 0 THEN positions[t].qty = 0
          ELSE LET p == last.prices[t]
                   off == 2 * (positions[t].qty * p * WeightUnits - last.equity * w)
               IN  off <= p * WeightUnits /\ -off <= p * WeightUnits

(* Cash-only: what is bought is paid for by cash and sales, but for the    *)
(* half part that rounding up each target may cost.                        *)
OverdraftBounded ==
  IF trades = 0 THEN cash >= 0
  ELSE 2 * cash >= -SumOver(LAMBDA t : last.prices[t], Targets(last.decision))

(* Cash and holdings at cost are the capital and the realised profit, but  *)
(* for the rounding of the averages: half a unit for every part in a       *)
(* holding that was added to.                                              *)
BooksBalance ==
  LET atCost == SumOver(LAMBDA t : positions[t].qty * positions[t].avg_cost, Tickers)
      off == 2 * (AvgUnits * cash + atCost - AvgUnits * Capital * Units - realized_pnl)
  IN  off <= slack /\ -off <= slack
=============================================================================
