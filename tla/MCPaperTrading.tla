--------------------------- MODULE MCPaperTrading ---------------------------
(* Ten dollars, two tickers that cost two or three dollars, and decisions  *)
(* for all of one, thirds of both, half invested, over the cap, and none.  *)
EXTENDS PaperTrading, TLC

CONSTANTS a, b

Buy(wa, wb, cap, limit) ==
  [action |-> "adopt", weights |-> a :> wa @@ b :> wb,
   notional_cap |-> cap, daily_loss_limit |-> limit]

MCTickers == {a, b}
MCDecisions ==
  {Buy(6, 0, 1, 1), Buy(0, 6, 1, 4), Buy(2, 4, 1, 1), Buy(3, 0, 1, 4), Buy(6, 0, 2, 4),
   [Buy(0, 0, 1, 1) EXCEPT !.action = "defer"]}
MCPermitSets == {{a, b}, {a}}
RunnerSymmetry == Permutations(Runners)
=============================================================================
