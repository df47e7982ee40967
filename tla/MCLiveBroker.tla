----------------------------- MODULE MCLiveBroker -----------------------------
(* Two symbols, one share each.  From an empty book the first target buys   *)
(* both, the second buys the second symbol only; from the first to the     *)
(* second one symbol is sold.                                              *)
EXTENDS LiveBroker

BuyOne == {[t \in Tickers |-> 1]}
BuyBothThenSellOne == {[t \in Tickers |-> 1], [t \in Tickers |-> t - 1]}
=============================================================================
