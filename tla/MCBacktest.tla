------------------------------ MODULE MCBacktest ------------------------------
(* Two tickers that may each be missing on any of four days; prices that    *)
(* double and halve, and a cost that can turn a day's gain into a loss.     *)
EXTENDS Backtest

CONSTANTS t1, t2
MCUniverse == <<t1, t2>>
=============================================================================
