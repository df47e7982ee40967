----------------------------- MODULE MCCycleQueue -----------------------------
(* Every way of constructing a runner, or only the one with a live broker   *)
(* and no store.                                                           *)
EXTENDS CycleQueue

AnyConfig == Config
LiveWithoutStore == {[gateway |-> TRUE, broker |-> "live", store |-> FALSE]}
=============================================================================
