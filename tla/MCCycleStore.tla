----------------------------- MODULE MCCycleStore -----------------------------
(* Two cycle ids and four saves, so that one is saved again before and      *)
(* after a prune; the ids are interchangeable.                             *)
EXTENDS CycleStore, TLC

CycleIds == Permutations(Cycles)
=============================================================================
