-------------------------- MODULE MCReconciliation --------------------------
(* J-Quants has one row, EDINET DB two pages of one; the first page is the *)
(* same company under the same name, and shares its securities code.       *)
EXTENDS Reconciliation, TLC

CONSTANTS jquants, edinetdb, jq, sec, edi, edi2, nameA, nameB

MCKeys == {jq, sec, edi, edi2}
MCNames == {nameA, nameB}
MCLoaders == {jquants, edinetdb}
MCFeed ==
  jquants :> << << [name |-> nameA, ids |-> <<jq, sec>>] >> >> @@
  edinetdb :> << << [name |-> nameA, ids |-> <<edi, sec>>] >>,
                 << [name |-> nameB, ids |-> <<edi2>>] >> >>
IssuerSymmetry == Permutations(IssuerIds)
=============================================================================
