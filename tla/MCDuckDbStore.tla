---------------------------- MODULE MCDuckDbStore ----------------------------
(* Two issuers to merge, two identifiers to fight over, and three sources   *)
(* of which the reads prefer the second.                                    *)
EXTENDS DuckDbStore, TLC

CONSTANTS s1, s2, s3
MCSourceOrder == <<s1, s2, s3>>
MCPriority == <<s2>>
Symmetry == Permutations(IssuerIds) \union Permutations(Keys)
              \union Permutations(Names) \union Permutations(Values)
=============================================================================
