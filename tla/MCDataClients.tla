---------------------------- MODULE MCDataClients ----------------------------
(* Two calls of each client in turn.  A tick is the least time that         *)
(* matters: an interval is none or one, a backoff two and then three.       *)
EXTENDS DataClients, TLC

MCInterval == [c \in Clients |-> IF c \in {"gamma", "clob", "archive"} THEN 0 ELSE 1]
MCSchedule == <<2, 3>>
Symmetry == Permutations(Calls) \union Permutations(Keys)
=============================================================================
