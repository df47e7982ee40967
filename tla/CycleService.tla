---------------------------- MODULE CycleService ----------------------------
(***************************************************************************)
(* What CycleQueue over CycleRunner promises its callers: a serial service *)
(* that takes requests in any number, runs them one at a time in the order *)
(* they came, and ends every cycle it has begun.                           *)
(***************************************************************************)
EXTENDS Naturals, Sequences

CONSTANT MaxItems   \* bound on the requests

VARIABLES
  waiting,   \* requests not begun
  current,   \* the request being run, 0 if none
  closed     \* requests whose cycle ended, in that order

serviceVars == <<waiting, current, closed>>

Init == waiting = <<>> /\ current = 0 /\ closed = <<>>

Submitted ==
  Len(waiting) + Len(closed) + (IF current = 0 THEN 0 ELSE 1)

(* Requests are numbered as they come. *)
Submit ==
  /\ Submitted < MaxItems
  /\ waiting' = Append(waiting, Submitted + 1)
  /\ UNCHANGED <<current, closed>>

Begin ==
  /\ current = 0 /\ waiting # <<>>
  /\ current' = Head(waiting)
  /\ waiting' = Tail(waiting)
  /\ UNCHANGED closed

Close ==
  /\ current # 0
  /\ closed' = Append(closed, current)
  /\ current' = 0
  /\ UNCHANGED waiting

Next == Submit \/ Begin \/ Close

Spec == Init /\ [][Next]_serviceVars /\ WF_serviceVars(Close)

(* Requests are served in the order they came, none lost, none twice. *)
InOrder ==
  closed \o (IF current = 0 THEN <<>> ELSE <<current>>) \o waiting
    = [i \in 1..Submitted |-> i]
=============================================================================
