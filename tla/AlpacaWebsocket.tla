--------------------------- MODULE AlpacaWebsocket ---------------------------
(***************************************************************************)
(* trade_updates_stream: one client task that dials the venue, presents    *)
(* its keys, asks to listen, takes the next frame for the acknowledgement  *)
(* and then yields every frame it can parse.  A failure it takes for a     *)
(* transient one is slept on and the handshake begins again; any other     *)
(* ends the stream.  The venue sends an update only to a connection that   *)
(* listens: what is emitted between two connections is gone.               *)
(*                                                                         *)
(* An update is its number.  The websockets library hands out the frames   *)
(* that arrived before a connection ended, and then raises; an iteration   *)
(* over a connection closed with code 1000 or 1001 just ends.              *)
(***************************************************************************)
EXTENDS Integers, Sequences, FiniteSets, FiniteSetsExt

CONSTANTS
  InitialBackoff, MaxBackoff,  \* initial_backoff_seconds, max_backoff_seconds
  MaxUpdates,  \* bound on the updates the venue emits
  MaxFaults    \* bound on failures, malformed frames and closed connections

ASSUME WebsocketAssumption ==
  /\ InitialBackoff \in Nat \ {0} /\ MaxBackoff \in Nat
  /\ InitialBackoff <= MaxBackoff
  /\ MaxUpdates \in Nat /\ MaxFaults \in Nat

VARIABLES
  step,    \* where the client is: "dial", "auth", "listen", "stream", "sleep", "ended"
  backoff, \* the seconds of the next sleep
  slept,   \* the seconds of the sleep in progress
  conn,    \* the connection: "none", "up", "listening", "broken", "closed"
  frames,  \* the frames that arrived on it and are not read yet
  emitted, \* updates the venue has emitted
  yielded, \* the updates handed to the consumer
  ending,  \* how the stream ended
  faults,  \* failures so far
  failed,  \* history: failures since a handshake was last completed
  arrived  \* history: the updates that reached the client

vars == <<step, backoff, slept, conn, frames, emitted, yielded, ending,
          faults, failed, arrived>>

Malformed == 0
Acknowledgement == -1
Frame == {Malformed, Acknowledgement} \union 1..MaxUpdates
Ending == {"not", "returned", "rejected", "misconfigured", "unavailable",
           "unreadable", "cancelled"}

TypeOK ==
  /\ step \in {"dial", "auth", "listen", "stream", "sleep", "ended"}
  /\ backoff \in InitialBackoff..MaxBackoff /\ slept \in 0..MaxBackoff
  /\ conn \in {"none", "up", "listening", "broken", "closed"}
  /\ frames \in Seq(Frame) /\ emitted \in 0..MaxUpdates
  /\ yielded \in Seq(1..MaxUpdates) /\ arrived \in SUBSET (1..MaxUpdates)
  /\ ending \in Ending /\ (ending # "not" <=> step = "ended")
  /\ faults \in 0..MaxFaults /\ failed \in 0..MaxFaults

Init ==
  /\ step = "dial" /\ backoff = InitialBackoff /\ slept = 0
  /\ conn = "none" /\ frames = <<>> /\ emitted = 0
  /\ yielded = <<>> /\ ending = "not"
  /\ faults = 0 /\ failed = 0 /\ arrived = {}

-----------------------------------------------------------------------------
(* What an exception leads to.  An HTTP error that answers the handshake   *)
(* is told by status_code, which InvalidStatus of the websockets versions  *)
(* the project accepts does not have: any counts as status 0, and ends it. *)
IsTransient(problem) == problem \in {"transport", "connection_closed"}

End(how) ==
  /\ step' = "ended" /\ ending' = how /\ conn' = "none" /\ frames' = <<>>
  /\ UNCHANGED <<backoff, slept, failed>>

Sleep ==
  /\ step' = "sleep" /\ slept' = backoff /\ failed' = failed + 1
  /\ conn' = "none" /\ frames' = <<>>
  /\ UNCHANGED <<backoff, ending>>

Raise(problem) == IF IsTransient(problem) THEN Sleep ELSE End(problem)

Doubled == Min({backoff * 2, MaxBackoff})

Wake ==
  /\ step = "sleep" /\ step' = "dial"
  /\ backoff' = Doubled /\ slept' = 0
  /\ UNCHANGED <<conn, frames, emitted, yielded, ending, faults, failed, arrived>>

-----------------------------------------------------------------------------
(* The handshake.                                                          *)
Dial ==
  /\ step = "dial" /\ step' = "auth" /\ conn' = "up" /\ frames' = <<>>
  /\ UNCHANGED <<backoff, slept, emitted, yielded, ending, faults, failed, arrived>>

DialFails ==
  /\ step = "dial" /\ faults < MaxFaults /\ faults' = faults + 1
  /\ \E problem \in {"transport", "unavailable", "misconfigured"} : Raise(problem)
  /\ UNCHANGED <<emitted, yielded, arrived>>

AuthorizedBug ==                 \* mutant: a reconnect does not ask to listen again
  /\ step = "auth" /\ conn = "up"
  /\ step' = IF failed > 0 THEN "stream" ELSE "listen"
  /\ UNCHANGED <<backoff, slept, conn, frames, emitted, yielded, ending, faults,
                 failed, arrived>>
Authorized ==
  /\ step = "auth" /\ conn = "up" /\ step' = "listen"
  /\ UNCHANGED <<backoff, slept, conn, frames, emitted, yielded, ending, faults,
                 failed, arrived>>

(* AlpacaWebSocketAuthError, or an answer that is not JSON.                *)
Refused ==
  /\ step = "auth" /\ conn = "up" /\ faults < MaxFaults /\ faults' = faults + 1
  /\ \E how \in {"rejected", "unreadable"} : End(how)
  /\ UNCHANGED <<emitted, yielded, arrived>>

(* Whatever comes first after the request to listen is the acknowledgement,*)
(* and completes the handshake.                                            *)
BackoffAfterHandshakeBug == backoff   \* mutant: only a fresh stream starts low
BackoffAfterHandshake == InitialBackoff
Listening ==
  /\ step = "listen" /\ frames # <<>>
  /\ step' = "stream" /\ frames' = Tail(frames)
  /\ backoff' = BackoffAfterHandshake /\ failed' = 0
  /\ UNCHANGED <<slept, conn, emitted, yielded, ending, faults, arrived>>

-----------------------------------------------------------------------------
(* The stream.                                                             *)
AfterMalformedBug == <<>>             \* mutant: a malformed frame drops the rest
AfterMalformed == Tail(frames)

Receive ==
  /\ step = "stream" /\ frames # <<>>
  /\ \/ /\ Head(frames) # Malformed
        /\ yielded' = Append(yielded, Head(frames)) /\ frames' = Tail(frames)
     \/ /\ Head(frames) = Malformed
        /\ frames' = AfterMalformed /\ UNCHANGED yielded
  /\ UNCHANGED <<step, backoff, slept, conn, emitted, ending, faults, failed, arrived>>

(* The frames are read and the connection is over.  recv raises            *)
(* ConnectionClosed either way, the iteration only when it was cut.        *)
ConnectionOver ==
  /\ step \in {"auth", "listen", "stream"} /\ conn \in {"broken", "closed"}
  /\ frames = <<>>
  /\ IF step = "stream" /\ conn = "closed" THEN End("returned")
                                           ELSE Raise("connection_closed")
  /\ UNCHANGED <<emitted, yielded, faults, arrived>>

(* The operator cancels the task around the stream.                        *)
Cancel ==
  /\ step # "ended" /\ End("cancelled")
  /\ UNCHANGED <<emitted, yielded, faults, arrived>>

-----------------------------------------------------------------------------
(* The venue and the network.                                              *)
Acknowledge ==
  /\ step = "listen" /\ conn = "up"
  /\ conn' = "listening" /\ frames' = Append(frames, Acknowledgement)
  /\ UNCHANGED <<step, backoff, slept, emitted, yielded, ending, faults, failed, arrived>>

Emit ==
  /\ emitted < MaxUpdates /\ emitted' = emitted + 1
  /\ IF conn = "listening"
     THEN frames' = Append(frames, emitted') /\ arrived' = arrived \union {emitted'}
     ELSE UNCHANGED <<frames, arrived>>
  /\ UNCHANGED <<step, backoff, slept, conn, yielded, ending, faults, failed>>

SendMalformed ==
  /\ conn = "listening" /\ faults < MaxFaults /\ faults' = faults + 1
  /\ frames' = Append(frames, Malformed)
  /\ UNCHANGED <<step, backoff, slept, conn, emitted, yielded, ending, failed, arrived>>

(* A cut loses the frames on their way, the last ones; a close does not.   *)
Disconnect ==
  /\ conn \in {"up", "listening"} /\ faults < MaxFaults /\ faults' = faults + 1
  /\ \/ /\ conn' = "broken"
        /\ \E n \in 0..Len(frames) :
             /\ frames' = SubSeq(frames, 1, n)
             /\ arrived' = arrived \ {frames[m] : m \in n+1..Len(frames)}
     \/ conn' = "closed" /\ UNCHANGED <<frames, arrived>>
  /\ UNCHANGED <<step, backoff, slept, emitted, yielded, ending, failed>>

Client == Wake \/ Dial \/ Authorized \/ Listening \/ Receive \/ ConnectionOver
Network == DialFails \/ Refused \/ SendMalformed \/ Disconnect \/ Emit
Next == Client \/ Acknowledge \/ Network \/ Cancel

(* The event loop runs the client whenever it can go on, and the venue     *)
(* answers a request to listen.                                            *)
Spec == Init /\ [][Next]_vars /\ WF_vars(Client) /\ WF_vars(Acknowledge)

-----------------------------------------------------------------------------
(* The stream hands on every update that reached it, malformed frames and  *)
(* closed connections in between, unless it is cancelled.                  *)
NothingReceivedIsLost ==
  step \in {"dial", "sleep"} \/ ending = "returned" =>
    arrived = {yielded[n] : n \in DOMAIN yielded}

(* The powers of two, as a function so that it can be proved about.        *)
TwoTo[n \in 0..MaxFaults] == IF n = 0 THEN 1 ELSE 2 * TwoTo[n - 1]

(* The sleep doubles with each failure since the last complete handshake,  *)
(* up to the ceiling, and a completed handshake starts it again.           *)
BackoffFollowsFailures ==
  step = "sleep" => slept = Min({InitialBackoff * TwoTo[failed - 1], MaxBackoff})

(* When the failures stop, the client listens again or has ended.          *)
Recovers == (step = "sleep") ~> (conn = "listening" \/ step = "ended")

=============================================================================
