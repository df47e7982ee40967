------------------------- MODULE ServiceClientsProofs -------------------------
(***************************************************************************)
(* The two clients of outside services that have a protocol of their own:  *)
(* what the stream of trade updates hands on and how it backs off, for any *)
(* number of updates and faults and any two sleeps; and that a call asks   *)
(* every LLM provider once, for any number of providers and of overlapping *)
(* calls, whatever the logins do.  The two share nothing.                  *)
(***************************************************************************)
EXTENDS AlpacaWebsocket, LlmProviders, SequenceTheorems, WellFoundedInduction, TLAPS

-----------------------------------------------------------------------------
(* The stream of trade updates.                                            *)

Handed == {yielded[n] : n \in DOMAIN yielded}
Waiting == {frames[n] : n \in DOMAIN frames}

(* A connection holds frames only once the venue acknowledged the request  *)
(* to listen, and the acknowledgement is the first of them.                *)
ConnectionInv ==
  /\ step \in {"dial", "sleep", "ended"} <=> conn = "none"
  /\ step = "stream" => conn # "up"
  /\ step = "auth" => conn # "listening"
  /\ step = "auth" \/ conn \in {"none", "up"} => frames = <<>>
  /\ step = "listen" /\ conn = "listening" => frames # <<>>
  /\ step = "listen" /\ frames # <<>> => frames[1] = Acknowledgement
  /\ \A n \in DOMAIN frames : frames[n] = Acknowledgement => n = 1 /\ step = "listen"

(* An update waits once, and not after it was handed on.                   *)
OnceInv ==
  /\ \A n \in DOMAIN frames : frames[n] <= emitted /\ frames[n] \notin Handed
  /\ \A m, n \in DOMAIN frames : m # n /\ frames[m] \notin {Malformed, Acknowledgement} =>
       frames[m] # frames[n]
  /\ \A n \in DOMAIN yielded : yielded[n] <= emitted

(* What arrived was handed on or waits.                                    *)
DeliveryInv ==
  step # "ended" \/ ending = "returned" =>
    arrived = Handed \union (Waiting \ {Malformed, Acknowledgement})

(* Every failure since the handshake was a fault, and so was the end of a  *)
(* connection that is over.                                                *)
FaultInv ==
  IF conn \in {"broken", "closed"} THEN failed < faults ELSE failed <= faults

StreamInv == TypeOK /\ ConnectionInv /\ OnceInv /\ DeliveryInv /\ FaultInv

-----------------------------------------------------------------------------
(* The frames.                                                             *)

(* A frame more: the others keep their places.                             *)
LEMMA FrameMore ==
  ASSUME NEW S, NEW s \in Seq(S), NEW e \in S
  PROVE  /\ Append(s, e) \in Seq(S) /\ Append(s, e) # <<>>
         /\ DOMAIN Append(s, e) = DOMAIN s \union {Len(s) + 1}
         /\ DOMAIN s = 1..Len(s) /\ Len(s) \in Nat
         /\ \A n \in DOMAIN s : Append(s, e)[n] = s[n]
         /\ Append(s, e)[Len(s) + 1] = e
<1>1. Len(s) \in Nat /\ DOMAIN s = 1..Len(s)
  BY LenProperties
<1> QED BY <1>1, AppendProperties

(* A frame less: the others move up.                                       *)
LEMMA FrameLess ==
  ASSUME NEW S, NEW s \in Seq(S), s # <<>>
  PROVE  /\ Tail(s) \in Seq(S) /\ Head(s) = s[1] /\ 1 \in DOMAIN s /\ s[1] \in S
         /\ \A n \in DOMAIN Tail(s) : n + 1 \in DOMAIN s /\ Tail(s)[n] = s[n + 1] /\ n \in Nat \ {0}
         /\ \A n \in DOMAIN s : n # 1 => n - 1 \in DOMAIN Tail(s) /\ Tail(s)[n - 1] = s[n]
<1>1. Len(s) \in Nat \ {0} /\ DOMAIN s = 1..Len(s)
  BY LenProperties, EmptySeq
<1>2. /\ Tail(s) \in Seq(S) /\ Head(s) = s[1] /\ Len(Tail(s)) = Len(s) - 1
      /\ \A n \in 1..Len(Tail(s)) : Tail(s)[n] = s[n + 1]
  BY <1>1, HeadTailProperties
<1>3. DOMAIN Tail(s) = 1..(Len(s) - 1)
  BY <1>2, LenProperties
<1>4. s[1] \in S
  BY <1>1, ElementOfSeq
<1> QED BY <1>1, <1>2, <1>3, <1>4
-----------------------------------------------------------------------------
(* The invariant.                                                          *)

(* The client is not connected, and has nothing to read.                   *)
LEMMA StreamInit == ASSUME WebsocketAssumption, Init PROVE StreamInv
<1>1. DOMAIN frames = {} /\ DOMAIN yielded = {}
  BY EmptySeq, LenProperties DEF Init
<1>2. TypeOK
  BY EmptySeq DEF WebsocketAssumption, Init, TypeOK, Ending
<1> QED
  BY <1>1, <1>2
  DEF Init, StreamInv, ConnectionInv, OnceInv, DeliveryInv, FaultInv, Handed, Waiting

(* The connection goes, and with it what was not read.                     *)
LEMMA ConnectionGoes ==
  ASSUME WebsocketAssumption, StreamInv,
         conn' = "none", frames' = <<>>, step' \in {"sleep", "ended"},
         UNCHANGED <<emitted, yielded, arrived>>,
         step' # "ended" \/ ending' = "returned" =>
           (step # "ended" \/ ending = "returned") /\ frames = <<>>
  PROVE  ConnectionInv' /\ OnceInv' /\ DeliveryInv'
<1>1. DOMAIN frames' = {} /\ (frames = <<>> => DOMAIN frames = {})
  BY EmptySeq, LenProperties
<1>2. ConnectionInv'
  BY <1>1 DEF ConnectionInv
<1>3. Handed' = Handed
  BY DEF Handed
<1>4. OnceInv'
  BY <1>1, <1>3 DEF StreamInv, OnceInv
<1>5. Waiting' = {} /\ (frames = <<>> => Waiting = {})
  BY <1>1 DEF Waiting
<1>6. DeliveryInv'
  BY <1>3, <1>5 DEF StreamInv, DeliveryInv
<1> QED BY <1>2, <1>4, <1>6

(* An error is slept on or ends the stream.                                *)
LEMMA RaiseKeepsInvariant ==
  ASSUME WebsocketAssumption, StreamInv, NEW problem, Raise(problem),
         problem \in {"transport", "connection_closed", "unavailable", "misconfigured"},
         UNCHANGED <<emitted, yielded, arrived>>, frames = <<>>, step # "ended",
         faults' \in 0..MaxFaults, faults' >= faults,
         faults' > faults \/ conn \in {"broken", "closed"}
  PROVE  StreamInv'
<1>1. TypeOK /\ FaultInv
  BY DEF StreamInv
<1>2. step' \in {"sleep", "ended"} /\ conn' = "none" /\ frames' = <<>>
      /\ (step' = "ended" => ending' = problem)
      /\ (step' = "sleep" => slept' = backoff /\ failed' = failed + 1 /\ ending' = ending)
      /\ (step' = "ended" => UNCHANGED <<slept, failed>>)
      /\ UNCHANGED backoff
  BY DEF Raise, Sleep, End
<1>3. frames' \in Seq(Frame)
  BY <1>2, EmptySeq
<1>4. failed + 1 <= faults' /\ failed + 1 \in Nat
  BY <1>1 DEF TypeOK, FaultInv, WebsocketAssumption
<1>5. TypeOK'
  <2>1. /\ backoff' \in InitialBackoff..MaxBackoff /\ slept' \in 0..MaxBackoff
        /\ failed' \in 0..MaxFaults
    BY <1>1, <1>2, <1>4 DEF TypeOK, WebsocketAssumption
  <2>2. ending' \in Ending /\ (ending' # "not" <=> step' = "ended")
    <3>1. \/ ending = "not" /\ IsTransient(problem)
          \/ problem \in Ending \ {"not"}
      BY <1>1 DEF TypeOK, Ending, IsTransient
    <3>2. IsTransient(problem) => step' = "sleep"
      BY DEF Raise, Sleep
    <3>3. step' = "sleep" => ending' = "not"
      BY <1>1, <1>2 DEF TypeOK
    <3> QED BY <1>2, <3>1, <3>2, <3>3 DEF Ending
  <2> QED BY <1>1, <1>2, <1>3, <2>1, <2>2 DEF TypeOK
<1>6. FaultInv'
  BY <1>1, <1>2, <1>4 DEF FaultInv, TypeOK
<1>7. ConnectionInv' /\ OnceInv' /\ DeliveryInv'
  BY <1>2, ConnectionGoes
<1> QED BY <1>5, <1>6, <1>7 DEF StreamInv

(* The client gives up, other than after a clean close.                    *)
LEMMA EndKeepsInvariant ==
  ASSUME WebsocketAssumption, StreamInv, NEW how, End(how),
         how \in Ending \ {"not", "returned"},
         UNCHANGED <<emitted, yielded, arrived>>,
         faults' \in 0..MaxFaults, faults' >= faults
  PROVE  StreamInv'
<1>1. TypeOK /\ FaultInv
  BY DEF StreamInv
<1>2. step' = "ended" /\ ending' = how /\ conn' = "none" /\ frames' = <<>>
      /\ UNCHANGED <<backoff, slept, failed>>
  BY DEF End
<1>3. frames' \in Seq(Frame)
  BY <1>2, EmptySeq
<1>4. TypeOK' /\ FaultInv'
  BY <1>1, <1>2, <1>3 DEF TypeOK, FaultInv
<1>5. ConnectionInv' /\ OnceInv' /\ DeliveryInv'
  BY <1>2, ConnectionGoes
<1> QED BY <1>4, <1>5 DEF StreamInv

(* The connection and the step change, the frames do not.                  *)
LEMMA FramesStay ==
  ASSUME StreamInv, UNCHANGED <<frames, emitted, yielded, arrived, ending>>,
         (step' = "ended") = (step = "ended")
  PROVE  OnceInv' /\ DeliveryInv'
<1>1. Handed' = Handed /\ Waiting' = Waiting
  BY DEF Handed, Waiting
<1> QED BY <1>1 DEF StreamInv, OnceInv, DeliveryInv

(* An acknowledgement, an update or a malformed frame arrives last.        *)
LEMMA FrameArrives ==
  ASSUME WebsocketAssumption, StreamInv, NEW e \in Frame, frames' = Append(frames, e),
         UNCHANGED <<step, ending, yielded>>, step # "ended",
         IF e \in 1..MaxUpdates
         THEN emitted < e /\ emitted' = e /\ arrived' = arrived \union {e}
         ELSE UNCHANGED <<emitted, arrived>>
  PROVE  frames' \in Seq(Frame) /\ OnceInv' /\ DeliveryInv'
<1>1. TypeOK /\ OnceInv /\ DeliveryInv /\ frames \in Seq(Frame) /\ emitted \in Nat
  BY DEF StreamInv, TypeOK
<1> DEFINE L == Len(frames) + 1
<1>2. /\ frames' \in Seq(Frame)
      /\ DOMAIN frames' = DOMAIN frames \union {L} /\ L \notin DOMAIN frames
      /\ \A n \in DOMAIN frames : frames'[n] = frames[n]
      /\ frames'[L] = e
  BY <1>1, FrameMore
<1>3. Handed' = Handed
  BY DEF Handed
<1>4. \A n \in DOMAIN frames : frames[n] \in Frame
  BY <1>1, LenProperties
<1>5. \A n \in DOMAIN yielded : yielded[n] \in 1..MaxUpdates /\ yielded[n] <= emitted
  BY <1>1, LenProperties DEF TypeOK, OnceInv
<1>6. emitted <= emitted' /\ e <= emitted' /\ emitted' \in Nat
  BY <1>1 DEF Frame, Malformed, Acknowledgement, TypeOK
<1> HIDE DEF L
<1>7. \A n \in DOMAIN yielded : e # yielded[n]
  BY <1>1, <1>5 DEF Frame, Malformed, Acknowledgement
<1>8. OnceInv'
  <2>1. \A n \in DOMAIN frames' : frames'[n] <= emitted' /\ frames'[n] \notin Handed'
    <3>1. \A n \in DOMAIN frames : frames[n] <= emitted'
      BY <1>1, <1>4, <1>6 DEF OnceInv, Frame, Malformed, Acknowledgement
    <3>2. e \notin Handed
      BY <1>7 DEF Handed
    <3> QED BY <1>1, <1>2, <1>3, <1>6, <3>1, <3>2 DEF OnceInv
  <2>2. \A m, n \in DOMAIN frames' : m # n /\ frames'[m] \notin {Malformed, Acknowledgement} =>
          frames'[m] # frames'[n]
    <3>1. \A n \in DOMAIN frames : e \notin {Malformed, Acknowledgement} => e # frames[n]
      BY <1>1, <1>4 DEF OnceInv, Frame, Malformed, Acknowledgement
    <3> QED BY <1>1, <1>2, <3>1 DEF OnceInv
  <2>3. \A n \in DOMAIN yielded' : yielded'[n] <= emitted'
    BY <1>1, <1>5, <1>6
  <2> QED BY <2>1, <2>2, <2>3 DEF OnceInv
<1>9. DeliveryInv'
  <2>1. Waiting' = Waiting \union {e}
    BY <1>2 DEF Waiting
  <2>2. e \in 1..MaxUpdates <=> e \notin {Malformed, Acknowledgement}
    BY DEF Frame, Malformed, Acknowledgement
  <2> QED BY <1>1, <1>3, <2>1, <2>2 DEF DeliveryInv
<1> QED BY <1>2, <1>8, <1>9

(* The first frame is read: handed on, or passed over.                     *)
LEMMA FrameRead ==
  ASSUME WebsocketAssumption, StreamInv, frames # <<>>, frames' = Tail(frames),
         UNCHANGED <<emitted, arrived, ending>>, step # "ended", step' # "ended",
         IF frames[1] \in {Malformed, Acknowledgement} THEN UNCHANGED yielded
                                                    ELSE yielded' = Append(yielded, frames[1])
  PROVE  /\ frames' \in Seq(Frame) /\ yielded' \in Seq(1..MaxUpdates)
         /\ OnceInv' /\ DeliveryInv'
         /\ \A n \in DOMAIN frames' : frames'[n] # Acknowledgement
<1>1. /\ TypeOK /\ OnceInv /\ DeliveryInv /\ ConnectionInv
      /\ frames \in Seq(Frame) /\ yielded \in Seq(1..MaxUpdates) /\ emitted \in Nat
  BY DEF StreamInv, TypeOK
<1> DEFINE e == frames[1]
<1>2. /\ frames' \in Seq(Frame) /\ 1 \in DOMAIN frames /\ e \in Frame
      /\ \A n \in DOMAIN frames' : n + 1 \in DOMAIN frames /\ frames'[n] = frames[n + 1]
                                   /\ n \in Nat \ {0}
      /\ \A n \in DOMAIN frames : n # 1 => n - 1 \in DOMAIN frames' /\ frames'[n - 1] = frames[n]
  BY <1>1, FrameLess
<1>3. \A n \in DOMAIN frames : n \in Nat \ {0}
  BY <1>1, LenProperties
<1>4. Handed' = IF e \in {Malformed, Acknowledgement} THEN Handed ELSE Handed \union {e}
  <2>1. CASE e \in {Malformed, Acknowledgement}
    BY <2>1 DEF Handed
  <2>2. CASE e \notin {Malformed, Acknowledgement}
    <3>1. e \in 1..MaxUpdates
      BY <1>2, <2>2 DEF Frame
    <3>2. yielded' = Append(yielded, e)
      BY <2>2
    <3> HIDE DEF e
    <3>3. /\ DOMAIN yielded' = DOMAIN yielded \union {Len(yielded) + 1}
          /\ \A n \in DOMAIN yielded : yielded'[n] = yielded[n]
          /\ yielded'[Len(yielded) + 1] = e
      BY <1>1, <3>1, <3>2, FrameMore
    <3> QED BY <2>2, <3>3 DEF Handed
  <2> QED BY <2>1, <2>2
<1>5. yielded' \in Seq(1..MaxUpdates) /\ \A n \in DOMAIN yielded' : yielded'[n] <= emitted'
  <2>1. CASE e \in {Malformed, Acknowledgement}
    BY <1>1, <2>1 DEF OnceInv
  <2>2. CASE e \notin {Malformed, Acknowledgement}
    <3>1. e \in 1..MaxUpdates /\ e <= emitted
      BY <1>1, <1>2, <2>2 DEF Frame, OnceInv
    <3>2. yielded' = Append(yielded, e)
      BY <2>2
    <3> HIDE DEF e
    <3>3. /\ DOMAIN yielded' = DOMAIN yielded \union {Len(yielded) + 1}
          /\ \A n \in DOMAIN yielded : yielded'[n] = yielded[n]
          /\ yielded'[Len(yielded) + 1] = e /\ yielded' \in Seq(1..MaxUpdates)
      BY <1>1, <3>1, <3>2, FrameMore
    <3> QED BY <1>1, <3>1, <3>3 DEF OnceInv
  <2> QED BY <2>1, <2>2
<1>6. \A n \in DOMAIN frames' : n + 1 # 1
  BY <1>2
<1>7. \A n \in DOMAIN frames' : frames'[n] # Acknowledgement
  BY <1>1, <1>2, <1>6 DEF ConnectionInv
<1>8. OnceInv'
  <2>1. \A n \in DOMAIN frames' : frames'[n] <= emitted' /\ frames'[n] \notin Handed'
    <3>1. \A n \in DOMAIN frames' : e \notin {Malformed, Acknowledgement} => frames[n + 1] # e
      BY <1>1, <1>2, <1>6 DEF OnceInv
    <3> QED BY <1>1, <1>2, <1>4, <3>1 DEF OnceInv
  <2>2. \A m, n \in DOMAIN frames' : m # n /\ frames'[m] \notin {Malformed, Acknowledgement} =>
          frames'[m] # frames'[n]
    <3> SUFFICES ASSUME NEW m \in DOMAIN frames', NEW n \in DOMAIN frames', m # n,
                        frames'[m] \notin {Malformed, Acknowledgement}
                 PROVE  frames'[m] # frames'[n]
      OBVIOUS
    <3>1. m + 1 # n + 1 /\ m + 1 \in DOMAIN frames /\ n + 1 \in DOMAIN frames
      BY <1>2
    <3> QED BY <1>1, <1>2, <3>1 DEF OnceInv
  <2> QED BY <1>5, <2>1, <2>2 DEF OnceInv
<1>9. DeliveryInv'
  <2>1. Waiting = Waiting' \union {e}
    <3>1. Waiting' \union {e} \subseteq Waiting
      BY <1>2 DEF Waiting
    <3>2. Waiting \subseteq Waiting' \union {e}
      <4>1. ASSUME NEW n \in DOMAIN frames PROVE frames[n] \in Waiting' \union {e}
        <5>1. CASE n = 1
          BY <5>1
        <5>2. CASE n # 1
          BY <1>2, <5>2 DEF Waiting
        <5> QED BY <5>1, <5>2
      <4> QED BY <4>1 DEF Waiting
    <3> QED BY <3>1, <3>2
  <2> QED BY <1>1, <1>4, <2>1 DEF DeliveryInv
<1> QED BY <1>2, <1>5, <1>7, <1>8, <1>9

(* One step of the client, of the venue or of the network.                 *)
LEMMA StreamStep == ASSUME WebsocketAssumption, StreamInv, [Next]_vars PROVE StreamInv'
<1>1. TypeOK /\ ConnectionInv /\ OnceInv /\ DeliveryInv /\ FaultInv
  BY DEF StreamInv
<1>2. /\ backoff \in Nat /\ failed \in Nat /\ faults \in Nat /\ frames \in Seq(Frame)
      /\ faults \in 0..MaxFaults /\ InitialBackoff \in Nat /\ MaxBackoff \in Nat
  BY <1>1 DEF TypeOK, WebsocketAssumption
<1>3. CASE Wake
  <2>1. Doubled \in InitialBackoff..MaxBackoff
    <3>1. \A a, b \in Int : Min({a, b}) = IF a <= b THEN a ELSE b
      BY DEF Min
    <3> QED BY <1>1, <1>2, <3>1 DEF Doubled, TypeOK, WebsocketAssumption
  <2>2. TypeOK' /\ FaultInv' /\ ConnectionInv'
    BY <1>1, <1>2, <1>3, <2>1 DEF Wake, TypeOK, FaultInv, ConnectionInv
  <2>3. OnceInv' /\ DeliveryInv'
    BY <1>3, FramesStay DEF Wake
  <2> QED BY <2>2, <2>3 DEF StreamInv
<1>4. CASE Dial
  <2>1. frames = <<>> /\ frames' = frames
    BY <1>1, <1>4 DEF Dial, ConnectionInv
  <2>2. TypeOK' /\ FaultInv'
    BY <1>1, <1>2, <1>4, <2>1 DEF Dial, TypeOK, FaultInv
  <2>3. ConnectionInv'
    BY <1>1, <1>4, <2>1 DEF Dial, ConnectionInv
  <2>4. OnceInv' /\ DeliveryInv'
    BY <1>4, <2>1, FramesStay DEF Dial
  <2> QED BY <2>2, <2>3, <2>4 DEF StreamInv
<1>5. CASE DialFails
  <2>1. PICK problem \in {"transport", "unavailable", "misconfigured"} : Raise(problem)
    BY <1>5 DEF DialFails
  <2>2. /\ step = "dial" /\ frames = <<>> /\ faults' \in 0..MaxFaults /\ faults' > faults
        /\ UNCHANGED <<emitted, yielded, arrived>>
    BY <1>1, <1>2, <1>5 DEF DialFails, ConnectionInv, WebsocketAssumption
  <2>3. faults' >= faults
    BY <1>2, <2>2
  <2> QED BY <2>1, <2>2, <2>3, RaiseKeepsInvariant
<1>6. CASE Authorized
  <2>1. TypeOK' /\ FaultInv'
    BY <1>1, <1>6 DEF Authorized, TypeOK, FaultInv
  <2>2. ConnectionInv'
    BY <1>1, <1>6, EmptySeq DEF Authorized, ConnectionInv
  <2>3. OnceInv' /\ DeliveryInv'
    BY <1>6, FramesStay DEF Authorized
  <2> QED BY <2>1, <2>2, <2>3 DEF StreamInv
<1>7. CASE Refused
  <2>1. PICK how \in {"rejected", "unreadable"} : End(how)
    BY <1>7 DEF Refused
  <2>2. /\ faults' \in 0..MaxFaults /\ faults' >= faults
        /\ UNCHANGED <<emitted, yielded, arrived>>
    BY <1>1, <1>2, <1>7 DEF Refused, WebsocketAssumption
  <2>3. how \in Ending \ {"not", "returned"}
    BY DEF Ending
  <2> QED BY <2>1, <2>2, <2>3, EndKeepsInvariant
<1>8. CASE Listening
  <2>1. /\ frames # <<>> /\ frames' = Tail(frames) /\ frames[1] = Acknowledgement
        /\ step = "listen" /\ step' = "stream" /\ conn' = conn
        /\ UNCHANGED <<emitted, arrived, ending, yielded>>
    BY <1>1, <1>8 DEF Listening, ConnectionInv
  <2>2. /\ frames' \in Seq(Frame) /\ OnceInv' /\ DeliveryInv'
        /\ \A n \in DOMAIN frames' : frames'[n] # Acknowledgement
    BY <2>1, FrameRead
  <2>3. TypeOK' /\ FaultInv'
    BY <1>1, <1>2, <1>8, <2>2
    DEF Listening, TypeOK, FaultInv, BackoffAfterHandshake, WebsocketAssumption
  <2>4. ConnectionInv'
    BY <1>1, <2>1, <2>2 DEF ConnectionInv
  <2> QED BY <2>2, <2>3, <2>4 DEF StreamInv
<1>9. CASE Receive
  <2>1. Head(frames) = frames[1] /\ 1 \in DOMAIN frames /\ frames # <<>>
    BY <1>2, <1>9, FrameLess DEF Receive
  <2>2. step = "stream" /\ frames[1] # Acknowledgement
    BY <1>1, <1>9, <2>1 DEF Receive, ConnectionInv
  <2>3. /\ frames' = Tail(frames) /\ UNCHANGED <<emitted, arrived, ending, step, conn>>
        /\ IF frames[1] \in {Malformed, Acknowledgement} THEN UNCHANGED yielded
                                                ELSE yielded' = Append(yielded, frames[1])
    BY <1>9, <2>1, <2>2 DEF Receive, AfterMalformed
  <2>4. /\ frames' \in Seq(Frame) /\ yielded' \in Seq(1..MaxUpdates)
        /\ OnceInv' /\ DeliveryInv'
        /\ \A n \in DOMAIN frames' : frames'[n] # Acknowledgement
    BY <2>1, <2>2, <2>3, FrameRead
  <2>5. TypeOK' /\ FaultInv'
    BY <1>1, <1>9, <2>4 DEF Receive, TypeOK, FaultInv
  <2>6. ConnectionInv'
    BY <1>1, <2>1, <2>2, <2>3, <2>4 DEF ConnectionInv
  <2> QED BY <2>4, <2>5, <2>6 DEF StreamInv
<1>10. CASE ConnectionOver
  <2>1. /\ frames = <<>> /\ conn \in {"broken", "closed"} /\ step \notin {"ended", "dial", "sleep"}
        /\ UNCHANGED <<emitted, yielded, arrived, faults>>
    BY <1>10 DEF ConnectionOver
  <2>2. CASE step = "stream" /\ conn = "closed"
    <3>1. /\ step' = "ended" /\ ending' = "returned" /\ conn' = "none" /\ frames' = <<>>
          /\ UNCHANGED <<backoff, slept, failed>>
      BY <1>10, <2>2 DEF ConnectionOver, End
    <3>2. TypeOK' /\ FaultInv'
      BY <1>1, <1>2, <2>1, <3>1 DEF TypeOK, FaultInv, Ending
    <3>3. ConnectionInv' /\ OnceInv' /\ DeliveryInv'
      BY <2>1, <3>1, ConnectionGoes
    <3> QED BY <3>2, <3>3 DEF StreamInv
  <2>3. CASE ~(step = "stream" /\ conn = "closed")
    <3>1. Raise("connection_closed")
      BY <1>10, <2>3 DEF ConnectionOver
    <3>2. faults' \in 0..MaxFaults /\ faults' >= faults
      BY <1>2, <2>1
    <3> QED BY <2>1, <3>1, <3>2, RaiseKeepsInvariant
  <2> QED BY <2>2, <2>3
<1>11. CASE Cancel
  <2>1. End("cancelled") /\ UNCHANGED <<emitted, yielded, arrived, faults>>
    BY <1>11 DEF Cancel
  <2>2. faults' \in 0..MaxFaults /\ faults' >= faults
    BY <1>2, <2>1
  <2>3. "cancelled" \in Ending \ {"not", "returned"}
    BY DEF Ending
  <2> QED BY <2>1, <2>2, <2>3, EndKeepsInvariant
<1>12. CASE Acknowledge
  <2>1. /\ frames = <<>> /\ step = "listen" /\ step' = step
        /\ conn' = "listening" /\ frames' = Append(frames, Acknowledgement)
        /\ UNCHANGED <<emitted, yielded, arrived, ending>>
    BY <1>1, <1>12 DEF Acknowledge, ConnectionInv
  <2>2. Acknowledgement \in Frame /\ Acknowledgement \notin 1..MaxUpdates
    BY DEF Frame, Acknowledgement
  <2>3. frames' \in Seq(Frame) /\ OnceInv' /\ DeliveryInv'
    BY <2>1, <2>2, FrameArrives
  <2>4. TypeOK' /\ FaultInv'
    BY <1>1, <1>12, <2>3 DEF Acknowledge, TypeOK, FaultInv
  <2>5. DOMAIN frames' = {1} /\ frames'[1] = Acknowledgement
    <3>1. Len(frames) = 0 /\ DOMAIN frames = {}
      BY <2>1, EmptySeq, LenProperties
    <3> HIDE DEF Acknowledgement
    <3> QED BY <1>2, <2>1, <2>2, <3>1, FrameMore
  <2>6. ConnectionInv'
    BY <1>1, <2>1, <2>5 DEF ConnectionInv
  <2> QED BY <2>3, <2>4, <2>6 DEF StreamInv
<1>13. CASE Emit
  <2>1. /\ emitted \in Nat /\ emitted < MaxUpdates /\ emitted' = emitted + 1
        /\ emitted' \in 1..MaxUpdates /\ MaxUpdates \in Nat
        /\ UNCHANGED <<step, backoff, slept, conn, yielded, ending, faults, failed>>
    BY <1>1, <1>13 DEF Emit, TypeOK, WebsocketAssumption
  <2>2. CASE conn = "listening"
    <3>1. frames' = Append(frames, emitted') /\ arrived' = arrived \union {emitted'}
      BY <1>13, <2>2 DEF Emit
    <3>2. step # "ended" /\ step # "auth"
      BY <1>1, <2>2 DEF ConnectionInv
    <3>3. PICK e \in Frame : e = emitted'
      BY <2>1 DEF Frame
    <3>4. frames' \in Seq(Frame) /\ OnceInv' /\ DeliveryInv'
      BY <2>1, <3>1, <3>2, <3>3, FrameArrives
    <3>5. TypeOK' /\ FaultInv'
      BY <1>1, <2>1, <3>1, <3>4 DEF TypeOK, FaultInv
    <3>6. ConnectionInv'
      <4>1. /\ DOMAIN frames' = DOMAIN frames \union {Len(frames) + 1}
            /\ \A n \in DOMAIN frames : frames'[n] = frames[n]
            /\ frames'[Len(frames) + 1] = e /\ frames' # <<>>
        BY <1>2, <3>1, <3>3, FrameMore
      <4>2. e # Acknowledgement
        BY <2>1, <3>3 DEF Acknowledgement
      <4>3. \A n \in DOMAIN frames' : frames'[n] = Acknowledgement => n = 1 /\ step = "listen"
        BY <1>1, <4>1, <4>2 DEF ConnectionInv
      <4>4. step = "listen" => frames # <<>>
        BY <1>1, <2>2 DEF ConnectionInv
      <4>5. step = "listen" => frames'[1] = Acknowledgement
        BY <1>1, <1>2, <4>1, <4>4, FrameLess DEF ConnectionInv
      <4> QED BY <1>1, <2>1, <2>2, <3>2, <4>1, <4>3, <4>5 DEF ConnectionInv
    <3> QED BY <3>4, <3>5, <3>6 DEF StreamInv
  <2>3. CASE conn # "listening"
    <3>1. UNCHANGED <<frames, arrived>>
      BY <1>13, <2>3 DEF Emit
    <3>2. TypeOK' /\ FaultInv' /\ ConnectionInv'
      BY <1>1, <2>1, <3>1 DEF TypeOK, FaultInv, ConnectionInv
    <3>3. Handed' = Handed /\ Waiting' = Waiting
      BY <2>1, <3>1 DEF Handed, Waiting
    <3>4. /\ \A n \in DOMAIN frames : frames[n] \in Frame
          /\ \A n \in DOMAIN yielded : yielded[n] \in 1..MaxUpdates
      BY <1>1, LenProperties DEF TypeOK
    <3>5. OnceInv'
      BY <1>1, <2>1, <3>1, <3>3, <3>4 DEF OnceInv, Frame, Malformed, Acknowledgement
    <3>6. DeliveryInv'
      BY <1>1, <2>1, <3>1, <3>3 DEF DeliveryInv
    <3> QED BY <3>2, <3>5, <3>6 DEF StreamInv
  <2> QED BY <2>2, <2>3
<1>14. CASE SendMalformed
  <2>1. /\ conn = "listening" /\ frames' = Append(frames, Malformed)
        /\ UNCHANGED <<step, conn, emitted, yielded, arrived, ending>>
    BY <1>14 DEF SendMalformed
  <2>2. Malformed \in Frame /\ Malformed \notin 1..MaxUpdates /\ Malformed # Acknowledgement
    BY DEF Frame, Malformed, Acknowledgement
  <2>3. step # "ended" /\ step # "auth" /\ (step = "listen" => frames # <<>>)
    BY <1>1, <2>1 DEF ConnectionInv
  <2>4. frames' \in Seq(Frame) /\ OnceInv' /\ DeliveryInv'
    BY <2>1, <2>2, <2>3, FrameArrives
  <2>5. TypeOK' /\ FaultInv'
    BY <1>1, <1>2, <1>14, <2>4 DEF SendMalformed, TypeOK, FaultInv
  <2>6. ConnectionInv'
    <3> HIDE DEF Malformed
    <3>1. /\ DOMAIN frames' = DOMAIN frames \union {Len(frames) + 1}
          /\ \A n \in DOMAIN frames : frames'[n] = frames[n]
          /\ frames'[Len(frames) + 1] = Malformed /\ frames' # <<>>
      BY <1>2, <2>1, <2>2, FrameMore
    <3>2. \A n \in DOMAIN frames' : frames'[n] = Acknowledgement => n = 1 /\ step = "listen"
      BY <1>1, <2>2, <3>1 DEF ConnectionInv
    <3>3. step = "listen" => frames'[1] = Acknowledgement
      BY <1>1, <1>2, <2>3, <3>1, FrameLess DEF ConnectionInv
    <3> QED BY <1>1, <2>1, <2>3, <3>1, <3>2, <3>3 DEF ConnectionInv
  <2> QED BY <2>4, <2>5, <2>6 DEF StreamInv
<1>15. CASE Disconnect
  <2>1. /\ conn \in {"up", "listening"} /\ faults' = faults + 1 /\ faults < MaxFaults
        /\ UNCHANGED <<step, backoff, slept, emitted, yielded, ending, failed>>
        /\ conn' \in {"broken", "closed"} /\ step \notin {"ended", "dial", "sleep"}
    BY <1>1, <1>15 DEF Disconnect, ConnectionInv
  <2>2. FaultInv'
    BY <1>1, <1>2, <2>1 DEF FaultInv
  <2>3. CASE UNCHANGED <<frames, arrived>>
    <3>1. TypeOK' /\ ConnectionInv'
      BY <1>1, <1>2, <2>1, <2>3 DEF TypeOK, ConnectionInv
    <3>2. OnceInv' /\ DeliveryInv'
      BY <2>1, <2>3, FramesStay
    <3> QED BY <2>2, <3>1, <3>2 DEF StreamInv
  <2>4. CASE \E n \in 0..Len(frames) :
               /\ frames' = SubSeq(frames, 1, n)
               /\ arrived' = arrived \ {frames[m] : m \in n+1..Len(frames)}
    <3>1. PICK n \in 0..Len(frames) :
                 /\ frames' = SubSeq(frames, 1, n)
                 /\ arrived' = arrived \ {frames[m] : m \in n+1..Len(frames)}
      BY <2>4
    <3>2. /\ frames' \in Seq(Frame) /\ DOMAIN frames' = 1..n
          /\ \A m \in 1..n : frames'[m] = frames[m] /\ m \in DOMAIN frames
          /\ DOMAIN frames = 1..Len(frames) /\ Len(frames) \in Nat /\ n \in Nat
          /\ frames' # <<>> => n > 0
      <4>1. Len(frames) \in Nat /\ DOMAIN frames = 1..Len(frames)
            /\ \A m \in 1..Len(frames) : frames[m] \in Frame
        BY <1>2, LenProperties
      <4>2. /\ SubSeq(frames, 1, n) \in Seq(Frame) /\ Len(SubSeq(frames, 1, n)) = n
            /\ \A m \in 1..n : SubSeq(frames, 1, n)[m] = frames[m]
        <5>1. \A m \in 1..n : frames[m] \in Frame
          BY <4>1
        <5> HIDE DEF Frame
        <5>2. /\ SubSeq(frames, 1, n) \in Seq(Frame)
              /\ Len(SubSeq(frames, 1, n)) = IF 1 <= n THEN n - 1 + 1 ELSE 0
              /\ \A m \in 1..(n - 1 + 1) : SubSeq(frames, 1, n)[m] = frames[1 + m - 1]
          BY <4>1, <5>1, SubSeqProperties
        <5> QED BY <4>1, <5>2
      <4>3. frames' # <<>> => n > 0
        BY <3>1, <4>1, <4>2, EmptySeq
      <4> QED BY <3>1, <4>1, <4>2, <4>3, LenProperties
    <3>3. Handed' = Handed
      BY <2>1 DEF Handed
    <3>4. TypeOK'
      <4>1. faults' \in 0..MaxFaults /\ arrived' \in SUBSET (1..MaxUpdates)
        <5>1. arrived \in SUBSET (1..MaxUpdates) /\ arrived' \subseteq arrived
          BY <1>1, <3>1 DEF TypeOK
        <5>2. faults' \in 0..MaxFaults
          BY <1>2, <2>1 DEF WebsocketAssumption
        <5> QED BY <5>1, <5>2
      <4> QED BY <1>1, <2>1, <3>2, <4>1 DEF TypeOK
    <3>5. ConnectionInv'
      <4>1. frames = <<>> => n = 0
        BY <3>2, EmptySeq
      <4>2. n = 0 => frames' = <<>>
        BY <3>2, EmptySeq
      <4>3. \A m \in DOMAIN frames' : frames'[m] = Acknowledgement => m = 1 /\ step = "listen"
        BY <1>1, <3>2 DEF ConnectionInv
      <4>4. step = "listen" /\ frames' # <<>> => frames'[1] = Acknowledgement
        <5> SUFFICES ASSUME step = "listen", n > 0 PROVE frames'[1] = Acknowledgement
          BY <3>2
        <5>1. 1 \in 1..n /\ frames # <<>>
          BY <3>2, <4>1
        <5> QED BY <1>1, <3>2, <5>1 DEF ConnectionInv
      <4> QED BY <1>1, <2>1, <4>1, <4>2, <4>3, <4>4 DEF ConnectionInv
    <3>6. OnceInv'
      BY <1>1, <2>1, <3>2, <3>3 DEF OnceInv
    <3>7. DeliveryInv'
      <4> DEFINE Lost == {frames[m] : m \in n+1..Len(frames)}
                 Real == Waiting \ {Malformed, Acknowledgement}
      <4>1. Waiting = Waiting' \union Lost
        <5>1. Waiting' \union Lost \subseteq Waiting
          BY <3>2 DEF Waiting
        <5>2. ASSUME NEW m \in DOMAIN frames PROVE frames[m] \in Waiting' \union Lost
          <6>1. CASE m <= n
            BY <3>2, <5>2, <6>1 DEF Waiting
          <6>2. CASE ~(m <= n)
            BY <3>2, <5>2, <6>2
          <6> QED BY <6>1, <6>2
        <5> QED BY <5>1, <5>2 DEF Waiting
      <4>2. Handed \intersect Lost = {}
        BY <1>1, <3>2 DEF OnceInv
      <4>3. ASSUME NEW u \in Waiting', u \in Lost PROVE u \in {Malformed, Acknowledgement}
        <5>1. PICK k \in 1..n : u = frames[k]
          BY <3>2, <4>3 DEF Waiting
        <5>2. PICK m \in n+1..Len(frames) : u = frames[m]
          BY <4>3
        <5>3. k # m /\ k \in DOMAIN frames /\ m \in DOMAIN frames
          BY <3>2, <5>1, <5>2
        <5> HIDE DEF Lost, Real
        <5> QED BY <1>1, <5>1, <5>2, <5>3 DEF OnceInv
      <4>4. arrived = Handed \union Real
        BY <1>1, <2>1 DEF DeliveryInv
      <4> HIDE DEF Lost
      <4>5. arrived' = Handed \union (Waiting' \ {Malformed, Acknowledgement})
        <5>1. arrived' = arrived \ Lost
          BY <3>1 DEF Lost
        <5> QED BY <4>1, <4>2, <4>3, <4>4, <5>1
      <4> QED BY <3>3, <4>5 DEF DeliveryInv, Malformed, Acknowledgement
    <3> QED BY <2>2, <3>4, <3>5, <3>6, <3>7 DEF StreamInv
  <2> QED BY <1>15, <2>3, <2>4 DEF Disconnect
<1>16. CASE UNCHANGED vars
  <2>1. TypeOK' /\ ConnectionInv' /\ FaultInv'
    BY <1>1, <1>16 DEF vars, TypeOK, ConnectionInv, FaultInv
  <2>2. OnceInv' /\ DeliveryInv'
    BY <1>16, FramesStay DEF vars
  <2> QED BY <2>1, <2>2 DEF StreamInv
<1> QED BY <1>3, <1>4, <1>5, <1>6, <1>7, <1>8, <1>9, <1>10, <1>11, <1>12, <1>13, <1>14,
           <1>15, <1>16 DEF Next, Client, Network

(* The stream keeps its inductive invariant: frames come after the         *)
(* acknowledgement, updates come once, and what arrived was handed on or   *)
(* waits to be.                                                            *)
THEOREM StreamInvariant == Spec => []StreamInv
<1>1. Init => StreamInv
  BY StreamInit, WebsocketAssumption
<1>2. StreamInv /\ [Next]_vars => StreamInv'
  BY StreamStep, WebsocketAssumption
<1> QED BY <1>1, <1>2, PTL DEF Spec

(* Every variable stays of its type.                                       *)
THEOREM StreamTyped == Spec => []TypeOK
<1>1. StreamInv => TypeOK
  BY DEF StreamInv
<1> QED BY <1>1, StreamInvariant, PTL

(* No update that reached the client is lost between the connection and    *)
(* the consumer: whenever the client is between two connections, or its    *)
(* stream has come to an end by itself, everything was handed on.          *)
THEOREM ReceivedIsHandedOn == Spec => []NothingReceivedIsLost
<1>1. StreamInv => NothingReceivedIsLost
  <2> SUFFICES ASSUME StreamInv, step \in {"dial", "sleep"} \/ ending = "returned"
               PROVE  arrived = Handed
    BY DEF NothingReceivedIsLost, Handed
  <2>1. conn = "none"
    BY DEF StreamInv, TypeOK, ConnectionInv
  <2>2. DOMAIN frames = {}
    BY <2>1, EmptySeq, LenProperties DEF StreamInv, ConnectionInv
  <2>3. Waiting = {}
    BY <2>2 DEF Waiting
  <2> QED BY <2>3 DEF StreamInv, DeliveryInv
<1> QED BY <1>1, StreamInvariant, PTL

-----------------------------------------------------------------------------
(* The sleeps.                                                             *)

(* Induction over the naturals, as a property of sets.                     *)
LEMMA NatSets ==
  ASSUME NEW T \in SUBSET Nat, 0 \in T, \A n \in T : n + 1 \in T
  PROVE  T = Nat
<1> SUFFICES ASSUME Nat \ T # {} PROVE FALSE
  OBVIOUS
<1>1. PICK n \in Nat \ T : \A m \in Nat \ T : ~(<<m, n>> \in OpToRel(<, Nat))
  BY NatLessThanWellFounded, WFMin
<1>2. n # 0 /\ n - 1 \in Nat /\ <<n - 1, n>> \in OpToRel(<, Nat)
  BY DEF OpToRel
<1>3. n - 1 \in T
  BY <1>1, <1>2
<1>4. (n - 1) + 1 \in T
  BY <1>3
<1> QED BY <1>4

(* There are powers of two, and TwoTo is them.                             *)
LEMMA PowersOfTwo ==
  ASSUME WebsocketAssumption
  PROVE  /\ TwoTo[0] = 1 /\ TwoTo \in [0..MaxFaults -> Nat \ {0}]
         /\ \A n \in 1..MaxFaults : TwoTo[n] = 2 * TwoTo[n - 1]
<1> DEFINE Powers == [0..MaxFaults -> Nat \ {0}]
           Value(g, n) == IF n = 0 THEN 1 ELSE 2 * g[n - 1]
           T == {k \in Nat : \E g \in Powers :
                               \A n \in 0..MaxFaults : n <= k => g[n] = Value(g, n)}
<1>1. MaxFaults \in Nat
  BY DEF WebsocketAssumption
<1>2. 0 \in T
  <2> DEFINE g == [n \in 0..MaxFaults |-> 1]
  <2>1. g \in Powers /\ \A n \in 0..MaxFaults : n <= 0 => g[n] = Value(g, n)
    OBVIOUS
  <2> QED BY <2>1
<1>3. ASSUME NEW k \in T PROVE k + 1 \in T
  <2>1. PICK g \in Powers : \A n \in 0..MaxFaults : n <= k => g[n] = Value(g, n)
    OBVIOUS
  <2> DEFINE h == [n \in 0..MaxFaults |-> Value(g, n)]
  <2>2. h \in Powers
    <3>1. ASSUME NEW n \in 0..MaxFaults PROVE Value(g, n) \in Nat \ {0}
      <4>1. n # 0 => g[n - 1] \in Nat \ {0}
        BY <1>1
      <4> QED BY <4>1
    <3> QED BY <3>1
  <2>3. ASSUME NEW n \in 0..MaxFaults, n <= k + 1 PROVE h[n] = Value(h, n)
    <3>1. CASE n = 0
      BY <3>1
    <3>2. CASE n # 0
      <4>1. n - 1 \in 0..MaxFaults /\ n - 1 <= k
        BY <1>1, <2>3, <3>2
      <4>2. h[n - 1] = g[n - 1]
        BY <2>1, <4>1
      <4> QED BY <3>2, <4>2
    <3> QED BY <3>1, <3>2
  <2> HIDE DEF h, Powers, Value
  <2>4. k + 1 \in Nat
    OBVIOUS
  <2> QED BY <2>2, <2>3, <2>4
<1>4. T = Nat
  <2> HIDE DEF T
  <2> T \in SUBSET Nat
    BY DEF T
  <2> QED BY <1>2, <1>3, NatSets
<1>5. PICK g \in Powers : \A n \in 0..MaxFaults : n <= MaxFaults => g[n] = Value(g, n)
  BY <1>1, <1>4
<1>6. g = [n \in 0..MaxFaults |-> IF n = 0 THEN 1 ELSE 2 * g[n - 1]]
  BY <1>1, <1>5
<1>7. TwoTo = [n \in 0..MaxFaults |-> IF n = 0 THEN 1 ELSE 2 * TwoTo[n - 1]]
  BY <1>6 DEF TwoTo
<1>8. \A n \in 0..MaxFaults : TwoTo[n] \in Nat \ {0}
  <2> DEFINE P == {k \in Nat : k \in 0..MaxFaults => TwoTo[k] \in Nat \ {0}}
  <2>1. 0 \in P
    BY <1>1, <1>7
  <2>2. ASSUME NEW k \in P PROVE k + 1 \in P
    <3> SUFFICES ASSUME k + 1 \in 0..MaxFaults PROVE TwoTo[k + 1] \in Nat \ {0}
      OBVIOUS
    <3>1. k \in 0..MaxFaults /\ TwoTo[k] \in Nat \ {0}
      BY <1>1
    <3>2. TwoTo[k + 1] = 2 * TwoTo[k]
      BY <1>1, <1>7, <3>1
    <3> QED BY <3>1, <3>2
  <2>3. P = Nat
    <3> HIDE DEF P
    <3> P \in SUBSET Nat
      BY DEF P
    <3> QED BY <2>1, <2>2, NatSets
  <2> QED BY <1>1, <2>3
<1> QED BY <1>1, <1>7, <1>8

(* The sleep after so many failures.                                       *)
Doubling(n) == Min({InitialBackoff * TwoTo[n], MaxBackoff})

(* The ceiling of a doubled sleep is the doubling of its ceiling.          *)
LEMMA DoublingDoubles ==
  ASSUME WebsocketAssumption
  PROVE  /\ Doubling(0) = InitialBackoff
         /\ \A n \in 0..(MaxFaults - 1) : Min({Doubling(n) * 2, MaxBackoff}) = Doubling(n + 1)
<1>1. \A a, b \in Int : Min({a, b}) = IF a <= b THEN a ELSE b
  BY DEF Min
<1>2. InitialBackoff \in Nat /\ MaxBackoff \in Nat /\ InitialBackoff <= MaxBackoff
      /\ MaxFaults \in Nat
  BY DEF WebsocketAssumption
<1>3. Doubling(0) = InitialBackoff
  <2>1. InitialBackoff * TwoTo[0] = InitialBackoff
    BY <1>2, PowersOfTwo
  <2> QED BY <1>1, <1>2, <2>1 DEF Doubling
<1>4. ASSUME NEW n \in 0..(MaxFaults - 1)
      PROVE  Min({Doubling(n) * 2, MaxBackoff}) = Doubling(n + 1)
  <2>1. TwoTo[n] \in Nat /\ TwoTo[n + 1] = 2 * TwoTo[n]
    <3>1. n \in 0..MaxFaults /\ n + 1 \in 1..MaxFaults /\ (n + 1) - 1 = n
      BY <1>2
    <3> QED BY <3>1, PowersOfTwo
  <2> DEFINE a == InitialBackoff * TwoTo[n]
  <2>2. a \in Nat /\ InitialBackoff * TwoTo[n + 1] = 2 * a
    BY <1>2, <2>1
  <2>3. Doubling(n) = Min({a, MaxBackoff})
        /\ Doubling(n + 1) = Min({InitialBackoff * TwoTo[n + 1], MaxBackoff})
    BY DEF Doubling
  <2> HIDE DEF a
  <2> QED BY <1>1, <1>2, <2>2, <2>3
<1> QED BY <1>3, <1>4

(* The next sleep is told by the failures since the handshake.             *)
BackoffInv ==
  /\ step = "sleep" => failed > 0 /\ slept = backoff /\ backoff = Doubling(failed - 1)
  /\ step \notin {"sleep", "ended"} => backoff = Doubling(failed)

(* One step of the client, of the venue or of the network.                 *)
LEMMA BackoffStep ==
  ASSUME WebsocketAssumption, StreamInv, BackoffInv, [Next]_vars
  PROVE  BackoffInv'
<1>1. /\ failed \in Nat /\ failed <= MaxFaults /\ MaxFaults \in Nat
      /\ backoff \in Nat
  BY DEF StreamInv, TypeOK, WebsocketAssumption
<1>2. CASE Wake
  <2>1. /\ failed > 0 /\ backoff = Doubling(failed - 1) /\ step' = "dial"
        /\ backoff' = Min({backoff * 2, MaxBackoff}) /\ failed' = failed
    BY <1>2 DEF Wake, BackoffInv, Doubled
  <2>2. failed - 1 \in 0..(MaxFaults - 1) /\ (failed - 1) + 1 = failed
    BY <1>1, <2>1
  <2>3. backoff' = Doubling(failed)
    BY <2>1, <2>2, DoublingDoubles
  <2>4. Doubling(failed)' = Doubling(failed)
    BY <2>1 DEF Doubling
  <2> QED BY <2>1, <2>3, <2>4 DEF BackoffInv
<1>3. CASE Listening
  <2>1. step' = "stream" /\ failed' = 0 /\ backoff' = InitialBackoff
    BY <1>3 DEF Listening, BackoffAfterHandshake
  <2>2. Doubling(failed') = InitialBackoff
    BY <2>1, DoublingDoubles
  <2> QED BY <2>1, <2>2 DEF BackoffInv
<1>4. ASSUME NEW problem, Raise(problem), step \notin {"sleep", "ended"} PROVE BackoffInv'
  <2>1. CASE IsTransient(problem)
    <3>1. step' = "sleep" /\ slept' = backoff /\ failed' = failed + 1 /\ backoff' = backoff
      BY <1>4, <2>1 DEF Raise, Sleep
    <3>2. backoff = Doubling(failed) /\ failed' - 1 = failed
      BY <1>1, <1>4, <3>1 DEF BackoffInv
    <3> QED BY <1>1, <3>1, <3>2 DEF BackoffInv
  <2>2. CASE ~IsTransient(problem)
    BY <1>4, <2>2 DEF Raise, End, BackoffInv
  <2> QED BY <2>1, <2>2
<1>5. CASE DialFails
  BY <1>4, <1>5 DEF DialFails
<1>6. CASE ConnectionOver
  <2>1. step \notin {"sleep", "ended"}
    BY <1>6 DEF ConnectionOver
  <2> QED BY <1>4, <1>6, <2>1 DEF ConnectionOver, End, BackoffInv
<1>7. CASE Refused \/ Cancel
  BY <1>7 DEF Refused, Cancel, End, BackoffInv
<1>8. CASE Dial \/ Authorized \/ Receive \/ Acknowledge \/ Emit \/ SendMalformed
           \/ Disconnect \/ UNCHANGED vars
  <2>1. UNCHANGED <<failed, backoff, slept>> /\ (step' = "sleep") = (step = "sleep")
        /\ (step' = "ended") = (step = "ended")
    BY <1>8 DEF Dial, Authorized, Receive, Acknowledge, Emit, SendMalformed, Disconnect, vars
  <2> QED BY <2>1 DEF BackoffInv, Doubling
<1> QED BY <1>2, <1>3, <1>5, <1>6, <1>7, <1>8 DEF Next, Client, Network

(* The sleep is InitialBackoff doubled for each failure since the last     *)
(* complete handshake, up to the ceiling, however the connections end.     *)
THEOREM BackoffFollows == Spec => []BackoffFollowsFailures
<1>1. Init => BackoffInv
  BY DoublingDoubles, WebsocketAssumption DEF Init, BackoffInv
<1>2. StreamInv /\ BackoffInv /\ [Next]_vars => BackoffInv'
  BY BackoffStep, WebsocketAssumption
<1>3. BackoffInv => BackoffFollowsFailures
  BY DEF BackoffInv, BackoffFollowsFailures, Doubling
<1> QED BY <1>1, <1>2, <1>3, StreamInvariant, PTL DEF Spec

-----------------------------------------------------------------------------
(* The providers.                                                          *)

(* The order of a call names no provider twice, and a call of the registry *)
(* all of them.                                                            *)
Fits(call) ==
  /\ call.order \in Seq(Providers) /\ Len(call.order) \in 1..Len(kinds)
  /\ \A m, n \in 1..Len(call.order) : call.order[m] = call.order[n] => m = n
  /\ call.via = Registry =>
       \A p \in Providers : \E n \in 1..Len(call.order) : call.order[n] = p

Asked(order, n) == {order[m] : m \in 1..n}

(* A call has asked the providers up to its position, each of them once.   *)
CallInv(call) ==
  /\ ~call.again
  /\ call.state = "waiting" => /\ Fits(call) /\ call.pos \in 1..Len(call.order)
                               /\ call.tried = Asked(call.order, call.pos)
                               /\ call.result = "none"
  /\ call.result = "exhausted" => call.tried = Providers

CallsInv == \A c \in Calls : CallInv(calls[c])

ProvidersInv == ProvidersTypeOK /\ kinds \in Setups /\ CallsInv

(* There is a provider.                                                    *)
LEMMA SomeProviders ==
  ASSUME LlmProvidersAssumption, kinds \in Setups
  PROVE  Len(kinds) \in Nat \ {0} /\ Providers = 1..Len(kinds)
BY EmptySeq, LenProperties DEF LlmProvidersAssumption, Providers

(* The order that starts with the warm provider names each of them once.   *)
LEMMA OrderFits ==
  ASSUME LlmProvidersAssumption, kinds \in Setups, warm \in Providers
  PROVE  /\ OrderedIndices \in Seq(Providers) /\ Len(OrderedIndices) = Len(kinds)
         /\ \A m, n \in 1..Len(kinds) : OrderedIndices[m] = OrderedIndices[n] => m = n
         /\ \A p \in Providers : \E n \in 1..Len(kinds) : OrderedIndices[n] = p
<1>1. Len(kinds) \in Nat \ {0} /\ Providers = 1..Len(kinds)
  BY SomeProviders
<1> DEFINE L == Len(kinds)
<1>2. OrderedIndices = [n \in 1..L |-> IF n = 1 THEN warm ELSE IF n <= warm THEN n - 1 ELSE n]
  BY <1>1 DEF OrderedIndices
<1> HIDE DEF L
<1>3. L \in Nat \ {0} /\ warm \in 1..L /\ Providers = 1..L
  BY <1>1 DEF L
<1>4. OrderedIndices \in [1..L -> Providers]
  BY <1>2, <1>3
<1>5. OrderedIndices \in Seq(Providers) /\ Len(OrderedIndices) = L
  BY <1>3, <1>4
<1>6. \A m, n \in 1..L : OrderedIndices[m] = OrderedIndices[n] => m = n
  BY <1>2, <1>3
<1>7. ASSUME NEW p \in Providers PROVE \E n \in 1..L : OrderedIndices[n] = p
  <2>1. CASE p = warm
    <3>1. OrderedIndices[1] = p /\ 1 \in 1..L
      BY <1>2, <1>3, <2>1
    <3> QED BY <3>1
  <2>2. CASE p < warm
    <3>1. p + 1 \in 1..L /\ OrderedIndices[p + 1] = p
      BY <1>2, <1>3, <2>2
    <3> QED BY <3>1
  <2>3. CASE p > warm
    <3>1. OrderedIndices[p] = p /\ p \in 1..L
      BY <1>2, <1>3, <2>3
    <3> QED BY <3>1
  <2> QED BY <1>3, <2>1, <2>2, <2>3
<1> QED BY <1>5, <1>6, <1>7 DEF L

(* No credential is read that was not written.                             *)
LEMMA ProvidersStart == ASSUME LlmProvidersAssumption, ProvidersInit PROVE ProvidersInv
<1>1. kinds \in Setups /\ Len(kinds) \in Nat \ {0} /\ Providers = 1..Len(kinds)
  BY SomeProviders DEF ProvidersInit
<1>2. NoCall \in Call /\ CallInv(NoCall)
  BY <1>1, EmptySeq DEF NoCall, Call, CallInv, Results
<1>3. Absent \in Credential
  BY DEF Absent, Credential, LlmProvidersAssumption
<1>4. ProvidersTypeOK
  BY <1>1, <1>2, <1>3 DEF ProvidersInit, ProvidersTypeOK, LlmProvidersAssumption
<1>5. CallsInv
  BY <1>2 DEF ProvidersInit, CallsInv
<1> QED BY <1>1, <1>4, <1>5 DEF ProvidersInv

(* A call that ends keeps what it asked.                                   *)
LEMMA EndKeepsCalls ==
  ASSUME LlmProvidersAssumption, ProvidersInv,
         NEW c \in Calls, NEW call \in Call, NEW result \in Results,
         ~call.again, result = "exhausted" => call.tried = Providers,
         EndCall(c, call, result), UNCHANGED kinds
  PROVE  calls' \in [Calls -> Call'] /\ CallsInv'
<1> DEFINE next == [call EXCEPT !.state = "done", !.via = Registry, !.order = <<>>,
                                !.pos = 0, !.result = result]
<1>1. Providers' = Providers /\ Call' = Call
  BY DEF Providers, Call
<1>2. next \in Call /\ next.again = call.again /\ next.state = "done"
      /\ next.tried = call.tried /\ next.result = result
  <2>1. 0 \in 0..Len(kinds)
    BY SomeProviders DEF ProvidersInv
  <2> QED BY <2>1, EmptySeq DEF Call
<1>3. calls' = [calls EXCEPT ![c] = next] /\ calls \in [Calls -> Call]
  BY DEF EndCall, ProvidersInv, ProvidersTypeOK
<1> HIDE DEF next
<1>4. CallInv(next)'
  BY <1>1, <1>2 DEF CallInv
<1> QED BY <1>1, <1>2, <1>3, <1>4 DEF ProvidersInv, CallsInv, CallInv, Fits

(* A call that goes on asks the providers from its next position up to the *)
(* first whose request leaves, none of which it had asked.                 *)
LEMMA GoOnKeepsCalls ==
  ASSUME LlmProvidersAssumption, ProvidersInv, NEW c \in Calls, NEW call \in Call,
         NEW from \in Nat \ {0}, from <= Len(call.order) + 1, NEW dark,
         Fits(call), call.tried = Asked(call.order, from - 1),
         ~call.again, call.result = "none",
         GoOn(c, call, from, dark), UNCHANGED kinds
  PROVE  calls' \in [Calls -> Call'] /\ CallsInv'
<1> DEFINE order == call.order
           L == Len(order)
           able == {n \in from..L : Sendable(order[n], dark)}
           stop == IF able = {} THEN L ELSE CHOOSE n \in able : \A m \in able : n <= m
           asked == {order[n] : n \in from..stop}
           next == [call EXCEPT !.pos = stop, !.tried = @ \union asked,
                                !.again = @ \/ asked \intersect call.tried # {}]
           waits == [next EXCEPT !.state = "waiting"]
<1>1. L \in Nat \ {0} /\ L <= Len(kinds) /\ Len(kinds) \in Nat \ {0} /\ Providers = 1..Len(kinds)
      /\ \A n \in 1..L : order[n] \in Providers
  BY SomeProviders, LenProperties DEF ProvidersInv, Fits
<1>2. /\ stop \in 1..L /\ from - 1 <= stop
      /\ able = {} => stop = L
      /\ able # {} => stop \in able
  <2>1. CASE able = {}
    BY <1>1, <2>1
  <2>2. CASE able # {}
    <3>1. able \in SUBSET Nat
      BY <1>1
    <3>2. \E n \in able : \A m \in able : n <= m
      <4> HIDE DEF able
      <4>1. PICK n \in able : \A m \in able : ~(<<m, n>> \in OpToRel(<, Nat))
        BY <2>2, <3>1, NatLessThanWellFounded, WFMin
      <4>2. ASSUME NEW m \in able PROVE n <= m
        <5>1. m \in Nat /\ n \in Nat
          BY <3>1, <4>1
        <5>2. ~(m < n)
          BY <4>1, <5>1 DEF OpToRel
        <5> QED BY <5>1, <5>2
      <4> QED BY <4>2
    <3>3. stop \in able
      BY <2>2, <3>2
    <3>4. stop \in from..L
      BY <3>3
    <3> HIDE DEF stop
    <3>5. stop \in 1..L /\ from - 1 <= stop
      BY <1>1, <3>4
    <3> QED BY <2>2, <3>3, <3>5
  <2> QED BY <2>1, <2>2
<1> HIDE DEF able, stop
<1>3. asked \in SUBSET Providers
  BY <1>1, <1>2
<1>4. asked \intersect call.tried = {}
  <2>1. SUFFICES ASSUME NEW n \in from..stop, NEW m \in 1..(from - 1), order[n] = order[m]
                 PROVE  FALSE
    BY DEF Asked
  <2>2. n \in 1..L /\ m \in 1..L /\ m # n
    BY <1>1, <1>2
  <2> QED BY <2>1, <2>2 DEF Fits
<1>5. call.tried \union asked = Asked(order, stop)
  <2>1. 1..stop = (1..(from - 1)) \union (from..stop)
    BY <1>1, <1>2
  <2> HIDE DEF order
  <2> QED BY <2>1 DEF Asked, order
<1> HIDE DEF asked
<1>6. next \in Call /\ next.tried = Asked(order, stop) /\ ~next.again /\ next.pos = stop
      /\ next.order = order /\ next.via = call.via /\ next.result = "none"
  <2>1. stop \in 0..Len(kinds)
    BY <1>1, <1>2
  <2> QED BY <1>3, <1>4, <1>5, <2>1 DEF Call
<1>7. CASE able = {}
  <2>1. EndCall(c, next, IF call.via = Registry THEN "exhausted" ELSE "error")
    BY <1>7 DEF GoOn, able, stop, asked
  <2>2. call.via = Registry => next.tried = Providers
    <3>1. stop = L
      BY <1>2, <1>7
    <3>2. next.tried = {order[m] : m \in 1..L}
      BY <1>6, <3>1 DEF Asked
    <3>3. {order[m] : m \in 1..L} \subseteq Providers
      BY <1>1
    <3>4. call.via = Registry => Providers \subseteq {order[m] : m \in 1..L}
      BY DEF Fits
    <3> HIDE DEF next, order, L
    <3> QED BY <3>2, <3>3, <3>4
  <2> HIDE DEF next
  <2> QED BY <1>6, <2>1, <2>2, EndKeepsCalls DEF Results
<1>8. CASE able # {}
  <2>1. calls' = [calls EXCEPT ![c] = waits]
    BY <1>8 DEF GoOn, able, stop, asked
  <2>2. /\ waits \in Call /\ waits.tried = next.tried /\ waits.again = next.again
        /\ waits.order = next.order /\ waits.via = next.via /\ waits.pos = next.pos
        /\ waits.result = next.result /\ waits.state = "waiting"
    BY <1>6 DEF Call
  <2> HIDE DEF waits, next
  <2>3. Providers' = Providers /\ Call' = Call
    BY DEF Providers, Call
  <2>4. Fits(waits)
    BY <1>6, <2>2 DEF Fits
  <2>5. CallInv(waits)
    BY <1>2, <1>6, <2>2, <2>4 DEF CallInv
  <2>6. \A x : CallInv(x) => CallInv(x)'
    BY <2>3 DEF CallInv, Fits, Asked
  <2> QED BY <2>1, <2>2, <2>3, <2>5, <2>6 DEF ProvidersInv, ProvidersTypeOK, CallsInv
<1> QED BY <1>7, <1>8

(* Every step of a call, of a login and of the clock.                      *)
LEMMA ProvidersStep ==
  ASSUME LlmProvidersAssumption, ProvidersInv, [ProvidersNext]_providerVars PROVE ProvidersInv'
<1>1. /\ ProvidersTypeOK /\ CallsInv /\ kinds \in Setups /\ calls \in [Calls -> Call]
      /\ Len(kinds) \in Nat \ {0} /\ Providers = 1..Len(kinds)
      /\ warm \in Providers /\ now \in 1..MaxTime
      /\ file \in [CliProviders -> Credential] /\ keychain \in [CliProviders -> Credential]
  BY SomeProviders DEF ProvidersInv, ProvidersTypeOK
<1>2. kinds' = kinds
  BY DEF ProvidersNext, Complete, Answer, CancelCall, LogIn, Tick, providerVars
<1>3. Providers' = Providers /\ CliProviders' = CliProviders /\ Call' = Call
  BY <1>2 DEF Providers, CliProviders, Call
<1>4. SUFFICES /\ calls' \in [Calls -> Call'] /\ CallsInv' /\ warm' \in Providers
               /\ now' \in 1..MaxTime
               /\ file' \in [CliProviders -> Credential]
               /\ keychain' \in [CliProviders -> Credential]
  BY <1>1, <1>2, <1>3 DEF ProvidersInv, ProvidersTypeOK
<1>5. ASSUME NEW c \in Calls, Complete(c) PROVE calls' \in [Calls -> Call'] /\ CallsInv'
  <2>1. PICK via \in Providers \union {Registry}, dark \in Dark :
               GoOn(c, [NoCall EXCEPT !.via = via,
                          !.order = IF via = Registry THEN OrderedIndices ELSE <<via>>], 1, dark)
    BY <1>5 DEF Complete
  <2> DEFINE order == IF via = Registry THEN OrderedIndices ELSE <<via>>
             call == [NoCall EXCEPT !.via = via, !.order = order]
  <2>2. /\ order \in Seq(Providers) /\ Len(order) \in 1..Len(kinds)
        /\ \A m, n \in 1..Len(order) : order[m] = order[n] => m = n
        /\ via = Registry => \A p \in Providers : \E n \in 1..Len(order) : order[n] = p
    <3>1. CASE via = Registry
      <4>1. order = OrderedIndices
        BY <3>1
      <4> HIDE DEF order
      <4>2. /\ OrderedIndices \in Seq(Providers) /\ Len(OrderedIndices) = Len(kinds)
            /\ \A m, n \in 1..Len(kinds) : OrderedIndices[m] = OrderedIndices[n] => m = n
            /\ \A p \in Providers : \E n \in 1..Len(kinds) : OrderedIndices[n] = p
        BY <1>1, OrderFits
      <4> QED BY <1>1, <4>1, <4>2
    <3>2. CASE via # Registry
      BY <1>1, <3>2
    <3> QED BY <3>1, <3>2
  <2> HIDE DEF order
  <2>3. /\ call \in Call /\ call.order = order /\ call.via = via /\ call.tried = {}
        /\ ~call.again /\ call.result = "none"
    <3>1. /\ NoCall \in Call /\ NoCall.tried = {} /\ ~NoCall.again /\ NoCall.result = "none"
      BY <1>1, EmptySeq DEF NoCall, Call, Results
    <3> QED BY <2>2, <3>1 DEF Call
  <2>4. GoOn(c, call, 1, dark)
    BY <2>1 DEF order
  <2> HIDE DEF call
  <2>5. Fits(call)
    BY <2>2, <2>3 DEF Fits
  <2>6. call.tried = Asked(call.order, 1 - 1) /\ 1 <= Len(call.order) + 1
    BY <1>1, <2>2, <2>3 DEF Asked
  <2> QED BY <1>2, <2>3, <2>4, <2>5, <2>6, GoOnKeepsCalls
<1>6. ASSUME NEW c \in Calls, Answer(c)
      PROVE  calls' \in [Calls -> Call'] /\ CallsInv' /\ warm' \in Providers
  <2> DEFINE call == calls[c]
  <2>1. /\ call \in Call /\ ~call.again /\ Fits(call) /\ call.pos \in 1..Len(call.order)
        /\ call.tried = Asked(call.order, call.pos) /\ call.result = "none"
        /\ Len(call.order) \in Nat
    BY <1>1, <1>6, LenProperties DEF Answer, CallsInv, CallInv, Fits
  <2>2. ProviderOf(c) \in Providers
    BY <2>1, LenProperties DEF ProviderOf, Fits
  <2>3. PICK end \in Ends(ProviderOf(c)) :
          \/ end = "failed" /\ Fallback(c)
          \/ /\ end # "failed" /\ EndCall(c, call, end)
             /\ warm' = IF end = "answered" /\ call.via = Registry
                        THEN ProviderOf(c) ELSE warm
    BY <1>6 DEF Answer
  <2>4. CASE end = "failed" /\ Fallback(c)
    <3>1. PICK dark \in Dark : GoOn(c, call, call.pos + 1, dark)
      <4>1. [call EXCEPT !.order = OrderOf(c)] = call
        BY <2>1 DEF OrderOf, Call
      <4> QED BY <2>4, <4>1 DEF Fallback, NextPosition
    <3>2. call.pos + 1 \in Nat \ {0} /\ call.pos + 1 <= Len(call.order) + 1
          /\ (call.pos + 1) - 1 = call.pos
      BY <2>1
    <3>3. warm' = warm
      BY <2>4 DEF Fallback
    <3> HIDE DEF call
    <3> QED BY <1>1, <1>2, <2>1, <3>1, <3>2, <3>3, GoOnKeepsCalls
  <2>5. CASE end # "failed" /\ EndCall(c, call, end)
    <3>1. end \in {"answered", "raised"}
      BY <2>5 DEF Ends
    <3> HIDE DEF call
    <3>2. calls' \in [Calls -> Call'] /\ CallsInv'
      BY <1>2, <2>1, <2>5, <3>1, EndKeepsCalls DEF Results
    <3>3. warm' \in Providers
      BY <1>1, <2>2, <2>3, <2>5
    <3> QED BY <3>2, <3>3
  <2> QED BY <2>3, <2>4, <2>5
<1>7. ASSUME NEW c \in Calls, CancelCall(c) PROVE calls' \in [Calls -> Call'] /\ CallsInv'
  <2>1. calls[c] \in Call /\ ~calls[c].again /\ EndCall(c, calls[c], "raised")
    BY <1>1, <1>7 DEF CancelCall, CallsInv, CallInv
  <2> QED BY <1>2, <2>1, EndKeepsCalls DEF Results
<1>8. ASSUME UNCHANGED calls PROVE calls' \in [Calls -> Call'] /\ CallsInv'
  BY <1>1, <1>2, <1>3, <1>8 DEF CallsInv, CallInv, Fits, Asked
<1>9. ASSUME NEW p \in CliProviders, LogIn(p)
      PROVE  /\ file' \in [CliProviders -> Credential]
             /\ keychain' \in [CliProviders -> Credential]
  <2>1. PICK cred \in Logins(p) :
          \/ file' = [file EXCEPT ![p] = cred] /\ UNCHANGED keychain
          \/ keychain' = [keychain EXCEPT ![p] = cred] /\ UNCHANGED file
    BY <1>9 DEF LogIn
  <2>2. cred \in Credential
    <3>1. CASE cred = Absent
      BY <3>1 DEF Absent, Credential, LlmProvidersAssumption
    <3>2. CASE cred # Absent
      <4>1. /\ ReadableEnds(p, now + Life) \subseteq 0..(MaxTime + Life)
            /\ (IF kinds[p] = "claude" THEN {0} ELSE {0, now}) \subseteq 0..MaxTime
        BY <1>1 DEF ReadableEnds, LlmProvidersAssumption
      <4>2. cred \in [there : {TRUE}, end : ReadableEnds(p, now + Life),
                       refreshed : IF kinds[p] = "claude" THEN {0} ELSE {0, now}]
        BY <3>2 DEF Logins
      <4> QED BY <4>1, <4>2 DEF Credential
    <3> QED BY <3>1, <3>2
  <2> QED BY <1>1, <2>1, <2>2
<1>10. Tick => now' \in 1..MaxTime
  BY <1>1 DEF Tick, LlmProvidersAssumption
<1>11. CASE \E c \in Calls : Complete(c)
  BY <1>1, <1>5, <1>11 DEF Complete
<1>12. CASE \E c \in Calls : Answer(c)
  BY <1>1, <1>6, <1>12 DEF Answer
<1>13. CASE \E c \in Calls : CancelCall(c)
  BY <1>1, <1>7, <1>13 DEF CancelCall
<1>14. CASE \E p \in CliProviders : LogIn(p)
  BY <1>1, <1>8, <1>9, <1>14 DEF LogIn
<1>15. CASE Tick
  BY <1>1, <1>8, <1>10, <1>15 DEF Tick
<1>16. CASE UNCHANGED providerVars
  BY <1>1, <1>8, <1>16 DEF providerVars
<1> QED BY <1>11, <1>12, <1>13, <1>14, <1>15, <1>16 DEF ProvidersNext

(* The providers keep their inductive invariant.                           *)
THEOREM ProvidersInvariant == ProvidersSpec => []ProvidersInv
<1>1. ProvidersInit => ProvidersInv
  BY ProvidersStart, LlmProvidersAssumption
<1>2. ProvidersInv /\ [ProvidersNext]_providerVars => ProvidersInv'
  BY ProvidersStep, LlmProvidersAssumption
<1> QED BY <1>1, <1>2, PTL DEF ProvidersSpec

(* Every variable of the providers stays of its type.                      *)
THEOREM ProvidersTyped == ProvidersSpec => []ProvidersTypeOK
<1>1. ProvidersInv => ProvidersTypeOK
  BY DEF ProvidersInv
<1> QED BY <1>1, ProvidersInvariant, PTL

(* However calls overlap and move the warm provider, a call asks none      *)
(* twice, and one of the registry gives up only after it asked them all.   *)
THEOREM EachIsTriedOnce == ProvidersSpec => []EachTriedOnce
<1>1. ProvidersInv => EachTriedOnce
  BY DEF ProvidersInv, CallsInv, CallInv, EachTriedOnce
<1> QED BY <1>1, ProvidersInvariant, PTL
=============================================================================
