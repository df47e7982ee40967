--------------------------- MODULE LiveBrokerProofs ---------------------------
(***************************************************************************)
(* Proofs about LiveBroker, for every set of cycles and tickers, every     *)
(* bound and every loss cap.                                               *)
(***************************************************************************)
EXTENDS LiveBroker, TLAPS

USE DEF brokerVars, execVars, journalVars, venueVars, histVars

-----------------------------------------------------------------------------
(* Type correctness. *)

(* A batch computed from two well-typed books holds well-typed orders. *)
LEMMA DeltasType ==
  ASSUME LiveBrokerAssumption, paper \in Book,
         NEW c \in Cycles, NEW target \in Targets
  PROVE  Deltas(c, target) \subseteq Order
<1> SUFFICES ASSUME NEW t \in Tickers
             PROVE  [cycle |-> c, ticker |-> t, qty |-> target[t] - paper[t]]
                      \in Order
  BY DEF Deltas
<1>1. target[t] \in 0..MaxQty /\ paper[t] \in 0..MaxQty
  BY DEF LiveBrokerAssumption, Book
<1>2. target[t] - paper[t] \in (-MaxQty)..MaxQty
  BY <1>1 DEF LiveBrokerAssumption
<1> QED
  BY <1>2 DEF Order

(* Returning from execute keeps the types of what Return assigns. *)
LEMMA ReturnType ==
  ASSUME TypeOK, NEW c \in Cycles,
         NEW status \in {"skipped", "rejected", "submitted", "raised"},
         NEW asked \in SUBSET Order, NEW batch \in SUBSET Order,
         NEW alarm \in BOOLEAN, Return(c, status, asked, batch, alarm)
  PROVE  /\ result' \in [Cycles -> Report]
         /\ pc' = "idle" /\ order' = NoOrder /\ todo' \in SUBSET Order
         /\ reply' = "none" /\ live_fills' \in SUBSET Order
         /\ killedRunning' \in BOOLEAN
<1>1. [status |-> status, asked |-> asked, batch |-> batch, alarm |-> alarm]
        \in Report
  BY DEF Report
<1> QED
  BY <1>1 DEF TypeOK, Return

(* Logging an event keeps the log's type. *)
LEMMA EmitType ==
  ASSUME TypeOK, NEW e \in Event, Emit(e)
  PROVE  log' \in [Event -> 0..2]
BY DEF TypeOK, Emit, Once

(* The process starts well typed. *)
LEMMA TypeInit == LiveBrokerAssumption /\ Init => TypeOK
<1> SUFFICES ASSUME LiveBrokerAssumption, Init PROVE TypeOK
  OBVIOUS
<1>1. paper \in Book
  BY DEF Init, EmptyBook, Book, LiveBrokerAssumption
<1>2. result \in [Cycles -> Report]
  BY DEF Init, Report
<1>3. log \in [Event -> 0..2]
  BY DEF Init
<1>4. venue \in [Order -> {"none", "open", "filled", "cancelled"}]
  BY DEF Init
<1>5. /\ pc = "idle" /\ order = NoOrder /\ todo = {} /\ reply = "none"
      /\ live_fills = {} /\ recorded = NoUpdate
  BY DEF Init
<1>6. /\ submissions = {} /\ fills = {} /\ cancellations = {}
      /\ executed = {} /\ updates = {} /\ late = {}
  BY DEF Init
<1>7. /\ killed = FALSE /\ enabled = FALSE /\ loss = 0
      /\ execs = 0 /\ crashes = 0
      /\ killedRunning = FALSE /\ overridden = FALSE
  BY DEF Init
<1> QED
  BY <1>1, <1>2, <1>3, <1>4, <1>5, <1>6, <1>7 DEF TypeOK

(* Every step keeps every type, one action at a time. *)
LEMMA TypeNext ==
  ASSUME LiveBrokerAssumption, TypeOK, [Next]_vars
  PROVE  TypeOK'
<1>1. ASSUME NEW c \in Cycles, ExecuteSkipped(c) PROVE TypeOK'
  <2>1. Return(c, "skipped", {}, {}, FALSE)
    BY <1>1 DEF ExecuteSkipped
  <2>2. /\ result' \in [Cycles -> Report]
        /\ pc' = "idle" /\ order' = NoOrder /\ todo' \in SUBSET Order
        /\ reply' = "none" /\ live_fills' \in SUBSET Order
        /\ killedRunning' \in BOOLEAN
    BY <2>1, ReturnType
  <2> QED
    BY <1>1, <2>2 DEF ExecuteSkipped, TypeOK
<1>2. ASSUME NEW c \in Cycles, ExecuteAccepted(c) PROVE TypeOK'
  <2>1. PICK target \in Targets :
          /\ paper' = target
          /\ IF Deltas(c, target) = {}
             THEN Return(c, "submitted", {}, {}, FALSE)
             ELSE /\ SendNext(Deltas(c, target))
                  /\ live_fills' = {}
                  /\ UNCHANGED <<result, killedRunning>>
    BY <1>2 DEF ExecuteAccepted
  <2>2. paper' \in Book
    BY <2>1 DEF LiveBrokerAssumption, Book
  <2>3. CASE Deltas(c, target) = {}
    <3>1. Return(c, "submitted", {}, {}, FALSE)
      BY <2>1, <2>3
    <3>2. /\ result' \in [Cycles -> Report]
          /\ pc' = "idle" /\ order' = NoOrder /\ todo' \in SUBSET Order
          /\ reply' = "none" /\ live_fills' \in SUBSET Order
          /\ killedRunning' \in BOOLEAN
      BY <3>1, ReturnType
    <3> QED
      BY <1>2, <2>2, <3>2 DEF ExecuteAccepted, TypeOK
  <2>4. CASE Deltas(c, target) # {}
    <3>1. Deltas(c, target) \subseteq Order
      BY DeltasType DEF TypeOK
    <3>2. QED
      <4>1. /\ pc' = "submitting" /\ order' \in Order
            /\ todo' \in SUBSET Order /\ reply' = "pending"
            /\ live_fills' = {}
            /\ UNCHANGED <<result, killedRunning>>
        BY <2>1, <2>4, <3>1 DEF SendNext
      <4> QED
        BY <1>2, <2>2, <4>1 DEF ExecuteAccepted, TypeOK
  <2> QED
    BY <2>3, <2>4
<1>3. CASE RegisterSubmission
  <2>1. order \in Order /\ order.cycle \in Cycles
    BY <1>3 DEF RegisterSubmission, TypeOK, Order
  <2>2. CASE order \in submissions
    <3>1. Return(order.cycle, "raised", live_fills \union {order}, live_fills,
                 FALSE)
      BY <1>3, <2>2 DEF RegisterSubmission
    <3> QED
      BY <1>3, <2>1, <2>2, <3>1, ReturnType DEF RegisterSubmission, TypeOK
  <2>3. CASE order \notin submissions
    BY <1>3, <2>1, <2>3 DEF RegisterSubmission, TypeOK
  <2> QED
    BY <2>2, <2>3
<1>4. CASE EmitSubmitted
  <2>1. order \in Order /\ order.cycle \in Cycles
    BY <1>4 DEF EmitSubmitted, TypeOK, Order
  <2>2. log' \in [Event -> 0..2]
    <3>1. Submitted(order) \in Event
      BY <2>1 DEF Submitted, Event
    <3> QED
      BY <1>4, <3>1, EmitType DEF EmitSubmitted
  <2>3. CASE todo = {}
    BY <1>4, <2>1, <2>2, <2>3, ReturnType DEF EmitSubmitted, TypeOK
  <2>4. CASE todo # {}
    BY <1>4, <2>1, <2>2, <2>4 DEF EmitSubmitted, SendNext, TypeOK
  <2> QED
    BY <2>3, <2>4
<1>5. CASE SubmitFails
  <2>1. order \in Order /\ order.cycle \in Cycles
    BY <1>5 DEF SubmitFails, RequestFails, TypeOK, Order
  <2>2. late' \in SUBSET Order
    BY <1>5, <2>1 DEF SubmitFails, TypeOK
  <2>3. CASE RollbackNeeded
    BY <1>5, <2>1, <2>2, <2>3 DEF SubmitFails, TypeOK
  <2>4. CASE ~RollbackNeeded
    <3>1. Return(order.cycle, "rejected", live_fills \union {order},
                 live_fills, FALSE)
      BY <1>5, <2>4 DEF SubmitFails
    <3> QED
      BY <1>5, <2>1, <2>2, <3>1, ReturnType DEF SubmitFails, TypeOK
  <2> QED
    BY <2>3, <2>4
<1>6. CASE CancelReturns
  <2>1. order \in Order /\ order.cycle \in Cycles
    BY <1>6 DEF CancelReturns, TypeOK, Order
  <2> QED
    BY <1>6, <2>1, ReturnType DEF CancelReturns, TypeOK
<1>7. CASE CancelFails
  <2>1. order \in Order /\ order.cycle \in Cycles
    BY <1>7 DEF CancelFails, TypeOK, Order
  <2> QED
    BY <1>7, <2>1, ReturnType DEF CancelFails, TypeOK
<1>8. CASE KillSwitch
  <2>1. killedRunning' \in BOOLEAN
    BY <1>8, Zenon DEF KillSwitch, Engage, TypeOK
  <2> QED
    BY <1>8, <2>1 DEF KillSwitch, Engage, TypeOK
<1>9. CASE ReenableAfterHumanApproval
  <2>1. overridden' = (loss > Cap)
    BY <1>9 DEF ReenableAfterHumanApproval
  <2>2. (loss > Cap) \in BOOLEAN
    BY SMT DEF TypeOK, LiveBrokerAssumption
  <2>3. overridden' \in BOOLEAN
    BY ONLY <2>1, <2>2, Zenon
  <2> QED
    BY <1>9, <2>3 DEF ReenableAfterHumanApproval, TypeOK
<1>10. CASE EnableLiveOrdersAfterHumanApproval
  BY <1>10 DEF EnableLiveOrdersAfterHumanApproval, TypeOK
<1>11. CASE RecordRealizedLoss
  <2>1. killedRunning' \in BOOLEAN /\ killed' \in BOOLEAN
    BY <1>11, Zenon DEF RecordRealizedLoss, Engage, TypeOK
  <2>2. loss' \in Nat
    BY <1>11 DEF RecordRealizedLoss, Amounts, TypeOK, LiveBrokerAssumption
  <2> QED
    BY <1>11, <2>1, <2>2 DEF RecordRealizedLoss, TypeOK
<1>12. CASE ResetDay
  BY <1>12 DEF ResetDay, TypeOK
<1>13. CASE VenueAnswers
  BY <1>13 DEF VenueAnswers, TypeOK
<1>14. CASE VenueAcceptsLate
  BY <1>14 DEF VenueAcceptsLate, TypeOK
<1>15. CASE VenueFills
  <2>1. PICK o \in Order, i \in FillIds :
          /\ executed' = executed \union {<<o, i>>}
          /\ updates' = updates \union {[kind |-> "fill", order |-> o, id |-> i]}
          /\ \E status \in {"open", "filled"} :
               venue' = [venue EXCEPT ![o] = status]
    BY <1>15 DEF VenueFills
  <2>2. [kind |-> "fill", order |-> o, id |-> i] \in Update
    BY DEF Update, FillUpdate
  <2>3. venue' \in [Order -> {"none", "open", "filled", "cancelled"}]
    BY <2>1 DEF TypeOK
  <2>4. executed' \in SUBSET (Order \X FillIds) /\ updates' \in SUBSET Update
    BY <2>1, <2>2 DEF TypeOK
  <2> QED
    BY <1>15, <2>3, <2>4 DEF VenueFills, TypeOK
<1>16. CASE VenueCancels
  <2>1. PICK o \in Order :
          /\ updates' = updates \union Messages("canceled", {o})
          /\ venue' = [venue EXCEPT ![o] = "cancelled"]
    BY <1>16 DEF VenueCancels
  <2>2. Messages("canceled", {o}) \subseteq Update
    BY DEF Messages, Update, CancelUpdate
  <2> QED
    BY <1>16, <2>1, <2>2 DEF VenueCancels, TypeOK
<1>17. CASE VenueCancelsAll
  <2>1. Messages("canceled", {o \in Order : venue[o] = "open"}) \subseteq Update
    BY DEF Messages, Update, CancelUpdate
  <2> QED
    BY <1>17, <2>1 DEF VenueCancelsAll, TypeOK
<1>18. CASE RecordUpdate
  <2>1. PICK u \in updates :
          /\ updates' \subseteq updates
          /\ recorded' = u
          /\ IF u.kind = "fill"
             THEN /\ fills' = fills \union {<<u.order, u.id>>}
                  /\ UNCHANGED cancellations
             ELSE /\ cancellations' = cancellations \union {u.order}
                  /\ UNCHANGED fills
    BY <1>18 DEF RecordUpdate
  <2>2. /\ u \in Update /\ u.order \in Order
        /\ u.kind = "fill" => u.id \in FillIds
    BY <2>1 DEF TypeOK, Update, FillUpdate, CancelUpdate
  <2>3. fills' \in SUBSET (Order \X FillIds) /\ cancellations' \in SUBSET Order
    BY <2>1, <2>2 DEF TypeOK
  <2> QED
    BY <1>18, <2>1, <2>2, <2>3 DEF RecordUpdate, TypeOK
<1>19. CASE EmitUpdate
  <2>1. recorded \in Update
    BY <1>19 DEF EmitUpdate, TypeOK
  <2>2. EventOf(recorded) \in Event
    BY <2>1 DEF EventOf, Filled, Cancelled, Event, Update, FillUpdate, CancelUpdate
  <2> QED
    BY <1>19, <2>2, EmitType DEF EmitUpdate, TypeOK
<1>20. CASE DropUpdate
  BY <1>20 DEF DropUpdate, TypeOK
<1>21. CASE Crash
  <2>1. EmptyBook \in Book
    BY DEF EmptyBook, Book, LiveBrokerAssumption
  <2>2. late' \in SUBSET Order
    BY <1>21 DEF Crash, TypeOK
  <2>3. /\ pc' = "idle" /\ order' = NoOrder /\ todo' = {}
        /\ reply' = "none" /\ live_fills' = {} /\ recorded' = NoUpdate
        /\ killed' = FALSE /\ enabled' = FALSE /\ loss' = 0
        /\ killedRunning' = FALSE /\ overridden' = FALSE
        /\ paper' \in Book /\ crashes' \in Nat
    BY <1>21, <2>1 DEF Crash, TypeOK
  <2>4. UNCHANGED <<journalVars, log, venue, executed, updates, result, execs>>
    BY <1>21 DEF Crash
  <2> QED
    BY <2>2, <2>3, <2>4 DEF TypeOK
<1>22. CASE UNCHANGED vars
  BY <1>22 DEF vars, TypeOK
<1> QED
  BY <1>1, <1>2, <1>3, <1>4, <1>5, <1>6, <1>7, <1>8, <1>9, <1>10, <1>11, <1>12,
     <1>13, <1>14, <1>15, <1>16, <1>17, <1>18, <1>19, <1>20, <1>21, <1>22
     DEF Next, Broker, Operator, Venue, Stream

(* The types of LiveBroker's state are kept by every step of the broker,   *)
(* the operator, the venue and the stream.                                 *)
THEOREM TypeCorrect == Spec => []TypeOK
<1>1. Init => TypeOK
  BY TypeInit, LiveBrokerAssumption
<1>2. TypeOK /\ [Next]_vars => TypeOK'
  BY TypeNext, LiveBrokerAssumption
<1> QED
  BY <1>1, <1>2, PTL DEF Spec

-----------------------------------------------------------------------------
(* The inductive invariant behind the safety properties. *)

(* Where execute stands: an accepted order the journal does not hold yet,  *)
(* a journal row not logged yet, a batch the venue has just cancelled.     *)
BatchInv ==
  /\ live_fills \subseteq submissions
  /\ pc = "submitting" /\ reply = "ok"
       => order \notin submissions /\ venue[order] # "none"
  /\ pc = "journaled" => order \in submissions /\ log[Submitted(order)] = 0
  /\ pc = "cancelling" /\ reply = "ok" => \A o \in live_fills : venue[o] # "open"

(* What is on the wire has happened at the venue. *)
UpdatesInv ==
  \A u \in updates :
    /\ u.kind = "fill" => <<u.order, u.id>> \in executed
    /\ u.kind # "fill" => venue[u.order] = "cancelled"

(* The update between its journal row and its event. *)
RecordedInv ==
  recorded # NoUpdate =>
    /\ recorded.kind = "fill" => <<recorded.order, recorded.id>> \in fills
    /\ recorded.kind # "fill" => recorded.order \in cancellations
    /\ log[EventOf(recorded)] = 0

ResultInv ==
  \A c \in Cycles :
    /\ result[c].status # "raised"
    /\ result[c].status = "rejected" /\ ~result[c].alarm
         => \A o \in result[c].batch : venue[o] \notin {"none", "open"}

Safe ==
  /\ AuditTrail
  /\ OneEventPerUpdate
  /\ BatchInv
  /\ UpdatesInv
  /\ RecordedInv
  /\ ResultInv

(* The state Safe speaks about; the rest of the state cannot disturb it. *)
safeVars == <<pc, order, reply, live_fills, recorded, journalVars, log, venue,
              executed, updates, result>>

(* Safe reads only safeVars, so a step that leaves them alone keeps it. *)
LEMMA SafeUnchanged == ASSUME Safe, UNCHANGED safeVars PROVE Safe'
BY DEF Safe, AuditTrail, OneEventPerUpdate, BatchInv, UpdatesInv, RecordedInv,
       ResultInv, safeVars

(* Events of different kinds, or of different orders, are different. *)
LEMMA EventsDiffer ==
  /\ \A o, p : Submitted(o) = Submitted(p) => o = p
  /\ \A o, p : Cancelled(o) = Cancelled(p) => o = p
  /\ \A o, p, i, j : Filled(o, i) = Filled(p, j) => o = p /\ i = j
  /\ \A o, p : Submitted(o) # Cancelled(p)
  /\ \A o, p, j : Submitted(o) # Filled(p, j) /\ Cancelled(o) # Filled(p, j)
BY DEF Submitted, Cancelled, Filled

(* Whatever the broker and the stream append is an event the log counts. *)
LEMMA EventsInEvent ==
  /\ \A o \in Order : Submitted(o) \in Event /\ Cancelled(o) \in Event
  /\ \A o \in Order, i \in FillIds : Filled(o, i) \in Event
  /\ \A u \in Update : EventOf(u) \in Event
BY DEF Submitted, Cancelled, Filled, EventOf, Event, Update, FillUpdate,
       CancelUpdate

(* Appending an event that was never logged leaves it logged once. *)
LEMMA EmitOnce ==
  ASSUME TypeOK, NEW e \in Event, log[e] = 0, Emit(e)
  PROVE  log'[e] = 1 /\ \A f \in Event \ {e} : log'[f] = log[f]
BY DEF TypeOK, Emit, Once

(* Returning settles the batch, and the report is as good as its claim. *)
LEMMA ReturnSafe ==
  ASSUME TypeOK, ResultInv, NEW c \in Cycles, NEW status, NEW asked, NEW batch,
         NEW alarm, Return(c, status, asked, batch, alarm), UNCHANGED venue,
         status # "raised",
         status = "rejected" /\ ~alarm
           => \A o \in batch : venue[o] \notin {"none", "open"}
  PROVE  BatchInv' /\ ResultInv'
<1>1. pc' = "idle" /\ live_fills' = {}
  BY DEF Return
<1>2. BatchInv'
  BY <1>1 DEF BatchInv
<1>3. ASSUME NEW d \in Cycles, d # c PROVE result'[d] = result[d]
  BY <1>3 DEF Return, TypeOK
<1>4. result'[c] = [status |-> status, asked |-> asked, batch |-> batch,
                    alarm |-> alarm]
  BY DEF Return, TypeOK
<1>5. ResultInv'
  BY <1>3, <1>4 DEF ResultInv
<1> QED
  BY <1>2, <1>5

(* Nothing was sent, recorded or logged when the process starts. *)
LEMMA SafeInit == Init => Safe
<1> SUFFICES ASSUME Init PROVE Safe
  OBVIOUS
<1>1. \A e \in Event : log[e] = 0
  BY DEF Init
<1>2. AuditTrail /\ OneEventPerUpdate
  BY <1>1, EventsInEvent DEF Init, AuditTrail, OneEventPerUpdate
<1>3. BatchInv /\ UpdatesInv /\ RecordedInv
  BY DEF Init, BatchInv, UpdatesInv, RecordedInv
<1>4. ResultInv
  BY DEF Init, ResultInv
<1> QED
  BY <1>2, <1>3, <1>4 DEF Safe

(* The steps of execute. *)
LEMMA SafeBroker ==
  ASSUME TypeOK, TypeOK', Safe,
         Broker \/ \E c \in Cycles : ExecuteSkipped(c) \/ ExecuteAccepted(c)
  PROVE  Safe'
<1> USE DEF Safe
<1>0. pc # "idle" => order \in Order /\ order.cycle \in Cycles
  BY DEF TypeOK, Order
<1>1. ASSUME NEW c \in Cycles, ExecuteSkipped(c) PROVE Safe'
  <2>1. BatchInv' /\ ResultInv'
    BY <1>1, ReturnSafe DEF ExecuteSkipped
  <2> QED
    BY <1>1, <2>1
       DEF ExecuteSkipped, AuditTrail, OneEventPerUpdate, UpdatesInv, RecordedInv
<1>2. ASSUME NEW c \in Cycles, ExecuteAccepted(c) PROVE Safe'
  <2>1. PICK target \in Targets :
          IF Deltas(c, target) = {}
          THEN Return(c, "submitted", {}, {}, FALSE)
          ELSE /\ SendNext(Deltas(c, target))
               /\ live_fills' = {}
               /\ UNCHANGED <<result, killedRunning>>
    BY <1>2 DEF ExecuteAccepted
  <2>2. UNCHANGED <<recorded, journalVars, log, venueVars>>
    BY <1>2 DEF ExecuteAccepted
  <2>3. BatchInv' /\ ResultInv'
    <3>1. CASE Deltas(c, target) = {}
      BY <2>1, <2>2, <3>1, ReturnSafe
    <3>2. CASE Deltas(c, target) # {}
      BY <2>1, <2>2, <3>2 DEF SendNext, BatchInv, ResultInv
    <3> QED
      BY <3>1, <3>2
  <2> QED
    BY <2>2, <2>3 DEF AuditTrail, OneEventPerUpdate, UpdatesInv, RecordedInv
<1>3. CASE RegisterSubmission
  <2>1. order \in Order /\ order \notin submissions /\ venue[order] # "none"
    BY <1>0, <1>3 DEF RegisterSubmission, Accepted, BatchInv
  <2>2. /\ submissions' = submissions \union {order}
        /\ pc' = "journaled"
        /\ UNCHANGED <<order, reply, live_fills, recorded, fills, cancellations,
                       log, venue, executed, updates, result>>
    BY <1>3, <2>1 DEF RegisterSubmission
  <2>3. AuditTrail'
    BY <2>1, <2>2 DEF AuditTrail
  <2>4. BatchInv'
    <3>1. log[Submitted(order)] = 0
      BY <2>1, EventsInEvent DEF AuditTrail, TypeOK
    <3> QED
      BY <2>2, <3>1 DEF BatchInv
  <2> QED
    BY <2>2, <2>3, <2>4
       DEF OneEventPerUpdate, UpdatesInv, RecordedInv, ResultInv
<1>4. CASE EmitSubmitted
  <2>1. /\ order \in Order /\ order \in submissions
        /\ log[Submitted(order)] = 0
    BY <1>0, <1>4 DEF EmitSubmitted, BatchInv
  <2>2. /\ log'[Submitted(order)] = 1
        /\ \A f \in Event \ {Submitted(order)} : log'[f] = log[f]
    BY <1>4, <2>1, EmitOnce, EventsInEvent DEF EmitSubmitted
  <2>3. UNCHANGED <<recorded, journalVars, venue, executed, updates>>
    BY <1>4 DEF EmitSubmitted
  <2>4. AuditTrail'
    BY <2>1, <2>2, <2>3, EventsDiffer, EventsInEvent DEF AuditTrail
  <2>5. OneEventPerUpdate'
    BY <2>2 DEF OneEventPerUpdate
  <2>6. UpdatesInv' /\ RecordedInv'
    <3>1. recorded # NoUpdate => EventOf(recorded) # Submitted(order)
      BY EventsDiffer DEF EventOf
    <3> QED
      BY <2>2, <2>3, <3>1, EventsInEvent DEF UpdatesInv, RecordedInv, TypeOK
  <2>7. BatchInv' /\ ResultInv'
    <3>1. CASE todo = {}
      BY <1>0, <1>4, <2>3, <3>1, ReturnSafe DEF EmitSubmitted
    <3>2. CASE todo # {}
      BY <1>4, <2>1, <2>3, <3>2
         DEF EmitSubmitted, SendNext, BatchInv, ResultInv
    <3> QED
      BY <3>1, <3>2
  <2> QED
    BY <2>4, <2>5, <2>6, <2>7
<1>5. CASE SubmitFails
  <2>1. UNCHANGED <<recorded, journalVars, log, venue, executed, updates>>
    BY <1>5 DEF SubmitFails
  <2>2. BatchInv' /\ ResultInv'
    <3>1. CASE RollbackNeeded
      BY <1>5, <2>1, <3>1 DEF SubmitFails, BatchInv, ResultInv
    <3>2. CASE ~RollbackNeeded
      <4>1. Return(order.cycle, "rejected", live_fills \union {order},
                   live_fills, FALSE)
        BY <1>5, <3>2 DEF SubmitFails
      <4>2. live_fills = {} /\ order.cycle \in Cycles
        BY <1>0, <1>5, <3>2 DEF SubmitFails, RequestFails, RollbackNeeded
      <4> QED
        BY <2>1, <4>1, <4>2, ReturnSafe
    <3> QED
      BY <3>1, <3>2
  <2> QED
    BY <2>1, <2>2 DEF AuditTrail, OneEventPerUpdate, UpdatesInv, RecordedInv
<1>6. CASE CancelReturns
  <2>1. UNCHANGED <<recorded, journalVars, log, venue, executed, updates>>
    BY <1>6 DEF CancelReturns
  <2>2. \A o \in live_fills : venue[o] \notin {"none", "open"}
    BY <1>6 DEF CancelReturns, BatchInv, AuditTrail, TypeOK
  <2>3. BatchInv' /\ ResultInv'
    BY <1>0, <1>6, <2>1, <2>2, ReturnSafe DEF CancelReturns
  <2> QED
    BY <2>1, <2>3 DEF AuditTrail, OneEventPerUpdate, UpdatesInv, RecordedInv
<1>7. CASE CancelFails
  <2>1. UNCHANGED <<recorded, journalVars, log, venue, executed, updates>>
    BY <1>7 DEF CancelFails
  <2>2. BatchInv' /\ ResultInv'
    BY <1>0, <1>7, <2>1, ReturnSafe DEF CancelFails
  <2> QED
    BY <2>1, <2>2 DEF AuditTrail, OneEventPerUpdate, UpdatesInv, RecordedInv
<1> QED
  BY <1>1, <1>2, <1>3, <1>4, <1>5, <1>6, <1>7 DEF Broker

(* The venue never takes back an acceptance nor reopens an order. *)
VenueProgress ==
  \A o \in Order :
    /\ venue[o] # "none" => venue'[o] # "none"
    /\ venue[o] \in {"filled", "cancelled"} => venue'[o] = venue[o]

(* What a step of the venue keeps if it makes progress and reports only    *)
(* what it did.                                                            *)
LEMMA VenueSafe ==
  ASSUME TypeOK, TypeOK', Safe, VenueProgress, executed \subseteq executed',
         UNCHANGED <<pc, order, live_fills, recorded, journalVars, log, result>>,
         reply' # reply => BatchInv',
         \A u \in updates' \ updates :
           /\ u.kind = "fill" => <<u.order, u.id>> \in executed'
           /\ u.kind # "fill" => venue'[u.order] = "cancelled"
  PROVE  Safe'
<1> USE DEF Safe, VenueProgress
<1>1. AuditTrail'
  BY DEF AuditTrail
<1>2. BatchInv'
  <2>1. CASE reply' = reply
    <3>1. pc = "submitting" => order \in Order
      BY DEF TypeOK
    <3>2. \A o \in live_fills :
            o \in Order /\ (venue[o] # "open" => venue'[o] # "open")
      BY DEF TypeOK, BatchInv, AuditTrail
    <3> QED
      BY <2>1, <3>1, <3>2 DEF BatchInv
  <2> QED
    BY <2>1
<1>3. UpdatesInv'
  BY DEF UpdatesInv, TypeOK, Update, FillUpdate, CancelUpdate
<1>4. ResultInv'
  BY DEF ResultInv, TypeOK, Report
<1> QED
  BY <1>1, <1>2, <1>3, <1>4 DEF OneEventPerUpdate, RecordedInv

(* The steps of the venue. *)
LEMMA SafeVenue == ASSUME TypeOK, TypeOK', Safe, Venue PROVE Safe'
<1>1. CASE VenueAnswers
  <2>1. order \in Order
    BY <1>1 DEF VenueAnswers, TypeOK
  <2>2. VenueProgress
    BY <1>1, <2>1 DEF VenueAnswers, VenueProgress, TypeOK
  <2>3. BatchInv'
    <3>1. CASE /\ venue[order] = "none"
               /\ venue' = [venue EXCEPT ![order] = "open"]
               /\ reply' = "ok"
      <4>1. order \notin submissions
        BY <2>1, <3>1 DEF Safe, AuditTrail
      <4> QED
        BY <1>1, <2>1, <3>1, <4>1 DEF VenueAnswers, Safe, BatchInv, TypeOK
    <3>2. CASE reply' = "refused" /\ UNCHANGED venue
      BY <1>1, <3>2 DEF VenueAnswers, Safe, BatchInv
    <3> QED
      BY <1>1, <3>1, <3>2 DEF VenueAnswers
  <2> QED
    BY <1>1, <2>2, <2>3, VenueSafe DEF VenueAnswers
<1>2. CASE VenueAcceptsLate
  <2>1. VenueProgress
    BY <1>2 DEF VenueAcceptsLate, VenueProgress, TypeOK
  <2> QED
    BY <1>2, <2>1, VenueSafe DEF VenueAcceptsLate
<1>3. CASE VenueFills
  <2>1. PICK o \in Order, i \in FillIds :
          /\ venue[o] = "open"
          /\ executed' = executed \union {<<o, i>>}
          /\ updates' = updates \union {[kind |-> "fill", order |-> o, id |-> i]}
          /\ \E status \in {"open", "filled"} :
               venue' = [venue EXCEPT ![o] = status]
    BY <1>3 DEF VenueFills
  <2>2. VenueProgress
    BY <2>1 DEF VenueProgress, TypeOK
  <2> QED
    BY <1>3, <2>1, <2>2, VenueSafe DEF VenueFills
<1>4. CASE VenueCancels
  <2>1. PICK o \in Order :
          /\ venue[o] = "open"
          /\ venue' = [venue EXCEPT ![o] = "cancelled"]
          /\ updates' = updates \union Messages("canceled", {o})
    BY <1>4 DEF VenueCancels
  <2>2. VenueProgress
    BY <2>1 DEF VenueProgress, TypeOK
  <2>3. \A u \in updates' \ updates :
          u.kind # "fill" /\ venue'[u.order] = "cancelled"
    BY <2>1 DEF Messages, TypeOK
  <2> QED
    BY <1>4, <2>2, <2>3, VenueSafe DEF VenueCancels
<1>5. CASE VenueCancelsAll
  <2> DEFINE open == {o \in Order : venue[o] = "open"}
  <2>1. /\ venue' = [o \in Order |-> IF o \in open THEN "cancelled" ELSE venue[o]]
        /\ updates' = updates \union Messages("canceled", open)
    BY <1>5 DEF VenueCancelsAll
  <2>2. VenueProgress
    BY <2>1 DEF VenueProgress
  <2>3. \A u \in updates' \ updates :
          u.kind # "fill" /\ venue'[u.order] = "cancelled"
    BY <2>1 DEF Messages
  <2>4. BatchInv'
    <3>1. \A o \in live_fills : venue'[o] # "open"
      BY <2>1 DEF TypeOK
    <3> QED
      BY <1>5, <3>1 DEF VenueCancelsAll, Safe, BatchInv
  <2> QED
    BY <1>5, <2>2, <2>3, <2>4, VenueSafe DEF VenueCancelsAll
<1> QED
  BY <1>1, <1>2, <1>3, <1>4, <1>5 DEF Venue

(* The steps of alpaca_stream.consume, and the loss of an update. *)
LEMMA SafeStream == ASSUME TypeOK, TypeOK', Safe, Stream PROVE Safe'
<1> USE DEF Safe
<1>1. CASE RecordUpdate
  <2>1. PICK u \in updates :
          /\ Attributed(u) /\ ~IsDuplicate(u)
          /\ updates' \subseteq updates
          /\ recorded' = u
          /\ IF u.kind = "fill"
             THEN /\ fills' = fills \union {<<u.order, u.id>>}
                  /\ UNCHANGED cancellations
             ELSE /\ cancellations' = cancellations \union {u.order}
                  /\ UNCHANGED fills
    BY <1>1 DEF RecordUpdate
  <2>2. /\ u \in Update /\ u.order \in Order
        /\ u.kind = "fill" => u.id \in FillIds
    BY <2>1 DEF TypeOK, Update, FillUpdate, CancelUpdate
  <2>3. UNCHANGED <<pc, order, reply, live_fills, submissions, log, venue,
                    executed, result>>
    BY <1>1 DEF RecordUpdate
  <2>4. /\ u.order \in submissions
        /\ u.kind = "fill" => <<u.order, u.id>> \in executed
        /\ u.kind # "fill" => venue[u.order] = "cancelled"
    BY <2>1 DEF Attributed, UpdatesInv
  <2>5. AuditTrail'
    BY <2>1, <2>2, <2>3, <2>4 DEF AuditTrail
  <2>6. log[EventOf(u)] = 0
    <3>1. log[EventOf(u)] \in 0..2
      BY <2>2, EventsInEvent DEF TypeOK
    <3> QED
      BY <2>1, <2>2, <3>1 DEF IsDuplicate, EventOf, AuditTrail
  <2>7. RecordedInv'
    BY <2>1, <2>3, <2>6 DEF RecordedInv
  <2> QED
    BY <2>1, <2>3, <2>5, <2>7
       DEF OneEventPerUpdate, BatchInv, UpdatesInv, ResultInv
<1>2. CASE EmitUpdate
  <2>1. recorded \in Update /\ log[EventOf(recorded)] = 0
    BY <1>2 DEF EmitUpdate, RecordedInv, TypeOK
  <2>2. /\ log'[EventOf(recorded)] = 1
        /\ \A f \in Event \ {EventOf(recorded)} : log'[f] = log[f]
    BY <1>2, <2>1, EmitOnce, EventsInEvent DEF EmitUpdate
  <2>3. UNCHANGED <<execVars, journalVars, venueVars, result>>
    BY <1>2 DEF EmitUpdate
  <2>4. \A o : Submitted(o) # EventOf(recorded)
    BY EventsDiffer DEF EventOf
  <2>5. AuditTrail'
    <3>1. ASSUME NEW o \in Order
          PROVE  /\ log'[Submitted(o)] > 0 => o \in submissions
                 /\ log'[Cancelled(o)] > 0 => o \in cancellations
      <4>1. log'[Submitted(o)] = log[Submitted(o)]
        BY <2>2, <2>4, EventsInEvent
      <4>2. CASE Cancelled(o) = EventOf(recorded)
        BY <1>2, <4>1, <4>2, EventsDiffer
           DEF EmitUpdate, RecordedInv, EventOf, AuditTrail
      <4>3. CASE Cancelled(o) # EventOf(recorded)
        BY <2>2, <4>1, <4>3, EventsInEvent DEF AuditTrail
      <4> QED
        BY <4>2, <4>3
    <3>2. ASSUME NEW o \in Order, NEW i \in FillIds, log'[Filled(o, i)] > 0
          PROVE  <<o, i>> \in fills
      <4>1. CASE Filled(o, i) = EventOf(recorded)
        BY <1>2, <4>1, EventsDiffer DEF EmitUpdate, RecordedInv, EventOf
      <4>2. CASE Filled(o, i) # EventOf(recorded)
        BY <2>2, <3>2, <4>2, EventsInEvent DEF AuditTrail
      <4> QED
        BY <4>1, <4>2
    <3> QED
      BY <2>3, <3>1, <3>2 DEF AuditTrail
  <2>6. OneEventPerUpdate'
    BY <2>2 DEF OneEventPerUpdate
  <2>7. BatchInv'
    <3>1. pc = "journaled" => log'[Submitted(order)] = log[Submitted(order)]
      BY <2>2, <2>4, EventsInEvent DEF TypeOK
    <3> QED
      BY <2>3, <3>1 DEF BatchInv
  <2> QED
    BY <1>2, <2>3, <2>5, <2>6, <2>7
       DEF EmitUpdate, UpdatesInv, RecordedInv, ResultInv
<1>3. CASE DropUpdate
  BY <1>3 DEF DropUpdate, AuditTrail, OneEventPerUpdate, BatchInv, UpdatesInv,
              RecordedInv, ResultInv
<1> QED
  BY <1>1, <1>2, <1>3 DEF Stream

(* Every step: the operator touches none of Safe's state, and a crash only *)
(* forgets what was in memory.                                             *)
LEMMA SafeNext == ASSUME TypeOK, TypeOK', Safe, [Next]_vars PROVE Safe'
<1>1. CASE Operator
  <2>1. UNCHANGED safeVars
    BY <1>1 DEF Operator, KillSwitch, ReenableAfterHumanApproval,
                EnableLiveOrdersAfterHumanApproval, RecordRealizedLoss,
                ResetDay, safeVars
  <2> QED
    BY <2>1, SafeUnchanged
<1>2. CASE Crash
  BY <1>2 DEF Crash, Safe, AuditTrail, OneEventPerUpdate, BatchInv, UpdatesInv,
              RecordedInv, ResultInv
<1>3. CASE UNCHANGED vars
  <2>1. UNCHANGED safeVars
    BY <1>3 DEF vars, safeVars
  <2> QED
    BY <2>1, SafeUnchanged
<1> QED
  BY <1>1, <1>2, <1>3, SafeBroker, SafeVenue, SafeStream DEF Next

(* The inductive invariant of the order life cycle: journal, log, venue    *)
(* and the running batch agree at every moment.                            *)
THEOREM SafetyInvariant == Spec => []Safe
<1>1. Init => Safe
  BY SafeInit
<1>2. TypeOK /\ TypeOK' /\ Safe /\ [Next]_vars => Safe'
  BY SafeNext
<1> QED
  BY <1>1, <1>2, TypeCorrect, PTL DEF Spec

(* Journal before log before nothing: every logged submission, fill and    *)
(* cancellation has its row, and every row its fact at the venue.          *)
THEOREM AuditTrailHolds == Spec => []AuditTrail
<1>1. Safe => AuditTrail
  BY DEF Safe
<1> QED
  BY <1>1, SafetyInvariant, PTL

(* No submission, fill or cancellation is logged twice. *)
THEOREM OneEventPerUpdateHolds == Spec => []OneEventPerUpdate
<1>1. Safe => OneEventPerUpdate
  BY DEF Safe
<1> QED
  BY <1>1, SafetyInvariant, PTL

(* The journal's primary key never makes execute raise. *)
THEOREM NoIntegrityErrorHolds == Spec => []NoIntegrityError
<1>1. Safe => NoIntegrityError
  BY DEF Safe, ResultInv, NoIntegrityError
<1> QED
  BY <1>1, SafetyInvariant, PTL

(* A rejected batch leaves none of its accepted orders open, or an alarm. *)
THEOREM RejectedRolledBackHolds == Spec => []RejectedRolledBack
<1>1. Safe => RejectedRolledBack
  BY DEF Safe, ResultInv, RejectedRolledBack
<1> QED
  BY <1>1, SafetyInvariant, PTL

-----------------------------------------------------------------------------
(* The kill switch and the loss cap. *)

(* No execute begins under an engaged kill switch: one that runs under it  *)
(* was already running when the switch was engaged.                        *)
THEOREM KillSwitchHolds == Spec => []KillSwitchWithinOneCycle
<1> DEFINE K == KillSwitchWithinOneCycle
<1>1. Init => K
  BY DEF Init, KillSwitchWithinOneCycle
<1>2. TypeOK /\ K /\ [Next]_vars => K'
  <2> SUFFICES ASSUME TypeOK, K, [Next]_vars PROVE K'
    OBVIOUS
  <2> USE DEF KillSwitchWithinOneCycle
  <2>1. ASSUME NEW c \in Cycles, ExecuteSkipped(c) PROVE K'
    BY <2>1 DEF ExecuteSkipped, Return
  <2>2. ASSUME NEW c \in Cycles, ExecuteAccepted(c) PROVE K'
    BY <2>2 DEF ExecuteAccepted, MayTrade
  <2>3. CASE Broker
    <3>1. CASE RegisterSubmission
      BY <3>1 DEF RegisterSubmission, Return
    <3>2. CASE EmitSubmitted
      BY <3>2 DEF EmitSubmitted, Return
    <3>3. CASE SubmitFails
      BY <3>3 DEF SubmitFails, RequestFails, Return
    <3>4. CASE CancelReturns \/ CancelFails
      BY <3>4 DEF CancelReturns, CancelFails, Return
    <3> QED
      BY <2>3, <3>1, <3>2, <3>3, <3>4 DEF Broker
  <2>4. CASE Operator
    <3>1. UNCHANGED pc
      BY <2>4 DEF Operator, KillSwitch, ReenableAfterHumanApproval,
           EnableLiveOrdersAfterHumanApproval, RecordRealizedLoss, ResetDay
    <3>2. CASE Engage
      <4>1. CASE killed
        BY <3>1, <3>2, <4>1 DEF Engage
      <4>2. CASE ~killed
        BY <3>1, <3>2, <4>2, Zenon DEF Engage, TypeOK
      <4> QED
        BY <4>1, <4>2
    <3>3. CASE ~Engage
      BY <2>4, <3>1, <3>3 DEF Operator, KillSwitch, ReenableAfterHumanApproval,
           EnableLiveOrdersAfterHumanApproval, RecordRealizedLoss, ResetDay
    <3> QED
      BY <3>2, <3>3
  <2>5. CASE Venue \/ Stream \/ Crash \/ UNCHANGED vars
    BY <2>5 DEF Venue, VenueAnswers, VenueAcceptsLate, VenueFills, VenueCancels,
         VenueCancelsAll, Stream, RecordUpdate, EmitUpdate, DropUpdate, Crash,
         vars
  <2> QED
    BY <2>1, <2>2, <2>3, <2>4, <2>5 DEF Next
<1> QED
  BY <1>1, <1>2, TypeCorrect, PTL DEF Spec

(* Above the daily cap the broker is killed or a human overrode the cap. *)
THEOREM LossCapHolds == Spec => []LossCapEnforced
<1> DEFINE L == LossCapEnforced
<1>1. Init => L
  BY LiveBrokerAssumption DEF Init, LossCapEnforced, LiveBrokerAssumption
<1>2. TypeOK /\ L /\ [Next]_vars => L'
  <2> SUFFICES ASSUME TypeOK, L, [Next]_vars PROVE L'
    OBVIOUS
  <2> USE DEF LossCapEnforced
  <2>1. CASE \E c \in Cycles : ExecuteSkipped(c) \/ ExecuteAccepted(c)
    <3>1. UNCHANGED <<killed, loss, overridden>>
      BY <2>1 DEF ExecuteSkipped, ExecuteAccepted
    <3> QED
      BY <3>1
  <2>2. CASE Broker
    BY <2>2 DEF Broker, RegisterSubmission, EmitSubmitted, SubmitFails,
         CancelReturns, CancelFails
  <2>3. CASE RecordRealizedLoss
    BY <2>3 DEF RecordRealizedLoss, CapBreached, Engage
  <2>4. CASE ReenableAfterHumanApproval
    BY <2>4, Zenon DEF ReenableAfterHumanApproval
  <2>5. CASE ResetDay \/ Crash
    BY <2>5, LiveBrokerAssumption DEF ResetDay, Crash, LiveBrokerAssumption
  <2>6. CASE KillSwitch \/ EnableLiveOrdersAfterHumanApproval
    BY <2>6 DEF KillSwitch, Engage, EnableLiveOrdersAfterHumanApproval
  <2>7. CASE Venue \/ Stream \/ UNCHANGED vars
    BY <2>7 DEF Venue, VenueAnswers, VenueAcceptsLate, VenueFills, VenueCancels,
         VenueCancelsAll, Stream, RecordUpdate, EmitUpdate, DropUpdate, vars
  <2> QED
    BY <2>1, <2>2, <2>3, <2>4, <2>5, <2>6, <2>7 DEF Next, Operator
<1> QED
  BY <1>1, <1>2, TypeCorrect, PTL DEF Spec
=============================================================================
