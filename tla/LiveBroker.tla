------------------------------ MODULE LiveBroker ------------------------------
(***************************************************************************)
(* Live order execution: LiveBrokerAlpaca.execute and the two asyncio      *)
(* actors it shares a process with, the operator's controls (kill switch,  *)
(* re-enable, approval, loss accounting) and the trade-update consumer of  *)
(* alpaca_stream.consume, over the durable SQLite journal, the append-only *)
(* EventLog and the venue behind AlpacaRestClient.                         *)
(*                                                                         *)
(* The broker is one coroutine.  It runs without interruption between two  *)
(* awaits, so one action covers everything from one await to the next; the *)
(* only finer steps are those a crash can separate, a journal commit and   *)
(* the event that follows it, and no other coroutine runs between them.    *)
(***************************************************************************)
EXTENDS Integers

CONSTANTS
  Cycles,    \* cycle ids; one FeasibleAction (decision_run_id) per cycle
  Tickers,   \* symbols, as naturals so that "sorted by ticker" has a meaning
  MaxQty,    \* bound on a target quantity
  Targets,   \* the target books the cycles' actions can ask for
  FillIds,   \* execution ids the venue can give the fills of one order
  Cap,       \* live_broker_daily_loss_cap_usd
  MaxLoss,   \* bound on the realised loss reported in one day
  MaxExecs,  \* bound on the calls of execute
  MaxCrashes,\* bound on process crashes
  NoOrder, NoUpdate

ASSUME LiveBrokerAssumption ==
  /\ Tickers \subseteq Nat
  /\ MaxQty \in Nat \ {0}
  /\ Targets \subseteq [Tickers -> 0..MaxQty]
  /\ Cap \in Nat \ {0}          \* the constructor refuses a cap <= 0
  /\ MaxLoss \in Nat
  /\ MaxExecs \in Nat /\ MaxCrashes \in Nat

(* compute_idempotency_key hashes exactly these fields (decision_run_id is *)
(* unique per cycle); the signed quantity stands for side and quantity.    *)
Order == [cycle : Cycles, ticker : Tickers, qty : (-MaxQty)..MaxQty]

Book == [Tickers -> 0..MaxQty]

(* Trade updates as decode_trade_update types them; canceled and rejected  *)
(* are handled alike by consume and share one kind here.                   *)
FillUpdate   == [kind : {"fill"}, order : Order, id : FillIds]
CancelUpdate == [kind : {"canceled"}, order : Order]
Update == FillUpdate \union CancelUpdate

(* The events the properties are about.  BROKER_LIVE_REJECTED and           *)
(* BROKER_LIVE_KILL_SWITCH are only informative and are left out; `alarm`   *)
(* stands for the latter's reason rollback_failed.                         *)
Event ==
  [kind : {"SUBMITTED", "CANCELLED"}, order : Order]
  \union [kind : {"FILLED"}, order : Order, id : FillIds]

ASSUME SentinelAssumption ==
  /\ NoOrder \notin Order
  /\ NoUpdate \notin Update

VARIABLES
  \* LiveBrokerAlpaca (lost in a crash)
  killed, enabled, loss, paper,
  \* the execute coroutine: where it waits, the order it waits for, the
  \* orders still to send, the response, the orders already accepted
  pc, order, todo, reply, live_fills,
  \* alpaca_stream.consume: the update recorded and not yet emitted
  recorded,
  \* LiveBrokerJournal and EventLog (durable)
  submissions, fills, cancellations, log,
  \* the venue: orders, executions, updates on the wire, late requests
  venue, executed, updates, late,
  \* history: last report per cycle, calls of execute, crashes; whether the
  \* kill switch was engaged while the current execute was running; whether
  \* a human re-enabled the broker above the loss cap
  result, execs, crashes, killedRunning, overridden

brokerVars  == <<killed, enabled, loss, paper>>
execVars    == <<pc, order, todo, reply, live_fills>>
journalVars == <<submissions, fills, cancellations>>
venueVars   == <<venue, executed, updates, late>>
histVars    == <<killedRunning, overridden, crashes>>
vars == <<brokerVars, execVars, recorded, journalVars, log, venueVars,
          result, execs, histVars>>

Report == [status : {"none", "skipped", "rejected", "submitted", "raised"},
           asked : SUBSET Order, batch : SUBSET Order, alarm : BOOLEAN]

TypeOK ==
  /\ killed \in BOOLEAN /\ enabled \in BOOLEAN
  /\ loss \in Nat /\ paper \in Book
  /\ pc \in {"idle", "submitting", "journaled", "cancelling"}
  /\ order \in IF pc = "idle" THEN {NoOrder} ELSE Order
  /\ todo \in SUBSET Order
  /\ reply \in {"none", "pending", "ok", "refused"}
  /\ live_fills \in SUBSET Order
  /\ recorded \in Update \union {NoUpdate}
  /\ submissions \in SUBSET Order
  /\ fills \in SUBSET (Order \X FillIds)
  /\ cancellations \in SUBSET Order
  /\ log \in [Event -> 0..2]
  /\ venue \in [Order -> {"none", "open", "filled", "cancelled"}]
  /\ executed \in SUBSET (Order \X FillIds)
  /\ updates \in SUBSET Update
  /\ late \in SUBSET Order
  /\ result \in [Cycles -> Report]
  /\ execs \in Nat /\ crashes \in Nat
  /\ killedRunning \in BOOLEAN /\ overridden \in BOOLEAN

EmptyBook == [t \in Tickers |-> 0]

Init ==
  /\ killed = FALSE /\ enabled = FALSE /\ loss = 0 /\ paper = EmptyBook
  /\ pc = "idle" /\ order = NoOrder /\ todo = {} /\ reply = "none"
  /\ live_fills = {}
  /\ recorded = NoUpdate
  /\ submissions = {} /\ fills = {} /\ cancellations = {}
  /\ log = [e \in Event |-> 0]
  /\ venue = [o \in Order |-> "none"]
  /\ executed = {} /\ updates = {} /\ late = {}
  /\ result = [c \in Cycles |->
                 [status |-> "none", asked |-> {}, batch |-> {}, alarm |-> FALSE]]
  /\ execs = 0 /\ crashes = 0
  /\ killedRunning = FALSE /\ overridden = FALSE

-----------------------------------------------------------------------------
Submitted(o) == [kind |-> "SUBMITTED", order |-> o]
Filled(o, i) == [kind |-> "FILLED", order |-> o, id |-> i]
Cancelled(o) == [kind |-> "CANCELLED", order |-> o]

(* The event consume appends for an update. *)
EventOf(u) ==
  IF u.kind = "fill" THEN Filled(u.order, u.id) ELSE Cancelled(u.order)

(* The log as the number of times each event was appended, counted up to   *)
(* two: the properties tell none, one and several apart.                   *)
Once(n) == IF n < 2 THEN n + 1 ELSE n

Emit(e) == log' = [log EXCEPT ![e] = Once(@)]

(* No coroutine is between a journal commit and its event. *)
AtAwait == pc # "journaled" /\ recorded = NoUpdate

-----------------------------------------------------------------------------
(* The batch of orders of one execute. *)

(* The orders that move the paper book to `target`: one per ticker whose   *)
(* quantity changes.                                                       *)
Deltas(c, target) ==
  {[cycle |-> c, ticker |-> t, qty |-> target[t] - paper[t]] :
     t \in {s \in Tickers : target[s] # paper[s]}}

(* Sells come before buys, each sorted by ticker. *)
Before(a, b) ==
  \/ a.qty < 0 /\ b.qty > 0
  \/ a.qty * b.qty > 0 /\ a.ticker < b.ticker

(* Send the next order of a batch and wait for the venue. *)
SendNext(batch) ==
  \E o \in batch :
    /\ \A b \in batch \ {o} : Before(o, b)
    /\ order' = o
    /\ todo' = batch \ {o}
    /\ pc' = "submitting"
    /\ reply' = "pending"

(* execute returns (or raises) and the runner detaches the context. *)
Return(c, status, asked, batch, alarm) ==
  /\ result' = [result EXCEPT ![c] = [status |-> status, asked |-> asked,
                                      batch |-> batch, alarm |-> alarm]]
  /\ pc' = "idle" /\ order' = NoOrder /\ todo' = {} /\ reply' = "none"
  /\ live_fills' = {}
  /\ killedRunning' = FALSE

(* The three short-circuits: kill switch, live orders disabled, a paper    *)
(* pre-flight that does not fill (the action is no ADOPT or a price is     *)
(* missing, both inputs of the call, so this outcome is always possible).  *)
(* Nothing reaches the venue and the paper book is untouched.              *)
ExecuteSkipped(c) ==
  /\ AtAwait /\ pc = "idle" /\ execs < MaxExecs
  /\ execs' = execs + 1
  /\ Return(c, "skipped", {}, {}, FALSE)
  /\ UNCHANGED <<brokerVars, recorded, journalVars, log, venueVars, overridden,
                 crashes>>

MayTradeBug == enabled                            \* mutant: no kill check
MayTrade == ~killed /\ enabled

(* The pre-flight fills: PaperBroker has moved its book to the targets     *)
(* before the first order is sent.  A book already at the targets leaves   *)
(* nothing to submit.                                                      *)
ExecuteAccepted(c) ==
  /\ AtAwait /\ pc = "idle" /\ execs < MaxExecs
  /\ MayTrade
  /\ execs' = execs + 1
  /\ \E target \in Targets :
       /\ paper' = target
       /\ IF Deltas(c, target) = {}
          THEN Return(c, "submitted", {}, {}, FALSE)
          ELSE /\ SendNext(Deltas(c, target))
               /\ live_fills' = {}
               /\ UNCHANGED <<result, killedRunning>>
  /\ UNCHANGED <<killed, enabled, loss, recorded, journalVars, log, venueVars,
                 overridden, crashes>>

Accepted == reply = "ok"

(* The venue accepted: register_submission commits.  Registering the same  *)
(* client_order_id twice raises IntegrityError, which nothing catches.     *)
RegisterSubmission ==
  /\ AtAwait /\ pc = "submitting" /\ Accepted
  /\ IF order \in submissions
     THEN /\ Return(order.cycle, "raised", live_fills \union {order},
                    live_fills, FALSE)
          /\ UNCHANGED submissions
     ELSE /\ submissions' = submissions \union {order}
          /\ pc' = "journaled"
          /\ UNCHANGED <<order, todo, reply, live_fills, result,
                         killedRunning>>
  /\ UNCHANGED <<brokerVars, recorded, fills, cancellations, log, venueVars,
                 execs, overridden, crashes>>

(* Then the SUBMITTED event, and the loop goes on with the next order      *)
(* without looking at the kill switch again.                               *)
EmitSubmitted ==
  /\ pc = "journaled"
  /\ Emit(Submitted(order))
  /\ IF todo = {}
     THEN Return(order.cycle, "submitted", live_fills \union {order},
                 live_fills \union {order}, FALSE)
     ELSE /\ SendNext(todo)
          /\ live_fills' = live_fills \union {order}
          /\ UNCHANGED <<result, killedRunning>>
  /\ UNCHANGED <<brokerVars, recorded, journalVars, venueVars, execs,
                 overridden, crashes>>

RequestFailsBug == pc = "submitting" /\ reply # "pending"  \* mutant: no timeout
RequestFails == pc = "submitting"

RollbackNeededBug == live_fills # {} /\ reply = "refused" \* mutant: not on errors
RollbackNeeded == live_fills # {}

(* AlpacaError: the venue refused, the response did not arrive (a timeout, *)
(* a broken connection) or could not be parsed.  An unanswered request may *)
(* still reach the venue.  With orders of this batch already accepted the  *)
(* broker sends cancel_all_orders, otherwise it rejects at once.           *)
SubmitFails ==
  /\ AtAwait /\ RequestFails
  /\ late' = IF reply = "pending" THEN late \union {order} ELSE late
  /\ IF RollbackNeeded
     THEN /\ pc' = "cancelling" /\ reply' = "pending"
          /\ UNCHANGED <<order, todo, live_fills, result, killedRunning>>
     ELSE Return(order.cycle, "rejected", live_fills \union {order},
                 live_fills, FALSE)
  /\ UNCHANGED <<brokerVars, recorded, journalVars, log, venue, executed,
                 updates, execs, overridden, crashes>>

(* cancel_all_orders answered 2xx: REJECTED. *)
CancelReturns ==
  /\ AtAwait /\ pc = "cancelling" /\ reply = "ok"
  /\ Return(order.cycle, "rejected", live_fills \union {order}, live_fills,
            FALSE)
  /\ UNCHANGED <<brokerVars, recorded, journalVars, log, venueVars, execs,
                 overridden, crashes>>

(* cancel_all_orders failed, or its answer was lost: the kill switch is    *)
(* engaged with reason rollback_failed.                                    *)
CancelFails ==
  /\ AtAwait /\ pc = "cancelling"
  /\ killed' = TRUE
  /\ Return(order.cycle, "rejected", live_fills \union {order}, live_fills,
            TRUE)
  /\ UNCHANGED <<enabled, loss, paper, recorded, journalVars, log, venueVars,
                 execs, overridden, crashes>>

-----------------------------------------------------------------------------
(* The operator. *)

(* Remember whether an execute was already running at this moment. *)
Engage ==
  /\ killed' = TRUE
  /\ killedRunning' = IF killed THEN killedRunning ELSE pc # "idle"

KillSwitch ==
  /\ AtAwait
  /\ Engage
  /\ UNCHANGED <<enabled, loss, paper, execVars, recorded, journalVars, log,
                 venueVars, result, execs, overridden, crashes>>

ReenableAfterHumanApproval ==
  /\ AtAwait
  /\ killed' = FALSE /\ killedRunning' = FALSE
  /\ overridden' = (loss > Cap)
  /\ UNCHANGED <<enabled, loss, paper, execVars, recorded, journalVars, log,
                 venueVars, result, execs, crashes>>

EnableLiveOrdersAfterHumanApproval ==
  /\ AtAwait
  /\ enabled' = TRUE
  /\ UNCHANGED <<killed, loss, paper, execVars, recorded, journalVars, log,
                 venueVars, result, execs, histVars>>

Amounts == 1..MaxLoss

CapBreachedBug(amount) == loss > Cap              \* mutant: before the addition
CapBreached(amount) == loss + amount > Cap

(* Add to the day's loss; above the cap the switch is engaged. *)
RecordRealizedLoss ==
  \E amount \in Amounts :
    /\ AtAwait
    /\ loss + amount <= MaxLoss
    /\ loss' = loss + amount
    /\ IF CapBreached(amount) /\ ~killed
       THEN Engage
       ELSE UNCHANGED <<killed, killedRunning>>
    /\ overridden' = FALSE
    /\ UNCHANGED <<enabled, paper, execVars, recorded, journalVars, log,
                   venueVars, result, execs, crashes>>

ResetDay ==
  /\ AtAwait
  /\ loss' = 0
  /\ overridden' = FALSE
  /\ UNCHANGED <<killed, enabled, paper, execVars, recorded, journalVars, log,
                 venueVars, result, execs, killedRunning, crashes>>

-----------------------------------------------------------------------------
(* The venue.  It refuses a client_order_id it has already accepted.       *)

Messages(kind, orders) == {[kind |-> kind, order |-> o] : o \in orders}

VenueAnswers ==
  /\ pc = "submitting" /\ reply = "pending"
  /\ \/ /\ venue[order] = "none"
        /\ venue' = [venue EXCEPT ![order] = "open"]
        /\ reply' = "ok"
     \/ /\ reply' = "refused"
        /\ UNCHANGED venue
  /\ UNCHANGED <<brokerVars, pc, order, todo, live_fills, recorded, journalVars,
                 log, executed, updates, late, result, execs, histVars>>

VenueAcceptsLate ==
  \E o \in late :
    /\ late' = late \ {o}
    /\ venue' = [venue EXCEPT ![o] = IF @ = "none" THEN "open" ELSE @]
    /\ UNCHANGED <<brokerVars, execVars, recorded, journalVars, log, executed,
                   updates, result, execs, histVars>>

(* One execution of an open order, complete or partial. *)
VenueFills ==
  \E o \in Order, i \in FillIds :
    /\ venue[o] = "open" /\ <<o, i>> \notin executed
    /\ executed' = executed \union {<<o, i>>}
    /\ updates' = updates \union {[kind |-> "fill", order |-> o, id |-> i]}
    /\ \E status \in {"open", "filled"} :
         /\ status = "open" => \E j \in FillIds \ {i} : <<o, j>> \notin executed
         /\ venue' = [venue EXCEPT ![o] = status]
    /\ UNCHANGED <<brokerVars, execVars, recorded, journalVars, log, late,
                   result, execs, histVars>>

(* The venue ends an open order by itself (canceled or rejected). *)
VenueCancels ==
  \E o \in Order :
    /\ venue[o] = "open"
    /\ venue' = [venue EXCEPT ![o] = "cancelled"]
    /\ updates' = updates \union Messages("canceled", {o})
    /\ UNCHANGED <<brokerVars, execVars, recorded, journalVars, log, executed,
                   late, result, execs, histVars>>

(* DELETE /v2/orders: every open order of the account, whatever its cycle. *)
VenueCancelsAll ==
  LET open == {o \in Order : venue[o] = "open"} IN
  /\ pc = "cancelling" /\ reply = "pending"
  /\ reply' = "ok"
  /\ venue' = [o \in Order |-> IF o \in open THEN "cancelled" ELSE venue[o]]
  /\ updates' = updates \union Messages("canceled", open)
  /\ UNCHANGED <<brokerVars, pc, order, todo, live_fills, recorded, journalVars,
                 log, executed, late, result, execs, histVars>>

-----------------------------------------------------------------------------
(* The trade-update stream: at-least-once while the websocket is up, and   *)
(* nothing is replayed for the time it was down.                           *)

AttributedBug(u) == TRUE                          \* mutant: any order's update
Attributed(u) == u.order \in submissions

IsDuplicateBug(u) ==                              \* mutant: fills only
  u.kind = "fill" /\ <<u.order, u.id>> \in fills
IsDuplicate(u) ==
  IF u.kind = "fill" THEN <<u.order, u.id>> \in fills
                     ELSE u.order \in cancellations

(* record_fill / record_cancel commit; the event comes in the next step.   *)
(* The message may be delivered again.                                     *)
RecordUpdate ==
  /\ AtAwait
  /\ \E u \in updates :
       /\ Attributed(u) /\ ~IsDuplicate(u)
       /\ \E again \in BOOLEAN :
            updates' = IF again THEN updates ELSE updates \ {u}
       /\ recorded' = u
       /\ IF u.kind = "fill"
          THEN /\ fills' = fills \union {<<u.order, u.id>>}
               /\ UNCHANGED cancellations
          ELSE /\ cancellations' = cancellations \union {u.order}
               /\ UNCHANGED fills
  /\ UNCHANGED <<brokerVars, execVars, submissions, log, venue, executed, late,
                 result, execs, histVars>>

EmitUpdate ==
  /\ recorded # NoUpdate
  /\ Emit(EventOf(recorded))
  /\ recorded' = NoUpdate
  /\ UNCHANGED <<brokerVars, execVars, journalVars, venueVars, result, execs,
                 histVars>>

(* An update of an order the journal does not know, and a duplicate, are   *)
(* dropped without a trace; a message can also be lost with the socket.    *)
DropUpdate ==
  \E u \in updates :
    /\ updates' = updates \ {u}
    /\ UNCHANGED <<brokerVars, execVars, recorded, journalVars, log, venue,
                   executed, late, result, execs, histVars>>

-----------------------------------------------------------------------------
(* The process dies and is started again: journal, event log and venue     *)
(* survive; the broker is constructed afresh, live orders off, kill switch *)
(* off, loss zero, over an empty paper book.                               *)
Crash ==
  /\ crashes < MaxCrashes
  /\ crashes' = crashes + 1
  /\ killed' = FALSE /\ enabled' = FALSE /\ loss' = 0 /\ paper' = EmptyBook
  /\ pc' = "idle" /\ order' = NoOrder /\ todo' = {} /\ reply' = "none"
  /\ live_fills' = {}
  /\ recorded' = NoUpdate
  /\ late' = IF pc = "submitting" /\ reply = "pending"
             THEN late \union {order} ELSE late
  /\ killedRunning' = FALSE /\ overridden' = FALSE
  /\ UNCHANGED <<journalVars, log, venue, executed, updates, result, execs>>

Broker ==
  RegisterSubmission \/ EmitSubmitted \/ SubmitFails \/ CancelReturns
    \/ CancelFails

Operator ==
  KillSwitch \/ ReenableAfterHumanApproval \/ EnableLiveOrdersAfterHumanApproval
    \/ RecordRealizedLoss \/ ResetDay

Venue ==
  VenueAnswers \/ VenueAcceptsLate \/ VenueFills \/ VenueCancels
    \/ VenueCancelsAll

Stream == RecordUpdate \/ EmitUpdate \/ DropUpdate

Next ==
  \/ \E c \in Cycles : ExecuteSkipped(c) \/ ExecuteAccepted(c)
  \/ Broker \/ Operator \/ Venue \/ Stream \/ Crash

(* The event loop resumes a coroutine whose await is over, and httpx times *)
(* every request out; nobody else owes anything.                           *)
Spec == Init /\ [][Next]_vars /\ WF_vars(Broker) /\ WF_vars(EmitUpdate)

-----------------------------------------------------------------------------
(* Properties. *)

(* The journal is at least as fresh as the event log, whatever the crash   *)
(* point: no SUBMITTED, FILLED or CANCELLED event without its durable row, *)
(* no fill or cancellation row without its submission, and each of them is *)
(* something the venue really did.                                         *)
AuditTrail ==
  /\ \A o \in Order :
       /\ log[Submitted(o)] > 0 => o \in submissions
       /\ o \in submissions => venue[o] # "none"
       /\ o \in cancellations => o \in submissions /\ venue[o] = "cancelled"
       /\ log[Cancelled(o)] > 0 => o \in cancellations
  /\ \A o \in Order, i \in FillIds :
       /\ <<o, i>> \in fills => o \in submissions /\ <<o, i>> \in executed
       /\ log[Filled(o, i)] > 0 => <<o, i>> \in fills

(* Under redelivery, reconnects, crashes and replays of a cycle, an order  *)
(* is logged SUBMITTED and CANCELLED at most once and each execution       *)
(* FILLED at most once.                                                    *)
OneEventPerUpdate ==
  \A e \in Event : log[e] <= 1

(* register_submission never meets a client_order_id it already holds,     *)
(* even when a cycle is executed again after a crash lost the response of  *)
(* its first attempt: IntegrityError cannot escape execute.                *)
NoIntegrityError == \A c \in Cycles : result[c].status # "raised"

(* REJECTED after a mid-batch failure: every order that was accepted and   *)
(* registered earlier in that batch is off the book, or the kill switch    *)
(* was engaged with rollback_failed for the operator to look.              *)
RejectedRolledBack ==
  \A c \in Cycles :
    result[c].status = "rejected" /\ ~result[c].alarm
      => \A o \in result[c].batch : venue[o] # "open"

(* A batch still running under an engaged kill switch is the one that was  *)
(* running when it was engaged: the switch takes effect within one cycle.  *)
KillSwitchWithinOneCycle == killed /\ pc # "idle" => killedRunning

(* Above the daily cap the broker trades only if a human re-enabled it     *)
(* above the cap, and the next recorded loss takes that permission back.   *)
LossCapEnforced == loss > Cap => killed \/ overridden

(* Every execute returns although the venue may never answer. *)
ExecuteReturns == pc # "idle" ~> pc = "idle"

(* ADR-0008 NFR-LIVE-BROKER-5: once invoked, the live broker refuses new   *)
(* orders.  A step that sends an order does so with the switch off.        *)
Sends == pc' = "submitting" /\ (pc # "submitting" \/ order' # order)
KillSwitchRefusesOrders == [][Sends => ~killed]_vars

(* ExecutionStatus.REJECTED says the rollback is done: none of the orders  *)
(* the batch asked for is live at the venue, unless the alarm was raised.  *)
RejectedLeavesNoOpenOrder ==
  \A c \in Cycles :
    result[c].status = "rejected" /\ ~result[c].alarm
      => \A o \in result[c].asked : venue[o] # "open"
=============================================================================
