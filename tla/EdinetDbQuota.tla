---------------------------- MODULE EdinetDbQuota ----------------------------
(***************************************************************************)
(* DailyQuotaTracker: a log of requests on disk, shared by the calls of    *)
(* EdinetDbClient._get_json that spend the same daily budget, in one event *)
(* loop or in several processes.  A call checks the budget, awaits its     *)
(* turn and the answer, and only then writes its row.  Cache hits never    *)
(* reach it.  The purge deletes rows of past days.                         *)
(*                                                                         *)
(* Time is a number of ticks, TicksPerDay of them to a UTC day.            *)
(***************************************************************************)
EXTENDS Integers, FiniteSets

CONSTANTS
  Calls,        \* calls of _get_json that may run at once
  Cap,          \* daily_cap
  TicksPerDay,  \* length of a UTC day
  MaxTime       \* bound on the clock

ASSUME QuotaAssumption ==
  /\ IsFiniteSet(Calls)
  /\ Cap \in Nat \ {0} /\ TicksPerDay \in Nat \ {0} /\ MaxTime \in Nat

VARIABLES
  now,        \* the clock
  quota_log,  \* the rows of quota_log: a row number and its timestamp
  rows,       \* the next row number, never reused
  pc,         \* each call: "idle", "throttle", "sent" or "recorded"
  delivered   \* history: answers handed to a caller today

vars == <<now, quota_log, rows, pc, delivered>>

Row == [row : Nat, at : Nat]
DayFloor(t) == t - (t % TicksPerDay)
SameDay(t, u) == DayFloor(t) = DayFloor(u)

Outstanding == {c \in Calls : pc[c] \in {"throttle", "sent"}}

TypeOK ==
  /\ now \in 0..MaxTime
  /\ quota_log \in SUBSET Row /\ IsFiniteSet(quota_log)
  /\ \A r \in quota_log : r.row < rows /\ r.at <= now
  /\ rows \in Nat /\ delivered \in Nat
  /\ pc \in [Calls -> {"idle", "throttle", "sent", "recorded"}]

Init ==
  /\ now \in 0..MaxTime
  /\ quota_log = {} /\ rows = 0 /\ delivered = 0
  /\ pc = [c \in Calls |-> "idle"]

-----------------------------------------------------------------------------
RowsToday == {r \in quota_log : SameDay(r.at, now)}
RequestsToday == Cardinality(RowsToday)

QuotaAvailableBug == RequestsToday <= Cap  \* mutant: one request too many
QuotaAvailable == RequestsToday < Cap

(* The quota check; a call over the budget raises and changes nothing.  A  *)
(* call whose turn has come sends at once, any other sleeps.               *)
Admit(c) ==
  /\ pc[c] = "idle" /\ QuotaAvailable
  /\ \E next \in {"throttle", "sent"} : pc' = [pc EXCEPT ![c] = next]
  /\ UNCHANGED <<now, quota_log, rows, delivered>>

(* The throttle's sleep ends and the request goes out.                     *)
Send(c) ==
  /\ pc[c] = "throttle"
  /\ pc' = [pc EXCEPT ![c] = "sent"]
  /\ UNCHANGED <<now, quota_log, rows, delivered>>

(* No API key, a transport error or an error status: nothing is counted.   *)
Fail(c) ==
  /\ pc[c] = "sent"
  /\ pc' = [pc EXCEPT ![c] = "idle"]
  /\ UNCHANGED <<now, quota_log, rows, delivered>>

StampBug == DayFloor(now) + TicksPerDay    \* mutant: stamped with the day's end
Stamp == now

(* A successful answer, counted under the time it arrived.                 *)
Record(c) ==
  /\ pc[c] = "sent"
  /\ quota_log' = quota_log \union {[row |-> rows, at |-> Stamp]}
  /\ rows' = rows + 1
  /\ pc' = [pc EXCEPT ![c] = "recorded"]
  /\ UNCHANGED <<now, delivered>>

(* Its body is parsed and handed over, or is no JSON and the call raises.  *)
Deliver(c) ==
  /\ pc[c] = "recorded"
  /\ pc' = [pc EXCEPT ![c] = "idle"]
  /\ delivered' \in {delivered, delivered + 1}
  /\ UNCHANGED <<now, quota_log, rows>>

(* A process dies with the calls it was running, or a call is cancelled;   *)
(* the log survives it.                                                    *)
Crash(dead) ==
  /\ dead # {}
  /\ pc' = [c \in Calls |-> IF c \in dead THEN "idle" ELSE pc[c]]
  /\ UNCHANGED <<now, quota_log, rows, delivered>>

KeptBug(cutoff) == {r \in quota_log : r.at > cutoff}  \* mutant: a row too many
Kept(cutoff) == {r \in quota_log : r.at >= cutoff}

(* purge_older_than with a cutoff no later than the start of the day.      *)
Purge(cutoff) ==
  /\ cutoff <= DayFloor(now)
  /\ quota_log' = Kept(cutoff)
  /\ UNCHANGED <<now, rows, pc, delivered>>

(* Time passes, but not between a row and its delivery, which nothing but  *)
(* a crash can separate.                                                   *)
Tick ==
  /\ now < MaxTime /\ \A c \in Calls : pc[c] # "recorded"
  /\ now' = now + 1
  /\ delivered' = IF SameDay(now, now') THEN delivered ELSE 0
  /\ UNCHANGED <<quota_log, rows, pc>>

Next ==
  \/ \E c \in Calls : Admit(c) \/ Send(c) \/ Fail(c) \/ Record(c) \/ Deliver(c)
  \/ \E dead \in SUBSET Calls : Crash(dead)
  \/ \E cutoff \in 0..MaxTime : Purge(cutoff)
  \/ Tick

Spec == Init /\ [][Next]_vars

-----------------------------------------------------------------------------
(* The budget is overdrawn by at most one request for every other call     *)
(* that can be between the check and its row: two calls may both see the   *)
(* last free place.  One call at a time never overdraws it.  Restarts,     *)
(* purges and requests that straddle midnight do not make it worse.        *)
OvershootBounded == RequestsToday <= Cap - 1 + Cardinality(Calls)

(* Every answer a caller got today is counted in today's budget, wherever  *)
(* a process died and whatever was purged.                                 *)
AnswersAreCounted == delivered <= RequestsToday
=============================================================================
