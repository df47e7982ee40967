----------------------------- MODULE DataClients -----------------------------
(***************************************************************************)
(* The clients of the upstream data services.  A call looks in its cache,  *)
(* waits for its turn at the limiter its client shares between calls, goes *)
(* out, and handles the answer: an error, a retry, a page, rows.  Several  *)
(* calls of one client run at once on one event loop, and yield to each    *)
(* other at every await: a sleep, a request, the closing of a connection.  *)
(*                                                                         *)
(* The clients share nothing with each other, so a behaviour is that of    *)
(* one of them, chosen at the start.  The EDINET DB client spends the      *)
(* budget of EdinetDbQuota, whose steps are taken together with its own.   *)
(***************************************************************************)
EXTENDS EdinetDbQuota, Sequences

CONSTANTS
  Clients,     \* those looked at, among ClientNames
  Interval,    \* for each of them, the least time between two requests
  Schedule,    \* backoff after the first, second, ... refusal
  MaxRetries,  \* refusals of one J-Quants page that are retried
  EmptyLimit,  \* empty answers in a row that count as an exhausted quota
  Ttl,         \* lifetime of a cached answer
  Keys         \* what a call asks for: symbol and dates, page, hour

ClientNames ==
  {"jquants", "gamma", "clob", "edinet", "edinetdb", "yfinance", "archive"}

ASSUME ClientAssumption ==
  /\ Clients \subseteq ClientNames
  /\ Interval \in [Clients -> Nat]
  /\ Schedule \in Seq(Nat) /\ Schedule # <<>>
  /\ MaxRetries \in Nat /\ EmptyLimit \in Nat \ {0} /\ Ttl \in Nat
  /\ IsFiniteSet(Keys)

VARIABLES
  client,  \* the client looked at
  last,    \* _last_acquire_at, _last_call_at; 0 before the first request
  streak,  \* _consecutive_429s, _consecutive_empties
  call,    \* the calls in progress
  cache,   \* the rows of the cache table, by when they expire; 0 for none
  disk,    \* the archive's file of the hour, and the one it is downloaded to
  sent,    \* history: when each call last sent a request; 0 for never
  heard,   \* history: the latest answers of yfinance, empty or not
  event    \* history: what the last step did, with the number it is about

own == <<client, last, streak, call, cache, disk, sent, heard, event>>
dvars == <<vars, own>>
quota == vars

Call == [step : {"idle", "asleep", "sent", "backoff", "written"},
         key : Keys, until : Nat, tries : Nat, retry : BOOLEAN, first : Nat]
File == {"none", "torn", "whole"}
Event == [kind : {"none", "sent", "gave_up", "exhausted", "lost"}, n : Int]
Nothing == [kind |-> "none", n |-> 0]
Idle(k) == [step |-> "idle", key |-> k, until |-> 0, tries |-> 0,
            retry |-> FALSE, first |-> 0]

DataTypeOK ==
  /\ client \in Clients /\ last \in 0..MaxTime /\ streak \in Nat
  /\ call \in [Calls -> Call]
  /\ cache \in [Keys -> 0..(MaxTime + Ttl)]
  /\ disk \in [target : File, tmp : File]
  /\ sent \in [Calls -> 0..MaxTime] /\ event \in Event
  /\ heard \in Seq({"empty", "rows"}) /\ Len(heard) <= EmptyLimit

(* No request has been sent and the clock, a monotonic one, is well past   *)
(* the least interval.                                                     *)
DataInit ==
  /\ Init
  /\ client \in Clients
  /\ now \in Interval[client] + 1 .. Interval[client] + TicksPerDay
  /\ last = 0 /\ streak = 0
  /\ call \in {[c \in Calls |-> Idle(k)] : k \in Keys}
  /\ cache = [k \in Keys |-> 0]
  /\ disk = [target |-> "none", tmp |-> "none"]
  /\ sent = [c \in Calls |-> 0]
  /\ heard = <<>> /\ event = Nothing

-----------------------------------------------------------------------------
(* Pacing, backoff and the cache, as the clients share them.               *)
Gap == Interval[client]
NextTurn == IF last = 0 \/ Gap = 0 THEN 0 ELSE last + Gap

(* The call goes out.                                                      *)
Depart(c, r) ==
  /\ call' = [call EXCEPT ![c] = [r EXCEPT !.step = "sent",
                                           !.first = IF @ = 0 THEN now ELSE @]]
  /\ event' = [kind |-> "sent", n |-> IF sent[c] = 0 THEN Gap ELSE now - sent[c]]
  /\ last' = now /\ sent' = [sent EXCEPT ![c] = now]

Sleep(c, r, until) ==
  /\ call' = [call EXCEPT ![c] = [r EXCEPT !.step = "asleep", !.until = until]]
  /\ event' = Nothing
  /\ UNCHANGED <<last, sent>>

AcquireBug(c, r) ==                  \* mutant: the wait is not the time left
  IF NextTurn > now THEN Sleep(c, r, now) ELSE Depart(c, r)

(* AsyncRateLimiter.acquire and the _throttle_sleep of the other clients:  *)
(* a call that must wait computes how long and sleeps, any other goes at   *)
(* once.  The turn is taken when the sleep is over, not when it starts.    *)
Acquire(c, r) ==
  IF NextTurn > now THEN Sleep(c, r, NextTurn) ELSE Depart(c, r)

(* A sleeping call wakes, at its time or later, and sends without looking  *)
(* at the clock again.                                                     *)
Wake(c) ==
  /\ call[c].step = "asleep" /\ call[c].until <= now
  /\ Depart(c, call[c])
  /\ IF client = "edinetdb" THEN Send(c) ELSE UNCHANGED quota
  /\ UNCHANGED <<client, streak, cache, disk, heard>>

BackoffAfterBug(n) ==                \* mutant: past the end, no wait at all
  IF n < Len(Schedule) THEN Schedule[n + 1] ELSE 0
(* on_429: the schedule's next entry, and its last one from then on.       *)
BackoffAfter(n) == Schedule[IF n < Len(Schedule) THEN n + 1 ELSE Len(Schedule)]

BackOff(c, seconds) ==
  call' = [call EXCEPT ![c].step = "backoff", ![c].until = now + seconds,
                       ![c].tries = @ + 1]

Fresh(k) == cache[k] > now

(* The call ends, with what there is to say of it.                         *)
End(c, what) == call' = [call EXCEPT ![c] = Idle(call[c].key)] /\ event' = what
Fails(c) == End(c, Nothing) /\ UNCHANGED <<last, sent>>

Store(k) == cache' = [cache EXCEPT ![k] = now + Ttl]

-----------------------------------------------------------------------------
(* Polymarket (Gamma and CLOB) and EDINET: one request, and the answer, an *)
(* error status, an unreadable body or an error told in the body ends it.  *)
AskOnce(c, k) ==
  /\ call[c].step = "idle" /\ Acquire(c, Idle(k))
  /\ UNCHANGED <<quota, client, streak, cache, disk, heard>>
AnswerOnce(c) ==
  /\ call[c].step = "sent" /\ Fails(c)
  /\ UNCHANGED <<quota, client, streak, cache, disk, heard>>

GammaAsk(c, k) == client = "gamma" /\ AskOnce(c, k)
GammaAnswer(c) == client = "gamma" /\ AnswerOnce(c)
ClobAsk(c, k) == client = "clob" /\ AskOnce(c, k)
ClobAnswer(c) == client = "clob" /\ AnswerOnce(c)
EdinetAsk(c, k) == client = "edinet" /\ AskOnce(c, k)
EdinetAnswer(c) == client = "edinet" /\ AnswerOnce(c)

-----------------------------------------------------------------------------
(* J-Quants: list_master and daily_bars follow the pages of a listing, one *)
(* request after the other.                                                *)
JQuantsAsk(c, k) ==
  /\ client = "jquants" /\ call[c].step = "idle"
  /\ Acquire(c, Idle(k))
  /\ UNCHANGED <<quota, client, streak, cache, disk, heard>>

(* A page arrived: the streak of refusals is over and the next page, if    *)
(* there is one, is asked for with a fresh count of attempts.              *)
JQuantsPage(c) ==
  /\ client = "jquants" /\ call[c].step = "sent"
  /\ streak' = 0
  /\ Fails(c) \/ Acquire(c, Idle(call[c].key))
  /\ UNCHANGED <<quota, client, cache, disk, heard>>

(* 429: the call backs off by the streak of all the calls that share the   *)
(* limiter, up to its own number of retries, then gives up.                *)
JQuantsRefused(c) ==
  /\ client = "jquants" /\ call[c].step = "sent"
  /\ \/ /\ call[c].tries < MaxRetries
        /\ BackOff(c, BackoffAfter(streak)) /\ event' = Nothing
        /\ streak' = streak + 1
     \/ /\ call[c].tries >= MaxRetries
        /\ End(c, [kind |-> "gave_up", n |-> now - call[c].first])
        /\ UNCHANGED streak
  /\ UNCHANGED <<quota, client, last, sent, cache, disk, heard>>

(* A transport error or another error status.                              *)
JQuantsFails(c) ==
  /\ client = "jquants" /\ call[c].step = "sent"
  /\ Fails(c)
  /\ UNCHANGED <<quota, client, streak, cache, disk, heard>>

JQuantsResume(c) ==
  /\ client = "jquants" /\ call[c].step = "backoff" /\ call[c].until <= now
  /\ Acquire(c, call[c])
  /\ UNCHANGED <<quota, client, streak, cache, disk, heard>>

-----------------------------------------------------------------------------
(* Yahoo Finance: daily_bars, alone, in a batch or with retries.  A batch  *)
(* is a call after the other.                                              *)
CacheHit(c, k) ==
  /\ Fresh(k)
  /\ call' = [call EXCEPT ![c] = Idle(k)]
  /\ event' = Nothing
  /\ UNCHANGED <<last, sent>>

DailyBars(c, r) == CacheHit(c, r.key) \/ (~Fresh(r.key) /\ Acquire(c, r))

YFinanceAsk(c, k) ==
  /\ client = "yfinance" /\ call[c].step = "idle"
  /\ \E retry \in BOOLEAN : DailyBars(c, [Idle(k) EXCEPT !.retry = retry])
  /\ UNCHANGED <<quota, client, streak, cache, disk, heard>>

Heard(x) == heard' = IF Len(heard) < EmptyLimit THEN Append(heard, x)
                                                ELSE Append(Tail(heard), x)

(* The third empty answer in a row, to whichever calls, is an exhausted    *)
(* quota; daily_bars_with_retry sleeps on it, daily_bars raises.           *)
YFinanceEmpty(c) ==
  /\ client = "yfinance" /\ call[c].step = "sent"
  /\ Heard("empty") /\ streak' = streak + 1
  /\ IF streak' < EmptyLimit THEN Fails(c)
     ELSE LET exhausted == [kind |-> "exhausted", n |-> streak'] IN
          /\ IF call[c].retry
             THEN /\ BackOff(c, Schedule[call[c].tries + 1]) /\ event' = exhausted
             ELSE End(c, exhausted)
          /\ UNCHANGED <<last, sent>>
  /\ UNCHANGED <<quota, client, cache, disk>>

AfterRowsBug == streak               \* mutant: the count is never reset
AfterRows == 0
YFinanceRows(c) ==
  /\ client = "yfinance" /\ call[c].step = "sent"
  /\ Heard("rows") /\ streak' = AfterRows
  /\ Store(call[c].key) /\ Fails(c)
  /\ UNCHANGED <<quota, client, disk>>

YFinanceFails(c) ==
  /\ client = "yfinance" /\ call[c].step = "sent"
  /\ Fails(c)
  /\ UNCHANGED <<quota, client, streak, cache, disk, heard>>

(* The last sleep of the schedule is followed by the error, the others by  *)
(* another attempt, which looks in the cache again.                        *)
YFinanceResume(c) ==
  /\ client = "yfinance" /\ call[c].step = "backoff" /\ call[c].until <= now
  /\ IF call[c].tries < Len(Schedule) THEN DailyBars(c, call[c]) ELSE Fails(c)
  /\ UNCHANGED <<quota, client, streak, cache, disk, heard>>

-----------------------------------------------------------------------------
(* EDINET DB: the cache, then the budget, then the pacing.                 *)
EdinetDbHit(c, k) ==
  /\ client = "edinetdb" /\ call[c].step = "idle" /\ CacheHit(c, k)
  /\ UNCHANGED <<quota, client, streak, cache, disk, heard>>

EdinetDbAsk(c, k) ==
  /\ client = "edinetdb" /\ call[c].step = "idle" /\ ~Fresh(k)
  /\ Acquire(c, Idle(k)) /\ Admit(c)
  /\ pc'[c] = IF call'[c].step = "sent" THEN "sent" ELSE "throttle"
  /\ UNCHANGED <<client, streak, cache, disk, heard>>

EdinetDbFails(c) ==
  /\ client = "edinetdb" /\ call[c].step = "sent" /\ Fail(c) /\ Fails(c)
  /\ UNCHANGED <<client, streak, cache, disk, heard>>

EdinetDbAnswer(c) ==
  /\ client = "edinetdb" /\ call[c].step = "sent" /\ Record(c)
  /\ event' = Nothing
  /\ UNCHANGED <<client, last, streak, call, cache, disk, sent, heard>>

(* The listing, or rows if there are any, go to the cache on their way to  *)
(* the caller; a body that cannot be read goes nowhere.                    *)
EdinetDbDeliver(c) ==
  /\ client = "edinetdb" /\ Deliver(c) /\ Fails(c)
  /\ \/ (delivered' = delivered + 1 /\ Store(call[c].key))
     \/ UNCHANGED cache
  /\ UNCHANGED <<client, streak, disk, heard>>

-----------------------------------------------------------------------------
(* The Polymarket archive: fetch_hour for one hour.  Downloads of the same *)
(* hour share the temporary file.                                          *)
ArchiveAsk(c, k) ==
  /\ client = "archive" /\ call[c].step = "idle" /\ disk.target = "none"
  /\ Acquire(c, Idle(k))
  /\ UNCHANGED <<quota, client, streak, cache, disk, heard>>

WrittenBug(d, x) == [d EXCEPT !.target = x]  \* mutant: no temporary file
Written(d, x) == [d EXCEPT !.tmp = x]

(* The body is written in one go.  A client of the archive's own is closed *)
(* before the rename, and closing yields; a shared one stays open.         *)
ArchiveAnswer(c) ==
  /\ client = "archive" /\ call[c].step = "sent"
  /\ \/ /\ disk' = Written(disk, "whole")
        /\ call' = [call EXCEPT ![c].step = "written"] /\ event' = Nothing
        /\ UNCHANGED <<last, sent>>
     \/ (disk' = [target |-> "whole", tmp |-> "none"] /\ Fails(c))
     \/ (disk' = [disk EXCEPT !.tmp = "none"] /\ Fails(c))
  /\ UNCHANGED <<quota, client, streak, cache, heard>>

(* The rename, which another download may have taken or removed the file   *)
(* from.                                                                   *)
ArchiveReplace(c) ==
  /\ client = "archive" /\ call[c].step = "written"
  /\ IF disk.tmp = "none"
     THEN End(c, [kind |-> "lost", n |-> 0]) /\ UNCHANGED <<disk, last, sent>>
     ELSE disk' = [target |-> disk.tmp, tmp |-> "none"] /\ Fails(c)
  /\ UNCHANGED <<quota, client, streak, cache, heard>>

-----------------------------------------------------------------------------
(* A call is cancelled at an await; the archive then removes its file.     *)
Cancel(c) ==
  /\ call[c].step # "idle"
  /\ IF client = "edinetdb" THEN Crash({c}) ELSE UNCHANGED quota
  /\ Fails(c)
  /\ disk' = IF client = "archive" THEN [disk EXCEPT !.tmp = "none"] ELSE disk
  /\ UNCHANGED <<client, streak, cache, heard>>

(* The process dies, perhaps in the middle of writing a file, and starts   *)
(* again with new clients on the same cache, budget and files.             *)
Restart ==
  /\ IF client = "edinetdb" THEN Crash(Calls) ELSE UNCHANGED quota
  /\ call' = [c \in Calls |-> Idle(call[c].key)]
  /\ last' = 0 /\ streak' = 0 /\ sent' = [c \in Calls |-> 0]
  /\ heard' = <<>> /\ event' = Nothing
  /\ \/ UNCHANGED disk
     \/ /\ client = "archive" /\ \E c \in Calls : call[c].step = "sent"
        /\ disk' = Written(disk, "torn")
  /\ UNCHANGED <<client, cache>>

Pass ==
  /\ Tick /\ event' = Nothing
  /\ UNCHANGED <<client, last, streak, call, cache, disk, sent, heard>>

PurgeRows ==
  /\ client = "edinetdb" /\ quota_log # {} /\ Purge(DayFloor(now))
  /\ event' = Nothing
  /\ UNCHANGED <<client, last, streak, call, cache, disk, sent, heard>>

DataNext ==
  \/ \E c \in Calls :
       \/ \E k \in Keys :
            \/ GammaAsk(c, k) \/ ClobAsk(c, k) \/ EdinetAsk(c, k)
            \/ JQuantsAsk(c, k) \/ YFinanceAsk(c, k)
            \/ EdinetDbHit(c, k) \/ EdinetDbAsk(c, k) \/ ArchiveAsk(c, k)
       \/ Wake(c) \/ GammaAnswer(c) \/ ClobAnswer(c) \/ EdinetAnswer(c)
       \/ JQuantsPage(c) \/ JQuantsRefused(c) \/ JQuantsFails(c) \/ JQuantsResume(c)
       \/ YFinanceEmpty(c) \/ YFinanceRows(c) \/ YFinanceFails(c) \/ YFinanceResume(c)
       \/ EdinetDbFails(c) \/ EdinetDbAnswer(c) \/ EdinetDbDeliver(c)
       \/ ArchiveAnswer(c) \/ ArchiveReplace(c) \/ Cancel(c)
  \/ Restart \/ Pass \/ PurgeRows

DataSpec == DataInit /\ [][DataNext]_dvars

-----------------------------------------------------------------------------
(* Requests that one caller sends one after the other keep the least       *)
(* interval, whatever the calls beside it do: retries, backoffs and pages  *)
(* included.  Two callers that wait together may go together.              *)
PacedByCaller == event.kind = "sent" => event.n >= Gap

(* A J-Quants call that gives up has waited at least the schedule's first  *)
(* backoff for each of its retries, although the streak it backs off by is *)
(* shared with other calls, which extend it and reset it.                  *)
GiveUpOutlasts == event.kind = "gave_up" => event.n >= MaxRetries * Schedule[1]

(* Yahoo's quota is called exhausted only when the last EmptyLimit answers *)
(* that arrived, of whatever calls and in whatever order, were empty.      *)
ExhaustedMeansEmpties ==
  event.kind = "exhausted" =>
    Len(heard) = EmptyLimit /\ \A i \in 1..EmptyLimit : heard[i] = "empty"

(* The archive's directory never shows a partial file under its own name,  *)
(* whatever was downloading, failing, cancelled or killed.                 *)
ArchiveWhole == disk.target # "torn"
=============================================================================
