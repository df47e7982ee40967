----------------------------- MODULE CycleQueue -----------------------------
(***************************************************************************)
(* CycleQueue over CycleRunner: tasks of one event loop enqueue requests   *)
(* and call run_one and drain, concurrently, against one runner.           *)
(***************************************************************************)
EXTENDS CycleRunner

CONSTANT MaxItems   \* bound on the calls of enqueue

ASSUME CycleQueueAssumption == MaxItems \in Nat

VARIABLES
  pending,    \* CycleQueue._pending
  running,    \* CycleQueue._running
  driver,     \* the call that is running a cycle
  current,    \* its request
  closed      \* history: the requests whose run ended, in that order

queueVars == <<pending, running, driver, current, closed>>
vars == <<runnerVars, queueVars>>

Items == 1..MaxItems

TypeOK ==
  /\ RunnerTypeOK
  /\ pending \in Seq(Items) /\ closed \in Seq(Items)
  /\ running \in BOOLEAN
  /\ driver \in {"none", "run_one", "drain"}
  /\ running <=> driver # "none"
  /\ current \in Items \union {0}

Init ==
  /\ RunnerInit
  /\ pending = <<>> /\ running = FALSE /\ driver = "none" /\ current = 0
  /\ closed = <<>>

(* A run that ended hands its outcome to its caller in the same step of    *)
(* the event loop: no other task runs before FinishRun.                    *)
LoopIsFree == outcome = "none"

Submitted == Len(pending) + Len(closed) + (IF current = 0 THEN 0 ELSE 1)

Enqueue ==
  /\ LoopIsFree /\ Submitted < MaxItems
  /\ pending' = Append(pending, Submitted + 1)
  /\ UNCHANGED <<runnerVars, running, driver, current, closed>>

(* _run_guarded up to its await. *)
RunGuarded ==
  /\ pending # <<>>
  /\ current' = Head(pending)
  /\ pending' = Tail(pending)
  /\ running' = TRUE
  /\ Run

MayRunBug == TRUE        \* mutant: no reentrancy guard
MayRun == ~running

(* run_one and drain; called while a cycle runs, or with nothing queued,   *)
(* either returns at once and changes nothing.                             *)
RunOne ==
  /\ LoopIsFree /\ MayRun
  /\ RunGuarded
  /\ driver' = "run_one"
  /\ UNCHANGED closed

Drain ==
  /\ LoopIsFree /\ MayRun
  /\ RunGuarded
  /\ driver' = "drain"
  /\ UNCHANGED closed

NextRunBug == FALSE      \* mutant: `if` for `while`
NextRun == driver = "drain" /\ outcome = "returned"

FlagAfterRun == FALSE

(* The finally clause clears the flag and the caller goes on: drain with   *)
(* the next request, unless the run raised, which ends it (and loses the   *)
(* results it had gathered).                                               *)
FinishRun ==
  /\ outcome # "none"
  /\ closed' = Append(closed, current)
  /\ IF NextRun /\ pending # <<>>
     THEN RunGuarded /\ UNCHANGED driver
     ELSE /\ driver' = "none" /\ current' = 0
          /\ running' = FlagAfterRun
          /\ outcome' = "none"
          /\ UNCHANGED <<config, stage, machine, tokens, artifacts, log,
                         attached, result, pending>>

Step == RunnerStep /\ UNCHANGED queueVars

Next == Enqueue \/ RunOne \/ Drain \/ Step \/ FinishRun

(* Every awaited call answers or raises: the LLM providers and the HTTP    *)
(* clients behind prices and broker give up at their timeouts, and the     *)
(* backtest is a computation.                                              *)
Spec == Init /\ [][Next]_vars /\ WF_vars(Step \/ FinishRun)

-----------------------------------------------------------------------------
(* Properties. *)

(* A cycle that is running, as the callers see it. *)
InProgress == stage # "none"

(* The queue and the runner implement the serial service: one cycle at a   *)
(* time, in the order of the requests, each begun at most once, and every  *)
(* begun cycle ends.                                                       *)
Service ==
  INSTANCE CycleService WITH
    waiting <- pending,
    current <- IF InProgress THEN current ELSE 0,
    closed <- IF outcome = "none" THEN closed ELSE Append(closed, current)

ServiceSpec == Service!Spec

(* Once a drain runs, every request queued behind it is served, unless a   *)
(* run raises and ends the drain.                                          *)
DrainServesAll ==
  \A i \in Items :
    (driver = "drain" /\ i \in {pending[j] : j \in 1..Len(pending)})
      ~> \/ outcome = "raised"
         \/ i \in {closed[j] : j \in 1..Len(closed)}
=============================================================================
