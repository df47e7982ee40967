----------------------------- MODULE CycleRunner -----------------------------
(***************************************************************************)
(* CycleRunner.run: one research cycle, Observer to broker, with its state *)
(* machine, token budget, artifacts and event log.                         *)
(*                                                                         *)
(* run is one coroutine; `stage` is the await it is suspended at, and one  *)
(* action covers everything from the answer of one await to the next, or   *)
(* to the end of the run, persisting included.                             *)
(***************************************************************************)
EXTENDS Integers, Sequences

CONSTANTS
  Configs,    \* the ways a runner can be constructed, see Config
  TokenCap,   \* CycleBudget.token_cap
  MaxTokens   \* bound on the tokens one agent reports

(* Whether a policy gateway is configured, which broker (with a price      *)
(* provider) if any, and whether a cycle store is.                         *)
Config == [gateway : BOOLEAN, broker : {"none", "paper", "live"},
           store : BOOLEAN]

ASSUME CycleRunnerAssumption ==
  /\ Configs \subseteq Config
  /\ TokenCap \in Nat /\ MaxTokens \in Nat

VARIABLES
  config,     \* constructor arguments
  stage,      \* the awaited call, "none" when no run is in progress
  machine,    \* OrchestratorStateMachine.state
  tokens,     \* BudgetGuard._tokens_consumed
  artifacts,  \* the filled slots of _ArtifactsBuilder
  log,        \* the events of the current or last run, in order
  attached,   \* a live broker holds the cycle's context
  result,     \* the last CycleResult
  outcome     \* how run just ended, until its caller takes it

runnerVars == <<config, stage, machine, tokens, artifacts, log, attached,
                result, outcome>>

AgentNames == {"observer", "hypothesis", "skeptic", "research", "auditor",
               "decider"}
Stages == AgentNames \union {"none", "backtest", "prices", "broker"}

States == {"IDLE", "OBSERVING", "HYPOTHESIZING", "SCRUTINIZING", "RESEARCHING",
           "AUDITING", "DECIDING", "REPORTING", "ERROR"}

(* The artifacts of a cycle; the two that carry a verdict are told apart   *)
(* by it (KILL stands for REQUIRE_REVISION too).                           *)
Artifacts == {"observer", "hypothesis", "skeptic PROCEED", "skeptic KILL",
              "research", "backtest", "audit PASS", "audit FAIL", "decision",
              "feasible_action", "execution_report"}

(* The kinds of event the runner itself emits, and an event: its kind, the *)
(* agent or state it is of, the state it leads to.                         *)
CycleEventKind ==
  {"CYCLE_STARTED", "CYCLE_COMPLETED", "CYCLE_ABORTED", "AGENT_INVOKED",
   "AGENT_SUCCEEDED", "AGENT_FAILED", "STATE_TRANSITION", "BUDGET_EXCEEDED",
   "POLICY_GATEWAY_APPLIED", "BROKER_EXECUTED"}
CycleEvent == [kind : CycleEventKind, of : AgentNames \union States \union {""},
               to : States \union {""}]

CycleResult == [terminal : States, artifacts : SUBSET Artifacts, aborted : BOOLEAN]
NoResult == [terminal |-> "IDLE", artifacts |-> {}, aborted |-> FALSE]

RunnerTypeOK ==
  /\ config \in Config
  /\ stage \in Stages
  /\ machine \in States
  /\ tokens \in Nat
  /\ artifacts \in SUBSET Artifacts
  /\ log \in Seq(CycleEvent)
  /\ attached \in BOOLEAN
  /\ result \in CycleResult
  /\ outcome \in {"none", "returned", "raised"}

RunnerInit ==
  /\ config \in Configs
  /\ stage = "none" /\ machine = "IDLE" /\ tokens = 0 /\ artifacts = {}
  /\ log = <<>> /\ attached = FALSE /\ result = NoResult /\ outcome = "none"

-----------------------------------------------------------------------------
(* Events. *)

Event(kind, of) == [kind |-> kind, of |-> of, to |-> ""]

ValidTransitionsBug ==   \* mutant: the skeptic's early exit is not whitelisted
  {<<"IDLE", "OBSERVING">>, <<"OBSERVING", "HYPOTHESIZING">>,
   <<"HYPOTHESIZING", "SCRUTINIZING">>, <<"HYPOTHESIZING", "IDLE">>,
   <<"SCRUTINIZING", "RESEARCHING">>,
   <<"RESEARCHING", "AUDITING">>, <<"RESEARCHING", "IDLE">>,
   <<"AUDITING", "DECIDING">>, <<"AUDITING", "IDLE">>,
   <<"DECIDING", "REPORTING">>, <<"DECIDING", "IDLE">>,
   <<"REPORTING", "IDLE">>, <<"ERROR", "IDLE">>}
  \union {<<s, "ERROR">> : s \in States}
ValidTransitions ==
  {<<"IDLE", "OBSERVING">>, <<"OBSERVING", "HYPOTHESIZING">>,
   <<"HYPOTHESIZING", "SCRUTINIZING">>, <<"HYPOTHESIZING", "IDLE">>,
   <<"SCRUTINIZING", "RESEARCHING">>, <<"SCRUTINIZING", "IDLE">>,
   <<"RESEARCHING", "AUDITING">>, <<"RESEARCHING", "IDLE">>,
   <<"AUDITING", "DECIDING">>, <<"AUDITING", "IDLE">>,
   <<"DECIDING", "REPORTING">>, <<"DECIDING", "IDLE">>,
   <<"REPORTING", "IDLE">>, <<"ERROR", "IDLE">>}
  \union {<<s, "ERROR">> : s \in States}

(* transition() returns whether the move was accepted; the runner ignores  *)
(* it, and a refused move changes nothing and is not logged.               *)
Moved(from, dst) == IF <<from, dst>> \in ValidTransitions THEN dst ELSE from
MoveEvents(from, dst) ==
  IF <<from, dst>> \in ValidTransitions
  THEN <<[kind |-> "STATE_TRANSITION", of |-> from, to |-> dst]>>
  ELSE <<>>

Invoked(agent) == <<Event("AGENT_INVOKED", agent)>>

(* A phase is entered, then its agent invoked. *)
Entering(dst, agent) == MoveEvents(machine, dst) \o Invoked(agent)

CompletedBug(terminal) ==                   \* mutant: where the machine rests
  <<Event("CYCLE_COMPLETED", Moved(machine, "IDLE"))>>
Completed(terminal) == <<Event("CYCLE_COMPLETED", terminal)>>

-----------------------------------------------------------------------------
(* The end of a run. *)

(* _persist_if_configured: with a store, save may raise, after the         *)
(* terminal event was logged.                                              *)
Return(r) ==
  /\ stage' = "none" /\ attached' = FALSE
  /\ artifacts' = r.artifacts
  /\ \/ outcome' = "returned" /\ result' = r
     \/ config.store /\ outcome' = "raised" /\ UNCHANGED result

(* _complete *)
Complete(events, new, terminal) ==
  /\ machine' = Moved(machine, "IDLE")
  /\ log' = log \o events \o MoveEvents(machine, "IDLE") \o Completed(terminal)
  /\ Return([terminal |-> terminal, artifacts |-> artifacts \union new,
             aborted |-> FALSE])

(* _finalize *)
Abort(events) ==
  /\ machine' = Moved(machine, "ERROR")
  /\ log' = log \o events \o MoveEvents(machine, "ERROR")
                \o <<Event("CYCLE_ABORTED", machine)>>
  /\ Return([terminal |-> "ERROR", artifacts |-> artifacts, aborted |-> TRUE])

AttachedAfterRaiseBug == attached           \* mutant: no finally clause
AttachedAfterRaise == FALSE

(* An exception nobody catches: no terminal event, nothing persisted.  The *)
(* finally clause still detaches a live broker.                            *)
Raise ==
  /\ stage' = "none" /\ outcome' = "raised"
  /\ attached' = AttachedAfterRaise
  /\ UNCHANGED <<machine, artifacts, log, result>>

-----------------------------------------------------------------------------
(* A run begins: a fresh state machine, budget guard and builder. *)
Run ==
  /\ stage' = "observer"
  /\ machine' = Moved("IDLE", "OBSERVING")
  /\ tokens' = 0 /\ artifacts' = {}
  /\ log' = <<Event("CYCLE_STARTED", "")>> \o MoveEvents("IDLE", "OBSERVING")
                \o Invoked("observer")
  /\ outcome' = "none"
  /\ UNCHANGED <<config, attached, result>>

(* What follows the artifact of each agent that has one way on. *)
NextAgent == [observer |-> "hypothesis", hypothesis |-> "skeptic"]
NextState == [observer |-> "HYPOTHESIZING", hypothesis |-> "SCRUTINIZING"]

(* Keep the artifact, move the machine and invoke the next agent. *)
Advance(events, artifact, dst, agent) ==
  /\ stage' = agent
  /\ machine' = Moved(machine, dst)
  /\ artifacts' = artifacts \union {artifact}
  /\ log' = log \o events \o Entering(dst, agent)
  /\ UNCHANGED <<attached, result, outcome>>

(* Keep the new artifacts and await `next`, which is no agent. *)
Await(events, new, next) ==
  /\ stage' = next
  /\ artifacts' = artifacts \union new
  /\ log' = log \o events
  /\ UNCHANGED <<machine, attached, result, outcome>>

OverBudget(spent) == tokens + spent > TokenCap

AuditPassedBug(verdict) == TRUE             \* mutant: the verdict is ignored
AuditPassed(verdict) == verdict = "PASS"

(* The policy gateway's projection, when configured, then the broker, when *)
(* there is one and a projection for it.                                   *)
Decided(events) ==
  IF ~config.gateway
  THEN Complete(events, {"decision"}, "DECIDING")
  ELSE LET gated == events \o <<Event("POLICY_GATEWAY_APPLIED", "")>>
           new == {"decision", "feasible_action"}
       IN IF config.broker = "none"
          THEN Complete(gated, new, "DECIDING")
          ELSE Await(gated, new, "prices")

(* An agent's output is within the budget; its artifact decides the next   *)
(* step.  A skeptic that does not say PROCEED and an audit that does not   *)
(* PASS end the cycle.                                                     *)
Continue(agent, events) ==
  \/ /\ agent \in DOMAIN NextAgent
     /\ Advance(events, agent, NextState[agent], NextAgent[agent])
  \/ /\ agent = "skeptic"
     /\ \E verdict \in {"PROCEED", "KILL"} :
          IF verdict = "PROCEED"
          THEN Advance(events, "skeptic PROCEED", "RESEARCHING", "research")
          ELSE Complete(events, {"skeptic KILL"}, "SCRUTINIZING")
  \/ /\ agent = "research"
     /\ Await(events, {"research"}, "backtest")
  \/ /\ agent = "auditor"
     /\ \E verdict \in {"PASS", "FAIL"} :
          LET audit == IF verdict = "PASS" THEN "audit PASS" ELSE "audit FAIL"
          IN IF AuditPassed(verdict)
             THEN Advance(events, audit, "DECIDING", "decider")
             ELSE Complete(events, {audit}, "AUDITING")
  \/ /\ agent = "decider"
     /\ Decided(events)

(* The awaited agent answers with an output.  consume adds what it spent;  *)
(* over the token cap, or too late on the clock, the run aborts without    *)
(* its artifact.                                                           *)
AgentSucceeds ==
  /\ stage \in AgentNames
  /\ \E spent \in 0..MaxTokens, late \in BOOLEAN :
       LET succeeded == <<Event("AGENT_SUCCEEDED", stage)>>
       IN /\ tokens' = tokens + spent
          /\ IF OverBudget(spent) \/ late
             THEN Abort(succeeded \o <<Event("BUDGET_EXCEEDED", "")>>)
             ELSE Continue(stage, succeeded)
  /\ UNCHANGED config

(* The awaited agent answers with an error. *)
AgentFails ==
  /\ stage \in AgentNames
  /\ Abort(<<Event("AGENT_FAILED", stage)>>)
  /\ UNCHANGED <<config, tokens>>

BacktestReturns ==
  /\ stage = "backtest"
  /\ Advance(<<>>, "backtest", "AUDITING", "auditor")
  /\ UNCHANGED <<config, tokens>>

(* The backtest and the price provider are the two calls whose exceptions  *)
(* run catches itself.                                                     *)
CallFails ==
  /\ stage \in {"backtest", "prices"}
  /\ Abort(<<>>)
  /\ UNCHANGED <<config, tokens>>

(* Prices arrived.  A live broker gets the cycle's context, and refuses a  *)
(* second one.                                                             *)
PricesReturn ==
  /\ stage = "prices"
  /\ IF config.broker = "live"
     THEN IF attached
          THEN Raise
          ELSE /\ attached' = TRUE /\ stage' = "broker"
               /\ UNCHANGED <<machine, artifacts, log, result, outcome>>
     ELSE Await(<<>>, {}, "broker")
  /\ UNCHANGED <<config, tokens>>

(* The broker reports, whatever the status: a live one has logged its own  *)
(* events and loses the context, a paper one is logged here.               *)
BrokerReturns ==
  /\ stage = "broker"
  /\ Complete(IF config.broker = "paper" THEN <<Event("BROKER_EXECUTED", "")>>
                                         ELSE <<>>,
              {"execution_report"}, "DECIDING")
  /\ UNCHANGED <<config, tokens>>

(* An agent raises instead of answering (base_llm_agent catches provider   *)
(* errors only), or the broker does: run has no handler for either.        *)
CallRaises ==
  /\ stage \in AgentNames \union {"broker"}
  /\ Raise
  /\ UNCHANGED <<config, tokens>>

RunnerStep ==
  AgentSucceeds \/ AgentFails \/ BacktestReturns \/ CallFails \/ PricesReturn
    \/ BrokerReturns \/ CallRaises

-----------------------------------------------------------------------------
(* Properties of a run. *)

Kinds(S) == {i \in 1..Len(log) : log[i].kind \in S}

Moves == Kinds({"STATE_TRANSITION"})

(* The transitions in the log: every one the runner asks for is in the     *)
(* whitelist, although it never looks at the answer, so that they lead     *)
(* from IDLE to the machine's state without a gap, and a finished run      *)
(* rests in IDLE or ERROR.                                                 *)
NoTransitionRefused ==
  /\ log # <<>> => Moves # {}
  /\ \A i \in Moves :
       /\ (\A j \in Moves : j >= i) => log[i].of = "IDLE"
       /\ (\A j \in Moves : j <= i) => log[i].to = machine
       /\ \A j \in Moves :
            i < j /\ (\A k \in Moves : k <= i \/ k >= j)
              => log[i].to = log[j].of
  /\ outcome = "returned"
       => machine = IF result.aborted THEN "ERROR" ELSE "IDLE"

(* The log of a run is a complete story at every moment: it starts with    *)
(* CYCLE_STARTED, every invocation is answered before anything else        *)
(* happens, no transition is missing, a failure or a breach is followed by *)
(* nothing but the abort, a terminal event is the last one.                *)
EventProtocol ==
  /\ log # <<>> => log[1].kind = "CYCLE_STARTED"
  /\ \A i \in Kinds({"AGENT_INVOKED"}) \ {Len(log)} :
       /\ log[i + 1].kind \in {"AGENT_SUCCEEDED", "AGENT_FAILED"}
       /\ log[i + 1].of = log[i].of
  /\ NoTransitionRefused
  /\ \A i \in Kinds({"AGENT_FAILED", "BUDGET_EXCEEDED"}) :
       Len(log) = i + 2 /\ log[i + 2].kind = "CYCLE_ABORTED"
  /\ Kinds({"CYCLE_COMPLETED", "CYCLE_ABORTED"}) \subseteq {Len(log)}

(* The broker is asked, and an execution report kept, only in a cycle all  *)
(* of whose steps succeeded within the token budget, whose skeptic said    *)
(* PROCEED, whose audit passed and whose decision went through the policy  *)
(* gateway.                                                                *)
TradeIsJustified ==
  stage = "broker" \/ "execution_report" \in artifacts =>
    /\ {"observer", "hypothesis", "skeptic PROCEED", "research", "backtest",
        "audit PASS", "decision", "feasible_action"} \subseteq artifacts
    /\ Kinds({"POLICY_GATEWAY_APPLIED"}) # {}
    /\ tokens <= TokenCap

(* The result of a run and its last event tell the same end: aborted or    *)
(* completed, in the same state, and a completed cycle's terminal state is *)
(* the one its verdicts lead to.                                           *)
ResultTellsTheEnd ==
  outcome = "returned" =>
    LET last == log[Len(log)] IN
    /\ result.aborted <=> last.kind = "CYCLE_ABORTED"
    /\ ~result.aborted =>
         /\ last = Event("CYCLE_COMPLETED", result.terminal)
         /\ result.terminal = "SCRUTINIZING" <=> "skeptic KILL" \in artifacts
         /\ result.terminal = "AUDITING" <=> "audit FAIL" \in artifacts
         /\ result.terminal = "DECIDING" <=> "decision" \in artifacts

(* A live broker holds a cycle's context only while that cycle awaits it,  *)
(* whatever way the call ends, so no later event is filed under it.        *)
ContextReleased == attached => stage = "broker" /\ config.broker = "live"
=============================================================================
