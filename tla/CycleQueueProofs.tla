--------------------------- MODULE CycleQueueProofs ---------------------------
(***************************************************************************)
(* Proofs about CycleQueue over CycleRunner, for every set of runner       *)
(* configurations, every token cap and every number of requests, and about *)
(* CycleStore, for every set of cycle ids and every bound on the saves and *)
(* the crashes.                                                            *)
(***************************************************************************)
EXTENDS CycleQueue, CycleStore, SequenceTheorems, TLAPS

-----------------------------------------------------------------------------
(* The inductive invariant. *)

(* What a cycle has gathered, and the state its machine is in, follow from *)
(* the await it is suspended at.                                           *)
Scrutinized == {"observer", "hypothesis", "skeptic PROCEED"}
Audited == Scrutinized \union {"research", "backtest", "audit PASS"}

Gathered(s) ==
  CASE s = "observer" -> {}
    [] s = "hypothesis" -> {"observer"}
    [] s = "skeptic" -> {"observer", "hypothesis"}
    [] s = "research" -> Scrutinized
    [] s = "backtest" -> Scrutinized \union {"research"}
    [] s = "auditor" -> Scrutinized \union {"research", "backtest"}
    [] s = "decider" -> Audited
    [] s \in {"prices", "broker"} ->
         Audited \union {"decision", "feasible_action"}

StateAt(s) ==
  CASE s = "observer" -> "OBSERVING"
    [] s = "hypothesis" -> "HYPOTHESIZING"
    [] s = "skeptic" -> "SCRUTINIZING"
    [] s \in {"research", "backtest"} -> "RESEARCHING"
    [] s = "auditor" -> "AUDITING"
    [] s \in {"decider", "prices", "broker"} -> "DECIDING"

StageInv ==
  /\ stage # "none" =>
       /\ artifacts = Gathered(stage) /\ machine = StateAt(stage)
       /\ tokens <= TokenCap
       /\ outcome = "none"
       /\ log # <<>>
  /\ stage \in {"prices", "broker"} =>
       /\ config.gateway
       /\ Kinds({"POLICY_GATEWAY_APPLIED"}) # {}

(* One driver, one current request, one run in progress or just ended. *)
QueueInv ==
  /\ driver # "none" <=> current # 0
  /\ driver # "none" <=> stage # "none" \/ outcome # "none"

(* What the log of a run in progress ends with, and what it does not have. *)
Ends == {"AGENT_FAILED", "BUDGET_EXCEEDED", "CYCLE_COMPLETED", "CYCLE_ABORTED"}

LogInv ==
  /\ stage \in AgentNames => log[Len(log)] = Event("AGENT_INVOKED", stage)
  /\ stage \in {"backtest", "prices", "broker"} =>
       log[Len(log)].kind # "AGENT_INVOKED"
  /\ stage # "none" => Kinds(Ends) = {}

RunInv == /\ TypeOK /\ StageInv /\ QueueInv /\ ContextReleased
          /\ TradeIsJustified /\ ResultTellsTheEnd

StoryInv == RunInv /\ LogInv /\ EventProtocol

-----------------------------------------------------------------------------
(* Events and moves. *)

Transition(from, dst) == [kind |-> "STATE_TRANSITION", of |-> from, to |-> dst]

(* Every move the runner asks for is in the whitelist. *)
LEMMA MovesAccepted ==
  /\ \A s \in States : /\ Moved(s, "ERROR") = "ERROR"
                       /\ MoveEvents(s, "ERROR") = <<Transition(s, "ERROR")>>
  /\ \A s \in {"SCRUTINIZING", "AUDITING", "DECIDING"} :
       /\ Moved(s, "IDLE") = "IDLE"
       /\ MoveEvents(s, "IDLE") = <<Transition(s, "IDLE")>>
  /\ \A m \in {<<"IDLE", "OBSERVING">>, <<"OBSERVING", "HYPOTHESIZING">>,
              <<"HYPOTHESIZING", "SCRUTINIZING">>,
              <<"SCRUTINIZING", "RESEARCHING">>, <<"RESEARCHING", "AUDITING">>,
              <<"AUDITING", "DECIDING">>} :
       /\ Moved(m[1], m[2]) = m[2]
       /\ MoveEvents(m[1], m[2]) = <<Transition(m[1], m[2])>>
BY DEF Moved, MoveEvents, ValidTransitions, Transition, States

(* The log after a step that adds events: its length and its entries. *)
LEMMA LogGrows ==
  ASSUME log \in Seq(CycleEvent), NEW e \in Seq(CycleEvent), log' = log \o e
  PROVE  /\ log' \in Seq(CycleEvent)
         /\ Len(log) \in Nat /\ Len(e) \in Nat
         /\ Len(log') = Len(log) + Len(e)
         /\ \A i \in 1..Len(log) : log'[i] = log[i]
         /\ \A j \in 1..Len(e) : log'[Len(log) + j] = e[j]
<1>1. /\ log' \in Seq(CycleEvent)
      /\ Len(log') = Len(log) + Len(e)
      /\ \A i \in 1..Len(log) + Len(e) :
           log'[i] = IF i <= Len(log) THEN log[i] ELSE e[i - Len(log)]
  BY ConcatProperties
<1> QED
  BY <1>1, LenProperties

(* Joining short sequences of events. *)
LEMMA Joined ==
  ASSUME NEW a \in CycleEvent, NEW b \in CycleEvent, NEW c \in CycleEvent,
         NEW d \in CycleEvent
  PROVE  /\ <<>> \o <<a>> = <<a>>
         /\ <<a>> \o <<b>> = <<a, b>>
         /\ <<a, b>> \o <<c>> = <<a, b, c>>
         /\ <<a, b, c>> \o <<d>> = <<a, b, c, d>>
<1>1. /\ <<a>> \in Seq(CycleEvent) /\ <<a, b>> \in Seq(CycleEvent)
      /\ <<a, b, c>> \in Seq(CycleEvent)
  OBVIOUS
<1>2. <<>> \o <<a>> = <<a>>
  BY <1>1, ConcatEmptySeq
<1>3. /\ <<a, b>> = Append(<<a>>, b)
      /\ <<a, b, c>> = Append(<<a, b>>, c)
      /\ <<a, b, c, d>> = Append(<<a, b, c>>, d)
  OBVIOUS
<1>4. Append(<<a>>, b) = <<a>> \o <<b>>
  BY <1>1, AppendIsConcat
<1>5. Append(<<a, b>>, c) = <<a, b>> \o <<c>>
  BY <1>1, AppendIsConcat
<1>6. Append(<<a, b, c>>, d) = <<a, b, c>> \o <<d>>
  BY <1>1, AppendIsConcat
<1> QED
  BY <1>2, <1>3, <1>4, <1>5, <1>6, Zenon

(* One event is a sequence of events. *)
LEMMA OneEvent == ASSUME NEW a \in CycleEvent PROVE <<a>> \in Seq(CycleEvent)
OBVIOUS

(* Joining onto the log is associative. *)
LEMMA Regrouped ==
  ASSUME NEW l \in Seq(CycleEvent), NEW a \in Seq(CycleEvent),
         NEW b \in Seq(CycleEvent)
  PROVE  l \o a \o b = l \o (a \o b)
BY ConcatAssociative

(* Two events joined onto the log one at a time. *)
LEMMA TwoMore ==
  ASSUME NEW l \in Seq(CycleEvent), NEW e \in Seq(CycleEvent),
         NEW x \in CycleEvent, NEW y \in CycleEvent
  PROVE  /\ e \o <<x, y>> \in Seq(CycleEvent)
         /\ l \o e \o <<x>> \o <<y>> = l \o (e \o <<x, y>>)
<1>1. /\ <<x>> \in Seq(CycleEvent) /\ <<y>> \in Seq(CycleEvent)
      /\ <<x, y>> \in Seq(CycleEvent)
  OBVIOUS
<1>2. l \o e \in Seq(CycleEvent) /\ e \o <<x, y>> \in Seq(CycleEvent)
  BY <1>1, ConcatProperties
<1>3. <<x>> \o <<y>> = <<x, y>>
  BY Joined, Zenon
<1>4. (l \o e) \o <<x>> \o <<y>> = (l \o e) \o (<<x>> \o <<y>>)
  <2>1. \A p, q, r \in Seq(CycleEvent) : p \o q \o r = p \o (q \o r)
    BY Regrouped
  <2> QED
    BY <1>1, <1>2, <2>1
<1>5. (l \o e) \o <<x, y>> = l \o (e \o <<x, y>>)
  BY <1>1, Regrouped, Zenon
<1> QED
  BY <1>2, <1>3, <1>4, <1>5, Zenon
-----------------------------------------------------------------------------
(* The ways a step of a run can end, and what each leaves in the log.      *)

AbortEvents(e) ==
  e \o <<Transition(machine, "ERROR"), Event("CYCLE_ABORTED", machine)>>
CompleteEvents(e, terminal) ==
  e \o <<Transition(machine, "IDLE"), Event("CYCLE_COMPLETED", terminal)>>
AdvanceEvents(e, dst, agent) ==
  e \o <<Transition(machine, dst), Event("AGENT_INVOKED", agent)>>

(* An aborted run rests in ERROR and its last event says so. *)
LEMMA AbortLogs ==
  ASSUME log \in Seq(CycleEvent), machine \in States,
         NEW e \in Seq(CycleEvent), Abort(e)
  PROVE  /\ machine' = "ERROR"
         /\ AbortEvents(e) \in Seq(CycleEvent)
         /\ log' = log \o AbortEvents(e)
<1> DEFINE t == Transition(machine, "ERROR")
           a == Event("CYCLE_ABORTED", machine)
<1>1. t \in CycleEvent /\ a \in CycleEvent
  BY DEF Transition, Event, CycleEvent, CycleEventKind, States
<1>2. machine' = "ERROR" /\ log' = log \o e \o <<t>> \o <<a>>
  BY MovesAccepted DEF Abort
<1> HIDE DEF t, a
<1>3. log \o e \o <<t>> \o <<a>> = log \o (e \o <<t, a>>)
  BY <1>1, TwoMore, Zenon
<1>4. e \o <<t, a>> \in Seq(CycleEvent)
  BY <1>1, TwoMore, Zenon
<1> QED
  BY <1>2, <1>3, <1>4 DEF AbortEvents, t, a

(* A completed run rests in IDLE and its last event tells the state it     *)
(* ended from.                                                             *)
LEMMA CompleteLogs ==
  ASSUME log \in Seq(CycleEvent),
         machine \in {"SCRUTINIZING", "AUDITING", "DECIDING"},
         NEW e \in Seq(CycleEvent), NEW new, NEW terminal \in States,
         Complete(e, new, terminal)
  PROVE  /\ machine' = "IDLE"
         /\ CompleteEvents(e, terminal) \in Seq(CycleEvent)
         /\ log' = log \o CompleteEvents(e, terminal)
<1> DEFINE t == Transition(machine, "IDLE")
           c == Event("CYCLE_COMPLETED", terminal)
<1>1. t \in CycleEvent /\ c \in CycleEvent
  BY DEF Transition, Event, CycleEvent, CycleEventKind, States
<1>2. machine' = "IDLE" /\ log' = log \o e \o <<t>> \o <<c>>
  BY MovesAccepted DEF Complete, Completed
<1> HIDE DEF t, c
<1>3. log \o e \o <<t>> \o <<c>> = log \o (e \o <<t, c>>)
  BY <1>1, TwoMore, Zenon
<1>4. e \o <<t, c>> \in Seq(CycleEvent)
  BY <1>1, TwoMore, Zenon
<1> QED
  BY <1>2, <1>3, <1>4 DEF CompleteEvents, t, c

(* The moves that lead from one agent to the next. *)
AgentMoves ==
  {<<"OBSERVING", "HYPOTHESIZING">>, <<"HYPOTHESIZING", "SCRUTINIZING">>,
   <<"SCRUTINIZING", "RESEARCHING">>, <<"RESEARCHING", "AUDITING">>,
   <<"AUDITING", "DECIDING">>}

(* A run that goes on to an agent has moved and invoked it. *)
LEMMA AdvanceLogs ==
  ASSUME log \in Seq(CycleEvent), NEW artifact, NEW dst, NEW agent \in AgentNames,
         <<machine, dst>> \in AgentMoves,
         NEW e \in Seq(CycleEvent), Advance(e, artifact, dst, agent)
  PROVE  /\ machine' = dst
         /\ AdvanceEvents(e, dst, agent) \in Seq(CycleEvent)
         /\ log' = log \o AdvanceEvents(e, dst, agent)
<1> DEFINE t == Transition(machine, dst)
           i == Event("AGENT_INVOKED", agent)
<1>1. t \in CycleEvent /\ i \in CycleEvent
  BY DEF Transition, Event, CycleEvent, CycleEventKind, States, AgentMoves
<1>2. Moved(machine, dst) = dst /\ MoveEvents(machine, dst) = <<t>>
  BY DEF AgentMoves, Moved, MoveEvents, ValidTransitions, Transition
<1>3. machine' = dst /\ log' = log \o e \o (<<t>> \o <<i>>)
  BY <1>2 DEF Advance, Entering, Invoked
<1>4. <<t, i>> \in Seq(CycleEvent) /\ e \o <<t, i>> \in Seq(CycleEvent)
  BY <1>1, ConcatProperties
<1>5. <<t>> \o <<i>> = <<t, i>>
  BY <1>1, Joined
<1>6. log \o e \o <<t, i>> = log \o (e \o <<t, i>>)
  BY <1>4, Regrouped, Zenon
<1> QED
  BY <1>3, <1>4, <1>5, <1>6 DEF AdvanceEvents

(* The entries of a log that gained events and then two more. *)
LEMMA LogEnds ==
  ASSUME log \in Seq(CycleEvent), NEW e \in Seq(CycleEvent),
         NEW x \in CycleEvent, NEW y \in CycleEvent,
         log' = log \o (e \o <<x, y>>)
  PROVE  /\ log' \in Seq(CycleEvent)
         /\ Len(log) \in Nat /\ Len(e) \in Nat
         /\ Len(log') = Len(log) + Len(e) + 2
         /\ \A i \in 1..Len(log) : log'[i] = log[i]
         /\ \A j \in 1..Len(e) : log'[Len(log) + j] = e[j]
         /\ log'[Len(log) + Len(e) + 1] = x
         /\ log'[Len(log) + Len(e) + 2] = y
<1> DEFINE f == e \o <<x, y>>
<1>1. <<x, y>> \in Seq(CycleEvent) /\ Len(<<x, y>>) = 2
  OBVIOUS
<1>2. Len(e) \in Nat
  BY LenProperties
<1>3. /\ f \in Seq(CycleEvent) /\ Len(f) = Len(e) + 2
      /\ \A j \in 1..Len(e) : f[j] = e[j]
  BY <1>1, <1>2, ConcatProperties
<1>4. f[Len(e) + 1] = <<x, y>>[1] /\ f[Len(e) + 2] = <<x, y>>[2]
  <2>1. \A j \in 1..(Len(e) + 2) :
          f[j] = IF j <= Len(e) THEN e[j] ELSE <<x, y>>[j - Len(e)]
    BY <1>1, ConcatProperties
  <2>2. Len(e) + 1 \in 1..(Len(e) + 2) /\ Len(e) + 2 \in 1..(Len(e) + 2)
    BY <1>2
  <2>3. f[Len(e) + 1] = <<x, y>>[(Len(e) + 1) - Len(e)]
    BY <2>1, <2>2, <1>2
  <2>4. f[Len(e) + 2] = <<x, y>>[(Len(e) + 2) - Len(e)]
    BY <2>1, <2>2, <1>2
  <2> QED
    BY <2>3, <2>4, <1>2
<1> HIDE DEF f
<1>5. /\ log' \in Seq(CycleEvent) /\ Len(log) \in Nat
      /\ Len(log') = Len(log) + Len(f)
      /\ \A i \in 1..Len(log) : log'[i] = log[i]
      /\ \A j \in 1..Len(f) : log'[Len(log) + j] = f[j]
  BY <1>3, LogGrows DEF f
<1>6. \A j \in 1..Len(e) : log'[Len(log) + j] = e[j]
  BY <1>2, <1>3, <1>5
<1>7. /\ log'[Len(log) + Len(e) + 1] = x
      /\ log'[Len(log) + Len(e) + 2] = y
  <2>1. Len(e) + 1 \in 1..Len(f) /\ Len(e) + 2 \in 1..Len(f)
    BY <1>2, <1>3
  <2>2. /\ log'[Len(log) + (Len(e) + 1)] = f[Len(e) + 1]
        /\ log'[Len(log) + (Len(e) + 2)] = f[Len(e) + 2]
    BY <1>5, <2>1
  <2> QED
    BY <2>2, <1>2, <1>4, <1>5
<1> QED
  BY <1>2, <1>3, <1>5, <1>6, <1>7

-----------------------------------------------------------------------------
(* Each way a step can end keeps what a run in progress and a run that     *)
(* ended promise.                                                          *)

(* What is gathered at an await, one await at a time. *)
LEMMA AtStage ==
  ASSUME RunInv, stage # "none"
  PROVE  /\ stage \in AgentNames \union {"backtest", "prices", "broker"}
         /\ artifacts = Gathered(stage) /\ machine = StateAt(stage)
         /\ machine \in States /\ machine # "IDLE" /\ machine # "ERROR"
         /\ artifacts \in SUBSET Artifacts
         /\ "skeptic KILL" \notin artifacts /\ "audit FAIL" \notin artifacts
         /\ "execution_report" \notin artifacts
         /\ outcome = "none" /\ driver # "none" /\ current # 0
         /\ log \in Seq(CycleEvent) /\ Len(log) \in Nat \ {0}
<1>1. stage \in AgentNames \union {"backtest", "prices", "broker"}
  BY DEF RunInv, TypeOK, RunnerTypeOK, Stages
<1>2. artifacts = Gathered(stage) /\ machine = StateAt(stage) /\ outcome = "none"
  BY DEF RunInv, StageInv
<1>3. /\ machine \in States /\ machine # "IDLE" /\ machine # "ERROR"
  BY <1>1, <1>2 DEF StateAt, States, AgentNames
<1>4. /\ "skeptic KILL" \notin artifacts /\ "audit FAIL" \notin artifacts
      /\ "execution_report" \notin artifacts
  <2>1. "skeptic KILL" \notin artifacts
    BY <1>1, <1>2 DEF Gathered, Scrutinized, Audited, AgentNames
  <2>2. "audit FAIL" \notin artifacts
    BY <1>1, <1>2 DEF Gathered, Scrutinized, Audited, AgentNames
  <2>3. "execution_report" \notin artifacts
    BY <1>1, <1>2 DEF Gathered, Scrutinized, Audited, AgentNames
  <2> QED
    BY <2>1, <2>2, <2>3
<1>5. log \in Seq(CycleEvent) /\ Len(log) \in Nat \ {0}
  BY EmptySeq, LenProperties DEF RunInv, StageInv, TypeOK, RunnerTypeOK
<1>6. driver # "none" /\ current # 0
  BY DEF RunInv, QueueInv
<1> QED
  BY <1>1, <1>2, <1>3, <1>4, <1>5, <1>6 DEF RunInv, TypeOK, RunnerTypeOK

(* An abort. *)
LEMMA AbortKeeps ==
  ASSUME RunInv, stage # "none", NEW e \in Seq(CycleEvent), Abort(e),
         tokens' \in Nat, UNCHANGED <<config, queueVars>>
  PROVE  RunInv'
<1> DEFINE r == [terminal |-> "ERROR", artifacts |-> artifacts, aborted |-> TRUE]
           t == Transition(machine, "ERROR")
           a == Event("CYCLE_ABORTED", machine)
<1>1. /\ artifacts = Gathered(stage) /\ machine \in States
      /\ artifacts \in SUBSET Artifacts
      /\ "execution_report" \notin artifacts
      /\ driver # "none" /\ current # 0
      /\ log \in Seq(CycleEvent) /\ Len(log) \in Nat \ {0}
  BY AtStage
<1>2. /\ machine' = "ERROR" /\ log' = log \o (e \o <<t, a>>)
  BY <1>1, AbortLogs DEF AbortEvents
<1>3. t \in CycleEvent /\ a \in CycleEvent
  BY <1>1 DEF Transition, Event, CycleEvent, CycleEventKind, States
<1>4. /\ log' \in Seq(CycleEvent)
      /\ log'[Len(log')] = a
  BY <1>1, <1>2, <1>3, LogEnds
<1>5. /\ stage' = "none" /\ attached' = FALSE /\ artifacts' = artifacts
      /\ \/ outcome' = "returned" /\ result' = r
         \/ outcome' = "raised" /\ result' = result
  BY DEF Abort, Return
<1>6. r \in CycleResult
  BY <1>1 DEF CycleResult, States
<1>7. TypeOK'
  BY <1>1, <1>2, <1>4, <1>5, <1>6 DEF RunInv, TypeOK, RunnerTypeOK, queueVars, Stages, States
<1>8. StageInv' /\ QueueInv' /\ ContextReleased'
  BY <1>1, <1>5 DEF RunInv, StageInv, QueueInv, ContextReleased, queueVars
<1>9. TradeIsJustified'
  BY <1>1, <1>5 DEF TradeIsJustified
<1>10. ResultTellsTheEnd'
  <2> SUFFICES ASSUME outcome' = "returned"
               PROVE  /\ log'[Len(log')].kind = "CYCLE_ABORTED"
                      /\ result'.aborted
    BY DEF ResultTellsTheEnd
  <2>1. result'.aborted = TRUE
    BY <1>5
  <2>2. a.kind = "CYCLE_ABORTED"
    BY DEF Event
  <2> HIDE DEF a
  <2> QED
    BY <2>1, <2>2, <1>4, Zenon
<1> QED
  BY <1>7, <1>8, <1>9, <1>10 DEF RunInv

(* The verdicts and actions a cycle may complete with, and the state it    *)
(* completes in.                                                           *)
CompletesWith(new, terminal) ==
  \/ stage = "skeptic" /\ new = {"skeptic KILL"} /\ terminal = "SCRUTINIZING"
  \/ stage = "auditor" /\ new = {"audit FAIL"} /\ terminal = "AUDITING"
  \/ /\ stage = "decider" /\ terminal = "DECIDING"
     /\ new = {"decision"} \/ new = {"decision", "feasible_action"}
  \/ stage = "broker" /\ new = {"execution_report"} /\ terminal = "DECIDING"

(* What the completion of each stage adds. *)
LEMMA CompletionTable ==
  ASSUME NEW new, NEW terminal, CompletesWith(new, terminal)
  PROVE  /\ stage \in {"skeptic", "auditor", "decider", "broker"}
         /\ new \in SUBSET Artifacts
         /\ terminal = IF stage = "skeptic" THEN "SCRUTINIZING"
                       ELSE IF stage = "auditor" THEN "AUDITING" ELSE "DECIDING"
         /\ "skeptic KILL" \in new <=> stage = "skeptic"
         /\ "audit FAIL" \in new <=> stage = "auditor"
         /\ "decision" \in new <=> stage = "decider"
         /\ "execution_report" \in new <=> stage = "broker"
<1>1. CASE stage = "skeptic" /\ new = {"skeptic KILL"} /\ terminal = "SCRUTINIZING"
  BY <1>1 DEF Artifacts
<1>2. CASE stage = "auditor" /\ new = {"audit FAIL"} /\ terminal = "AUDITING"
  BY <1>2 DEF Artifacts
<1>3. CASE stage = "decider" /\ terminal = "DECIDING" /\ new = {"decision"}
  BY <1>3 DEF Artifacts
<1>4. CASE stage = "decider" /\ terminal = "DECIDING"
           /\ new = {"decision", "feasible_action"}
  BY <1>4 DEF Artifacts
<1>5. CASE stage = "broker" /\ new = {"execution_report"} /\ terminal = "DECIDING"
  BY <1>5 DEF Artifacts
<1> QED
  BY <1>1, <1>2, <1>3, <1>4, <1>5, Zenon DEF CompletesWith

(* A completion: an execution report comes from the broker alone, whose    *)
(* cycle has gathered all that justifies a trade.                          *)
LEMMA CompleteKeeps ==
  ASSUME RunInv, NEW e \in Seq(CycleEvent),
         NEW new, NEW terminal,
         Complete(e, new, terminal), CompletesWith(new, terminal),
         tokens' \in Nat, tokens' <= TokenCap, UNCHANGED <<config, queueVars>>
  PROVE  RunInv'
<1> DEFINE r == [terminal |-> terminal, artifacts |-> artifacts \union new,
                 aborted |-> FALSE]
           t == Transition(machine, "IDLE")
           c == Event("CYCLE_COMPLETED", terminal)
<1>0. /\ stage \in {"skeptic", "auditor", "decider", "broker"}
      /\ new \in SUBSET Artifacts
      /\ terminal = IF stage = "skeptic" THEN "SCRUTINIZING"
                    ELSE IF stage = "auditor" THEN "AUDITING" ELSE "DECIDING"
      /\ "skeptic KILL" \in new <=> stage = "skeptic"
      /\ "audit FAIL" \in new <=> stage = "auditor"
      /\ "decision" \in new <=> stage = "decider"
      /\ "execution_report" \in new <=> stage = "broker"
  BY CompletionTable
<1>1. /\ artifacts = Gathered(stage) /\ machine = StateAt(stage)
      /\ artifacts \in SUBSET Artifacts
      /\ "skeptic KILL" \notin artifacts /\ "audit FAIL" \notin artifacts
      /\ "execution_report" \notin artifacts
      /\ driver # "none" /\ current # 0
      /\ log \in Seq(CycleEvent) /\ Len(log) \in Nat \ {0}
  BY <1>0, AtStage
<1>2. /\ machine \in {"SCRUTINIZING", "AUDITING", "DECIDING"}
      /\ terminal \in {"SCRUTINIZING", "AUDITING", "DECIDING"}
  <2>1. terminal \in {"SCRUTINIZING", "AUDITING", "DECIDING"}
    BY <1>0
  <2>2. machine \in {"SCRUTINIZING", "AUDITING", "DECIDING"}
    BY <1>0, <1>1 DEF StateAt
  <2> QED
    BY <2>1, <2>2
<1>3. terminal \in States /\ machine \in States
  BY <1>2 DEF States
<1>4. machine' = "IDLE" /\ log' = log \o (e \o <<t, c>>)
  BY <1>1, <1>2, <1>3, CompleteLogs DEF CompleteEvents
<1>5. t \in CycleEvent /\ c \in CycleEvent
  BY <1>3 DEF Transition, Event, CycleEvent, CycleEventKind, States
<1>6. /\ log' \in Seq(CycleEvent)
      /\ log'[Len(log')] = c
      /\ Len(log') \in Nat /\ Len(log') > Len(log)
      /\ \A i \in 1..Len(log) : log'[i] = log[i]
  <2> HIDE DEF t, c
  <2>1. /\ log' \in Seq(CycleEvent) /\ Len(log) \in Nat /\ Len(e) \in Nat
        /\ Len(log') = Len(log) + Len(e) + 2
        /\ \A i \in 1..Len(log) : log'[i] = log[i]
        /\ log'[Len(log) + Len(e) + 2] = c
    BY <1>1, <1>4, <1>5, LogEnds
  <2> QED
    BY <2>1
<1>7. /\ stage' = "none" /\ attached' = FALSE
      /\ artifacts' = artifacts \union new
      /\ \/ outcome' = "returned" /\ result' = r
         \/ outcome' = "raised" /\ result' = result
  BY DEF Complete, Return
<1>8. artifacts \union new \in SUBSET Artifacts
  BY <1>0, <1>1
<1>9. r \in CycleResult
  BY <1>3, <1>8 DEF CycleResult
<1>10. TypeOK'
  BY <1>1, <1>4, <1>6, <1>7, <1>8, <1>9
     DEF RunInv, TypeOK, RunnerTypeOK, queueVars, Stages, States
<1>11. StageInv' /\ QueueInv' /\ ContextReleased'
  BY <1>1, <1>7 DEF RunInv, StageInv, QueueInv, ContextReleased, queueVars
<1>12. TradeIsJustified'
  <2>1. CASE stage # "broker"
    <3>1. "execution_report" \notin new
      BY <1>0, <2>1
    <3> QED
      BY <1>1, <1>7, <3>1 DEF TradeIsJustified
  <2>2. CASE stage = "broker"
    <3>1. Audited \union {"decision", "feasible_action"} \subseteq artifacts
      BY <1>1, <2>2 DEF Gathered
    <3>2. PICK i \in 1..Len(log) : log[i].kind = "POLICY_GATEWAY_APPLIED"
      BY <2>2 DEF RunInv, StageInv, Kinds
    <3>3. i \in 1..Len(log') /\ log'[i].kind = "POLICY_GATEWAY_APPLIED"
      BY <1>6, <3>2
    <3>4. Kinds({"POLICY_GATEWAY_APPLIED"})' # {}
      BY <3>3 DEF Kinds
    <3> QED
      BY <1>7, <3>1, <3>4 DEF TradeIsJustified, Audited, Scrutinized
  <2> QED
    BY <2>1, <2>2
<1>13. ResultTellsTheEnd'
  <2> HIDE DEF c
  <2> SUFFICES ASSUME outcome' = "returned"
               PROVE  /\ ~result'.aborted
                      /\ log'[Len(log')].kind # "CYCLE_ABORTED"
                      /\ log'[Len(log')] = Event("CYCLE_COMPLETED", result'.terminal)
                      /\ result'.terminal = "SCRUTINIZING" <=> "skeptic KILL" \in artifacts'
                      /\ result'.terminal = "AUDITING" <=> "audit FAIL" \in artifacts'
                      /\ result'.terminal = "DECIDING" <=> "decision" \in artifacts'
    BY DEF ResultTellsTheEnd
  <2>1. result'.aborted = FALSE /\ result'.terminal = terminal
    BY <1>7
  <2>2. c.kind = "CYCLE_COMPLETED" /\ c = Event("CYCLE_COMPLETED", terminal)
    BY DEF Event, c
  <2>3. /\ log'[Len(log')].kind = "CYCLE_COMPLETED"
        /\ log'[Len(log')] = Event("CYCLE_COMPLETED", terminal)
    BY <1>6, <2>2, Zenon
  <2>4. /\ terminal = "SCRUTINIZING" <=> "skeptic KILL" \in artifacts \union new
        /\ terminal = "AUDITING" <=> "audit FAIL" \in artifacts \union new
    BY <1>0, <1>1
  <2>5. stage \in {"skeptic", "auditor"} => "decision" \notin artifacts
    BY <1>1 DEF Gathered, Scrutinized
  <2>6. terminal = "DECIDING" => "decision" \in artifacts \union new
    BY <1>0, <1>1 DEF Gathered
  <2>7. "decision" \in artifacts \union new => terminal = "DECIDING"
    BY <1>0, <2>5
  <2> QED
    BY <1>7, <2>1, <2>3, <2>4, <2>6, <2>7
<1> QED
  BY <1>10, <1>11, <1>12, <1>13 DEF RunInv

(* The five ways on from one step of a cycle to the next agent. *)
AdvancesTo(artifact, dst, agent) ==
  \/ /\ stage = "observer" /\ artifact = "observer"
     /\ dst = "HYPOTHESIZING" /\ agent = "hypothesis"
  \/ /\ stage = "hypothesis" /\ artifact = "hypothesis"
     /\ dst = "SCRUTINIZING" /\ agent = "skeptic"
  \/ /\ stage = "skeptic" /\ artifact = "skeptic PROCEED"
     /\ dst = "RESEARCHING" /\ agent = "research"
  \/ /\ stage = "backtest" /\ artifact = "backtest"
     /\ dst = "AUDITING" /\ agent = "auditor"
  \/ /\ stage = "auditor" /\ artifact = "audit PASS"
     /\ dst = "DECIDING" /\ agent = "decider"

(* Each of them reaches what the next stage is to have gathered, by a move *)
(* that is in the whitelist.                                               *)
LEMMA AdvanceTable ==
  ASSUME NEW artifact, NEW dst, NEW agent, AdvancesTo(artifact, dst, agent)
  PROVE  /\ stage \in AgentNames \union {"backtest"} /\ stage # "decider"
         /\ agent \in AgentNames /\ dst = StateAt(agent)
         /\ <<StateAt(stage), dst>> \in AgentMoves
         /\ artifact \in Artifacts /\ artifact # "execution_report"
         /\ Gathered(stage) \union {artifact} = Gathered(agent)
<1> USE DEF AgentNames, Artifacts, AgentMoves
<1>1. CASE /\ stage = "observer" /\ artifact = "observer"
           /\ dst = "HYPOTHESIZING" /\ agent = "hypothesis"
  BY <1>1 DEF StateAt, Gathered
<1>2. CASE /\ stage = "hypothesis" /\ artifact = "hypothesis"
           /\ dst = "SCRUTINIZING" /\ agent = "skeptic"
  BY <1>2 DEF StateAt, Gathered
<1>3. CASE /\ stage = "skeptic" /\ artifact = "skeptic PROCEED"
           /\ dst = "RESEARCHING" /\ agent = "research"
  BY <1>3 DEF StateAt, Gathered, Scrutinized
<1>4. CASE /\ stage = "backtest" /\ artifact = "backtest"
           /\ dst = "AUDITING" /\ agent = "auditor"
  BY <1>4 DEF StateAt, Gathered, Scrutinized
<1>5. CASE /\ stage = "auditor" /\ artifact = "audit PASS"
           /\ dst = "DECIDING" /\ agent = "decider"
  BY <1>5 DEF StateAt, Gathered, Scrutinized, Audited
<1> QED
  BY <1>1, <1>2, <1>3, <1>4, <1>5 DEF AdvancesTo

(* A cycle that goes on to its next agent. *)
LEMMA AdvanceKeeps ==
  ASSUME RunInv, NEW e \in Seq(CycleEvent), NEW artifact, NEW dst, NEW agent,
         Advance(e, artifact, dst, agent), AdvancesTo(artifact, dst, agent),
         tokens' \in Nat, tokens' <= TokenCap, UNCHANGED <<config, queueVars>>
  PROVE  RunInv'
<1>1. /\ stage \in AgentNames \union {"backtest"} /\ stage # "decider"
      /\ agent \in AgentNames /\ dst = StateAt(agent)
      /\ <<StateAt(stage), dst>> \in AgentMoves
      /\ artifact \in Artifacts /\ artifact # "execution_report"
      /\ Gathered(stage) \union {artifact} = Gathered(agent)
  BY AdvanceTable
<1>2. stage # "none" /\ agent # "none" /\ stage \notin {"prices", "broker"}
      /\ agent \notin {"prices", "broker"}
  BY <1>1 DEF AgentNames
<1>3. /\ artifacts = Gathered(stage) /\ machine = StateAt(stage)
      /\ artifacts \in SUBSET Artifacts /\ "execution_report" \notin artifacts
      /\ outcome = "none" /\ driver # "none" /\ current # 0
      /\ log \in Seq(CycleEvent) /\ Len(log) \in Nat \ {0}
  BY <1>2, AtStage
<1>4. /\ machine' = dst
      /\ AdvanceEvents(e, dst, agent) \in Seq(CycleEvent)
      /\ log' = log \o AdvanceEvents(e, dst, agent)
  <2>1. <<machine, dst>> \in AgentMoves
    BY <1>1, <1>3
  <2>2. log \in Seq(CycleEvent) /\ agent \in AgentNames
    BY <1>1, <1>3
  <2> QED
    BY <2>1, <2>2, AdvanceLogs
<1>5. log' \in Seq(CycleEvent) /\ Len(log') >= Len(log)
  BY <1>3, <1>4, LogGrows
<1>6. /\ stage' = agent /\ artifacts' = artifacts \union {artifact}
      /\ attached' = attached /\ result' = result /\ outcome' = outcome
      /\ config' = config
  BY DEF Advance
<1>7. attached = FALSE
  BY <1>2, Zenon DEF RunInv, ContextReleased, TypeOK, RunnerTypeOK
<1>8. artifacts' = Gathered(agent) /\ artifacts' \in SUBSET Artifacts
      /\ "execution_report" \notin artifacts'
  BY <1>1, <1>3, <1>6
<1>9. dst \in States
  BY <1>1 DEF StateAt, AgentNames, States
<1>10. TypeOK'
  BY <1>1, <1>3, <1>4, <1>5, <1>6, <1>8, <1>9
     DEF RunInv, TypeOK, RunnerTypeOK, queueVars, Stages
<1>11. StageInv'
  BY <1>1, <1>2, <1>3, <1>4, <1>5, <1>6, <1>8 DEF StageInv
<1>12. QueueInv' /\ ContextReleased' /\ ResultTellsTheEnd'
  BY <1>2, <1>3, <1>6, <1>7
     DEF RunInv, QueueInv, ContextReleased, ResultTellsTheEnd, queueVars
<1>13. TradeIsJustified'
  BY <1>2, <1>6, <1>8 DEF TradeIsJustified
<1> QED
  BY <1>10, <1>11, <1>12, <1>13 DEF RunInv

(* A cycle that goes on to its backtest or to the prices of its action. *)
LEMMA AwaitKeeps ==
  ASSUME RunInv, NEW e \in Seq(CycleEvent), NEW new, NEW next,
         Await(e, new, next),
         \/ stage = "research" /\ next = "backtest" /\ new = {"research"}
         \/ /\ stage = "decider" /\ next = "prices" /\ config.gateway
            /\ new = {"decision", "feasible_action"}
            /\ Len(e) > 0 /\ e[Len(e)].kind = "POLICY_GATEWAY_APPLIED",
         tokens' \in Nat, tokens' <= TokenCap, UNCHANGED <<config, queueVars>>
  PROVE  RunInv'
<1>1. /\ stage \in {"research", "decider"} /\ next \in {"backtest", "prices"}
      /\ Gathered(stage) \union new = Gathered(next)
      /\ StateAt(stage) = StateAt(next)
      /\ new \in SUBSET Artifacts /\ "execution_report" \notin new
  <2>1. CASE stage = "research" /\ next = "backtest" /\ new = {"research"}
    BY <2>1 DEF Gathered, StateAt, Artifacts
  <2>2. CASE stage = "decider" /\ next = "prices"
             /\ new = {"decision", "feasible_action"}
    BY <2>2 DEF Gathered, StateAt, Artifacts
  <2> QED
    BY <2>1, <2>2, Zenon
<1>2. /\ artifacts = Gathered(stage) /\ machine = StateAt(stage)
      /\ artifacts \in SUBSET Artifacts /\ "execution_report" \notin artifacts
      /\ outcome = "none" /\ driver # "none" /\ current # 0
      /\ log \in Seq(CycleEvent) /\ Len(log) \in Nat \ {0}
  BY <1>1, AtStage
<1>3. /\ stage' = next /\ artifacts' = artifacts \union new /\ log' = log \o e
      /\ machine' = machine /\ attached' = attached /\ result' = result
      /\ outcome' = outcome /\ config' = config
  BY DEF Await
<1>4. /\ log' \in Seq(CycleEvent)
      /\ Len(e) \in Nat /\ Len(log') = Len(log) + Len(e)
      /\ \A j \in 1..Len(e) : log'[Len(log) + j] = e[j]
  BY <1>2, <1>3, LogGrows
<1>5. attached = FALSE
  BY <1>1, Zenon DEF RunInv, ContextReleased, TypeOK, RunnerTypeOK
<1>6. /\ artifacts' = Gathered(next) /\ artifacts' \in SUBSET Artifacts
      /\ "execution_report" \notin artifacts' /\ machine' = StateAt(next)
  BY <1>1, <1>2, <1>3
<1>7. TypeOK'
  BY <1>1, <1>2, <1>3, <1>4, <1>5, <1>6
     DEF RunInv, TypeOK, RunnerTypeOK, queueVars, Stages
<1>8. next = "prices" =>
        config'.gateway /\ Kinds({"POLICY_GATEWAY_APPLIED"})' # {}
  <2> SUFFICES ASSUME next = "prices"
               PROVE  config'.gateway /\ Kinds({"POLICY_GATEWAY_APPLIED"})' # {}
    OBVIOUS
  <2>1. /\ config.gateway /\ Len(e) > 0
        /\ e[Len(e)].kind = "POLICY_GATEWAY_APPLIED"
    BY <1>1
  <2>2. /\ Len(log) + Len(e) \in 1..Len(log')
        /\ log'[Len(log) + Len(e)].kind = "POLICY_GATEWAY_APPLIED"
    BY <1>2, <1>4, <2>1
  <2> QED
    BY <1>3, <2>1, <2>2 DEF Kinds
<1>9. StageInv'
  BY <1>1, <1>2, <1>3, <1>4, <1>6, <1>8 DEF StageInv
<1>10. QueueInv' /\ ContextReleased' /\ ResultTellsTheEnd'
  BY <1>1, <1>2, <1>3, <1>5
     DEF RunInv, QueueInv, ContextReleased, ResultTellsTheEnd, queueVars
<1>11. TradeIsJustified'
  BY <1>1, <1>3, <1>6 DEF TradeIsJustified
<1> QED
  BY <1>7, <1>9, <1>10, <1>11 DEF RunInv

(* An exception ends the run where it stands; a live broker is let go. *)
LEMMA RaiseKeeps ==
  ASSUME RunInv, stage # "none", Raise, UNCHANGED <<config, tokens, queueVars>>
  PROVE  RunInv'
<1>1. /\ "execution_report" \notin artifacts
      /\ driver # "none" /\ current # 0
  BY AtStage
<1>2. /\ stage' = "none" /\ outcome' = "raised" /\ attached' = FALSE
      /\ machine' = machine /\ artifacts' = artifacts /\ log' = log
      /\ result' = result /\ config' = config /\ tokens' = tokens
  BY DEF Raise, AttachedAfterRaise
<1>3. TypeOK'
  BY <1>1, <1>2 DEF RunInv, TypeOK, RunnerTypeOK, queueVars, Stages
<1>4. StageInv' /\ QueueInv' /\ ContextReleased' /\ ResultTellsTheEnd'
  BY <1>1, <1>2 DEF RunInv, StageInv, QueueInv, ContextReleased,
                    ResultTellsTheEnd, queueVars
<1>5. TradeIsJustified'
  BY <1>1, <1>2 DEF TradeIsJustified
<1> QED
  BY <1>3, <1>4, <1>5 DEF RunInv

(* The prices arrived: the broker is awaited, a live one with the cycle's  *)
(* context, and no artifact or event is added.                             *)
LEMMA PricesKeep ==
  ASSUME RunInv, PricesReturn, UNCHANGED queueVars
  PROVE  /\ RunInv'
         /\ stage = "prices" /\ stage' = "broker"
         /\ UNCHANGED <<machine, artifacts, log, result, outcome>>
<1>1. stage = "prices" /\ config' = config /\ tokens' = tokens
  BY DEF PricesReturn
<1>2. /\ artifacts = Gathered(stage) /\ machine = StateAt(stage)
      /\ artifacts \in SUBSET Artifacts /\ "execution_report" \notin artifacts
      /\ outcome = "none" /\ driver # "none" /\ current # 0
      /\ log \in Seq(CycleEvent) /\ Len(log) \in Nat \ {0}
  BY <1>1, AtStage
<1>3. attached = FALSE
  BY <1>1, Zenon DEF RunInv, ContextReleased, TypeOK, RunnerTypeOK
<1>4. /\ stage' = "broker" /\ log' = log /\ artifacts' = artifacts
      /\ machine' = machine /\ result' = result /\ outcome' = outcome
      /\ attached' \in BOOLEAN /\ (attached' => config.broker = "live")
  <2>1. CASE config.broker = "live"
    BY <1>3, <2>1 DEF PricesReturn
  <2>2. CASE config.broker # "live"
    <3>1. /\ stage' = "broker" /\ log' = log \o <<>>
          /\ artifacts' = artifacts \union {}
          /\ machine' = machine /\ result' = result /\ outcome' = outcome
          /\ attached' = FALSE
      BY <1>3, <2>2 DEF PricesReturn, Await
    <3>2. log \o <<>> = log
      BY <1>2, ConcatEmptySeq
    <3> QED
      BY <3>1, <3>2
  <2> QED
    BY <2>1, <2>2
<1>5. TypeOK'
  BY <1>1, <1>2, <1>4 DEF RunInv, TypeOK, RunnerTypeOK, queueVars, Stages
<1>6. StageInv'
  BY <1>1, <1>2, <1>4 DEF RunInv, StageInv, StateAt, Gathered, Kinds
<1>7. QueueInv' /\ ContextReleased' /\ ResultTellsTheEnd'
  BY <1>1, <1>2, <1>4
     DEF RunInv, QueueInv, ContextReleased, ResultTellsTheEnd, queueVars
<1>8. TradeIsJustified'
  <2>1. /\ Audited \union {"decision", "feasible_action"} \subseteq artifacts
        /\ tokens <= TokenCap /\ Kinds({"POLICY_GATEWAY_APPLIED"}) # {}
    BY <1>1, <1>2 DEF RunInv, StageInv, Gathered
  <2>2. Kinds({"POLICY_GATEWAY_APPLIED"})' # {}
    BY <1>4, <2>1 DEF Kinds
  <2> QED
    BY <1>1, <1>4, <2>1, <2>2 DEF TradeIsJustified, Audited, Scrutinized
<1> QED
  BY <1>1, <1>4, <1>5, <1>6, <1>7, <1>8 DEF RunInv

-----------------------------------------------------------------------------
(* What each step of a run does, as one of these ways.                     *)

(* The events that tell what the awaited call answered, before anything    *)
(* that follows from it: what an agent reported, with the gateway's        *)
(* projection after a decider, or what a paper broker did.                 *)
Answers(e) ==
  \/ /\ stage \in AgentNames /\ e = <<Event("AGENT_SUCCEEDED", stage)>>
  \/ /\ stage = "decider"
     /\ e = <<Event("AGENT_SUCCEEDED", stage),
              Event("POLICY_GATEWAY_APPLIED", "")>>
  \/ stage = "broker" /\ (e = <<>> \/ e = <<Event("BROKER_EXECUTED", "")>>)
  \/ stage = "backtest" /\ e = <<>>

(* The same before an abort. *)
Failures(e) ==
  \/ /\ stage \in AgentNames
     /\ e = <<Event("AGENT_SUCCEEDED", stage), Event("BUDGET_EXCEEDED", "")>>
  \/ stage \in AgentNames /\ e = <<Event("AGENT_FAILED", stage)>>
  \/ stage \in {"backtest", "prices"} /\ e = <<>>

RunAborts == \E e \in Seq(CycleEvent) : Failures(e) /\ Abort(e)

RunCompletes ==
  \E e \in Seq(CycleEvent), new \in SUBSET Artifacts, terminal \in States :
    Answers(e) /\ CompletesWith(new, terminal) /\ Complete(e, new, terminal)

RunAdvances ==
  \E e \in Seq(CycleEvent), artifact \in Artifacts, dst \in States,
     agent \in AgentNames :
    /\ Answers(e) /\ AdvancesTo(artifact, dst, agent)
    /\ Advance(e, artifact, dst, agent)

RunAwaits ==
  \E e \in Seq(CycleEvent), new \in SUBSET Artifacts, next \in Stages :
    /\ Answers(e) /\ Await(e, new, next)
    /\ \/ stage = "research" /\ next = "backtest" /\ new = {"research"}
       \/ /\ stage = "decider" /\ next = "prices" /\ config.gateway
          /\ new = {"decision", "feasible_action"}
          /\ Len(e) > 0 /\ e[Len(e)].kind = "POLICY_GATEWAY_APPLIED"

(* The answers and failures are events. *)
LEMMA AnswersTyped ==
  ASSUME stage \in AgentNames
  PROVE  /\ <<Event("AGENT_SUCCEEDED", stage)>> \in Seq(CycleEvent)
         /\ <<Event("AGENT_FAILED", stage)>> \in Seq(CycleEvent)
         /\ <<Event("AGENT_SUCCEEDED", stage), Event("BUDGET_EXCEEDED", "")>>
              \in Seq(CycleEvent)
         /\ <<Event("AGENT_SUCCEEDED", stage), Event("POLICY_GATEWAY_APPLIED", "")>>
              \in Seq(CycleEvent)
         /\ <<Event("AGENT_SUCCEEDED", stage)>> \o <<Event("BUDGET_EXCEEDED", "")>>
              = <<Event("AGENT_SUCCEEDED", stage), Event("BUDGET_EXCEEDED", "")>>
         /\ <<Event("AGENT_SUCCEEDED", stage)>> \o <<Event("POLICY_GATEWAY_APPLIED", "")>>
              = <<Event("AGENT_SUCCEEDED", stage), Event("POLICY_GATEWAY_APPLIED", "")>>
<1> DEFINE s == Event("AGENT_SUCCEEDED", stage)
           f == Event("AGENT_FAILED", stage)
           b == Event("BUDGET_EXCEEDED", "")
           g == Event("POLICY_GATEWAY_APPLIED", "")
<1>1. s \in CycleEvent /\ f \in CycleEvent /\ b \in CycleEvent /\ g \in CycleEvent
  BY DEF Event, CycleEvent, CycleEventKind
<1> HIDE DEF s, f, b, g
<1>2. <<s>> \o <<b>> = <<s, b>> /\ <<s>> \o <<g>> = <<s, g>>
  BY <1>1, Joined
<1>3. /\ <<s>> \in Seq(CycleEvent) /\ <<f>> \in Seq(CycleEvent)
      /\ <<s, b>> \in Seq(CycleEvent) /\ <<s, g>> \in Seq(CycleEvent)
  BY <1>1
<1> QED
  BY <1>2, <1>3 DEF s, f, b, g

(* An agent's answer within the budget. *)
LEMMA ContinueWays ==
  ASSUME RunInv, stage \in AgentNames,
         Continue(stage, <<Event("AGENT_SUCCEEDED", stage)>>)
  PROVE  RunCompletes \/ RunAdvances \/ RunAwaits
<1> DEFINE s == <<Event("AGENT_SUCCEEDED", stage)>>
           sg == <<Event("AGENT_SUCCEEDED", stage), Event("POLICY_GATEWAY_APPLIED", "")>>
<1>1. /\ s \in Seq(CycleEvent) /\ sg \in Seq(CycleEvent)
      /\ s \o <<Event("POLICY_GATEWAY_APPLIED", "")>> = sg
      /\ Answers(s) /\ (stage = "decider" => Answers(sg))
      /\ Len(sg) > 0 /\ sg[Len(sg)].kind = "POLICY_GATEWAY_APPLIED"
  <2>1. Len(sg) = 2 /\ sg[2].kind = "POLICY_GATEWAY_APPLIED"
    BY DEF Event
  <2>2. /\ s \in Seq(CycleEvent) /\ sg \in Seq(CycleEvent)
        /\ s \o <<Event("POLICY_GATEWAY_APPLIED", "")>> = sg
    BY AnswersTyped
  <2>3. Answers(s) /\ (stage = "decider" => Answers(sg))
    BY DEF Answers
  <2> HIDE DEF s, sg
  <2>4. Len(sg) > 0 /\ sg[Len(sg)].kind = "POLICY_GATEWAY_APPLIED"
    BY <2>1
  <2> QED
    BY <2>2, <2>3, <2>4
<1> HIDE DEF s, sg
<1>2. Continue(stage, s)
  BY DEF s
<1>3. CASE stage \in DOMAIN NextAgent
           /\ Advance(s, stage, NextState[stage], NextAgent[stage])
  <2>1. stage \in {"observer", "hypothesis"}
    BY <1>3 DEF NextAgent
  <2>2. /\ AdvancesTo(stage, NextState[stage], NextAgent[stage])
        /\ stage \in Artifacts /\ NextState[stage] \in States
        /\ NextAgent[stage] \in AgentNames
    <3>1. CASE stage = "observer"
      <4>1. NextState[stage] = "HYPOTHESIZING" /\ NextAgent[stage] = "hypothesis"
        BY <3>1 DEF NextState, NextAgent
      <4> QED
        BY <3>1, <4>1 DEF AdvancesTo, Artifacts, States, AgentNames
    <3>2. CASE stage = "hypothesis"
      <4>1. NextState[stage] = "SCRUTINIZING" /\ NextAgent[stage] = "skeptic"
        BY <3>2 DEF NextState, NextAgent
      <4> QED
        BY <3>2, <4>1 DEF AdvancesTo, Artifacts, States, AgentNames
    <3> QED
      BY <2>1, <3>1, <3>2
  <2> QED
    BY <1>1, <1>3, <2>2 DEF RunAdvances
<1>4. CASE stage = "skeptic"
           /\ Advance(s, "skeptic PROCEED", "RESEARCHING", "research")
  <2>1. AdvancesTo("skeptic PROCEED", "RESEARCHING", "research")
    BY <1>4 DEF AdvancesTo
  <2> QED
    BY <1>1, <1>4, <2>1 DEF RunAdvances, Artifacts, States, AgentNames
<1>5. CASE stage = "skeptic" /\ Complete(s, {"skeptic KILL"}, "SCRUTINIZING")
  <2>1. CompletesWith({"skeptic KILL"}, "SCRUTINIZING")
    BY <1>5 DEF CompletesWith
  <2> QED
    BY <1>1, <1>5, <2>1 DEF RunCompletes, Artifacts, States
<1>6. CASE stage = "research" /\ Await(s, {"research"}, "backtest")
  BY <1>1, <1>6 DEF RunAwaits, Artifacts, Stages
<1>7. CASE stage = "auditor" /\ Advance(s, "audit PASS", "DECIDING", "decider")
  <2>1. AdvancesTo("audit PASS", "DECIDING", "decider")
    BY <1>7 DEF AdvancesTo
  <2> QED
    BY <1>1, <1>7, <2>1 DEF RunAdvances, Artifacts, States, AgentNames
<1>8. CASE stage = "auditor" /\ Complete(s, {"audit FAIL"}, "AUDITING")
  <2>1. CompletesWith({"audit FAIL"}, "AUDITING")
    BY <1>8 DEF CompletesWith
  <2> QED
    BY <1>1, <1>8, <2>1 DEF RunCompletes, Artifacts, States
<1>9. CASE stage = "decider" /\ Complete(s, {"decision"}, "DECIDING")
  <2>1. CompletesWith({"decision"}, "DECIDING")
    BY <1>9 DEF CompletesWith
  <2> QED
    BY <1>1, <1>9, <2>1 DEF RunCompletes, Artifacts, States
<1>10. CASE stage = "decider"
            /\ Complete(sg, {"decision", "feasible_action"}, "DECIDING")
  <2>1. CompletesWith({"decision", "feasible_action"}, "DECIDING")
    BY <1>10 DEF CompletesWith
  <2> QED
    BY <1>1, <1>10, <2>1 DEF RunCompletes, Artifacts, States
<1>11. CASE stage = "decider" /\ config.gateway
            /\ Await(sg, {"decision", "feasible_action"}, "prices")
  <2> DEFINE new == {"decision", "feasible_action"}
  <2>1. new \in SUBSET Artifacts /\ "prices" \in Stages
    BY DEF Artifacts, Stages
  <2> HIDE DEF new
  <2>2. /\ sg \in Seq(CycleEvent) /\ Answers(sg) /\ Await(sg, new, "prices")
        /\ stage = "decider" /\ config.gateway /\ Len(sg) > 0
        /\ sg[Len(sg)].kind = "POLICY_GATEWAY_APPLIED"
    BY <1>1, <1>11 DEF new
  <2> QED
    BY <2>1, <2>2, Zenon DEF RunAwaits, new
<1> QED
  BY <1>1, <1>2, <1>3, <1>4, <1>5, <1>6, <1>7, <1>8, <1>9, <1>10, <1>11
     DEF Continue, Decided, AuditPassed

(* Every step of a run aborts it, completes it, lets it go on to the next  *)
(* agent or another await, or raises.                                      *)
LEMMA RunnerWays ==
  ASSUME RunInv, RunnerStep
  PROVE  /\ stage # "none" /\ config' = config /\ tokens' \in Nat
         /\ \/ RunAborts
            \/ tokens' <= TokenCap /\ (RunCompletes \/ RunAdvances \/ RunAwaits)
            \/ Raise /\ tokens' = tokens
            \/ PricesReturn
<1> USE DEF AgentNames
<1>1. tokens \in Nat
  BY DEF RunInv, TypeOK, RunnerTypeOK
<1>2. <<>> \in Seq(CycleEvent)
  BY EmptySeq
<1>3. CASE AgentSucceeds
  <2>1. PICK spent \in 0..MaxTokens, late \in BOOLEAN :
          LET succeeded == <<Event("AGENT_SUCCEEDED", stage)>>
          IN /\ tokens' = tokens + spent
             /\ IF OverBudget(spent) \/ late
                THEN Abort(succeeded \o <<Event("BUDGET_EXCEEDED", "")>>)
                ELSE Continue(stage, succeeded)
    BY <1>3, Zenon DEF AgentSucceeds
  <2>2. stage \in AgentNames /\ stage # "none" /\ config' = config
    BY <1>3 DEF AgentSucceeds
  <2>3. tokens' \in Nat
    <3>1. MaxTokens \in Nat
      BY CycleRunnerAssumption
    <3>2. tokens' = tokens + spent
      BY <2>1
    <3> QED
      BY <1>1, <3>1, <3>2
  <2>4. CASE OverBudget(spent) \/ late
    <3>1. Abort(<<Event("AGENT_SUCCEEDED", stage), Event("BUDGET_EXCEEDED", "")>>)
      BY <2>1, <2>2, <2>4, AnswersTyped
    <3>2. Failures(<<Event("AGENT_SUCCEEDED", stage), Event("BUDGET_EXCEEDED", "")>>)
      BY <2>2 DEF Failures
    <3> QED
      BY <2>2, <2>3, <3>1, <3>2, AnswersTyped DEF RunAborts
  <2>5. CASE ~(OverBudget(spent) \/ late)
    <3>1. Continue(stage, <<Event("AGENT_SUCCEEDED", stage)>>)
      BY <2>1, <2>5
    <3>2. tokens' <= TokenCap
      BY <1>1, <2>1, <2>5, CycleRunnerAssumption DEF OverBudget
    <3> QED
      BY <2>2, <2>3, <3>1, <3>2, ContinueWays
  <2> QED
    BY <2>4, <2>5
<1>4. CASE AgentFails
  <2>1. Failures(<<Event("AGENT_FAILED", stage)>>)
    BY <1>4 DEF AgentFails, Failures
  <2> QED
    BY <1>1, <1>4, <2>1, AnswersTyped DEF AgentFails, RunAborts
<1>5. CASE BacktestReturns
  <2>1. /\ stage = "backtest" /\ tokens' = tokens /\ config' = config
        /\ Advance(<<>>, "backtest", "AUDITING", "auditor")
    BY <1>5 DEF BacktestReturns
  <2>2. Answers(<<>>) /\ AdvancesTo("backtest", "AUDITING", "auditor")
    BY <2>1 DEF Answers, AdvancesTo
  <2>3. RunAdvances
    BY <1>2, <2>1, <2>2 DEF RunAdvances, Artifacts, States
  <2>4. tokens <= TokenCap
    BY <2>1 DEF RunInv, StageInv
  <2> QED
    BY <1>1, <2>1, <2>3, <2>4
<1>6. CASE CallFails
  <2>1. Failures(<<>>)
    BY <1>6 DEF CallFails, Failures
  <2> QED
    BY <1>1, <1>2, <1>6, <2>1 DEF CallFails, RunAborts
<1>7. CASE PricesReturn
  BY <1>1, <1>7 DEF PricesReturn
<1>8. CASE BrokerReturns
  <2> DEFINE e == IF config.broker = "paper" THEN <<Event("BROKER_EXECUTED", "")>>
                                             ELSE <<>>
  <2>1. /\ stage = "broker" /\ tokens' = tokens /\ config' = config
        /\ Complete(e, {"execution_report"}, "DECIDING")
    BY <1>8 DEF BrokerReturns
  <2>2. Event("BROKER_EXECUTED", "") \in CycleEvent
    BY DEF Event, CycleEvent, CycleEventKind
  <2>3. e \in Seq(CycleEvent) /\ Answers(e)
    <3>1. CASE config.broker = "paper"
      <4>1. e = <<Event("BROKER_EXECUTED", "")>>
        BY <3>1
      <4>2. e \in Seq(CycleEvent)
        BY <2>2, <4>1, OneEvent
      <4> HIDE DEF e
      <4>3. Answers(e)
        BY <2>1, <4>1 DEF Answers
      <4> QED
        BY <4>2, <4>3
    <3>2. CASE config.broker # "paper"
      BY <1>2, <2>1, <3>2 DEF Answers
    <3> QED
      BY <3>1, <3>2
  <2>4. CompletesWith({"execution_report"}, "DECIDING")
    BY <2>1 DEF CompletesWith
  <2>5. {"execution_report"} \in SUBSET Artifacts /\ "DECIDING" \in States
    BY DEF Artifacts, States
  <2> HIDE DEF e
  <2>6. RunCompletes
    BY <2>1, <2>3, <2>4, <2>5 DEF RunCompletes
  <2>7. tokens <= TokenCap
    BY <2>1 DEF RunInv, StageInv
  <2> QED
    BY <1>1, <2>1, <2>6, <2>7
<1>9. CASE CallRaises
  BY <1>1, <1>9 DEF CallRaises
<1> QED
  BY <1>3, <1>4, <1>5, <1>6, <1>7, <1>8, <1>9 DEF RunnerStep

(* A step of the run keeps the invariant. *)
LEMMA RunnerKeeps ==
  ASSUME RunInv, RunnerStep, UNCHANGED queueVars
  PROVE  RunInv'
<1>1. stage # "none" /\ config' = config /\ tokens' \in Nat
  BY RunnerWays
<1>2. CASE RunAborts
  BY <1>1, <1>2, AbortKeeps DEF RunAborts
<1>3. CASE tokens' <= TokenCap /\ RunCompletes
  BY <1>1, <1>3, CompleteKeeps DEF RunCompletes
<1>4. CASE tokens' <= TokenCap /\ RunAdvances
  BY <1>1, <1>4, AdvanceKeeps DEF RunAdvances
<1>5. CASE tokens' <= TokenCap /\ RunAwaits
  BY <1>1, <1>5, AwaitKeeps DEF RunAwaits
<1>6. CASE Raise /\ tokens' = tokens
  BY <1>1, <1>6, RaiseKeeps
<1>7. CASE PricesReturn
  BY <1>7, PricesKeep
<1> QED
  BY <1>2, <1>3, <1>4, <1>5, <1>6, <1>7, RunnerWays

-----------------------------------------------------------------------------
(* The queue around the run. *)

(* What a begun run leaves in the log. *)
Opening == <<Event("CYCLE_STARTED", ""), Transition("IDLE", "OBSERVING"),
             Event("AGENT_INVOKED", "observer")>>

(* A run begins with a clean slate, whatever the last one left behind. *)
LEMMA RunBegins ==
  ASSUME RunInv, stage = "none", Run
  PROVE  /\ RunnerTypeOK' /\ StageInv' /\ ContextReleased'
         /\ TradeIsJustified' /\ ResultTellsTheEnd'
         /\ stage' = "observer" /\ outcome' = "none"
         /\ machine' = "OBSERVING" /\ log' = Opening
         /\ Opening \in Seq(CycleEvent)
<1> DEFINE b == Event("CYCLE_STARTED", "")
           t == Transition("IDLE", "OBSERVING")
           i == Event("AGENT_INVOKED", "observer")
<1>1. b \in CycleEvent /\ t \in CycleEvent /\ i \in CycleEvent
  BY DEF Event, Transition, CycleEvent, CycleEventKind, States, AgentNames
<1>2. /\ Moved("IDLE", "OBSERVING") = "OBSERVING"
      /\ MoveEvents("IDLE", "OBSERVING") = <<t>>
  BY DEF Moved, MoveEvents, ValidTransitions, Transition
<1>3. /\ stage' = "observer" /\ machine' = "OBSERVING" /\ tokens' = 0
      /\ artifacts' = {} /\ outcome' = "none" /\ config' = config
      /\ attached' = attached /\ result' = result
      /\ log' = <<b>> \o <<t>> \o <<i>>
  BY <1>2 DEF Run, Invoked
<1> HIDE DEF b, t, i
<1>4. log' = <<b, t, i>>
  <2>1. <<b>> \o <<t>> = <<b, t>> /\ <<b, t>> \o <<i>> = <<b, t, i>>
    BY <1>1, Joined
  <2> QED
    BY <1>3, <2>1
<1>5. <<b, t, i>> \in Seq(CycleEvent) /\ <<b, t, i>> # <<>>
  BY <1>1
<1>6. attached = FALSE
  BY Zenon DEF RunInv, ContextReleased, TypeOK, RunnerTypeOK
<1>7. RunnerTypeOK'
  BY <1>3, <1>4, <1>5, <1>6 DEF RunInv, TypeOK, RunnerTypeOK, Stages, AgentNames, States
<1>8. StageInv'
  <2>1. artifacts' = Gathered("observer") /\ machine' = StateAt("observer")
    BY <1>3 DEF Gathered, StateAt
  <2>2. tokens' <= TokenCap
    BY <1>3, CycleRunnerAssumption
  <2> QED
    BY <1>3, <1>4, <1>5, <2>1, <2>2 DEF StageInv
<1>9. ContextReleased' /\ TradeIsJustified' /\ ResultTellsTheEnd'
  BY <1>3, <1>6 DEF ContextReleased, TradeIsJustified, ResultTellsTheEnd
<1> QED
  BY <1>3, <1>4, <1>5, <1>7, <1>8, <1>9 DEF Opening, b, t, i

(* The next request is taken from the head of the queue. *)
LEMMA RunGuardedTakes ==
  ASSUME RunInv, RunGuarded
  PROVE  /\ pending # <<>> /\ current' = Head(pending) /\ pending' = Tail(pending)
         /\ running' = TRUE /\ Run
         /\ current' \in Items /\ pending' \in Seq(Items)
<1>1. pending \in Seq(Items)
  BY DEF RunInv, TypeOK
<1>2. /\ pending # <<>> /\ current' = Head(pending) /\ pending' = Tail(pending)
      /\ running' = TRUE /\ Run
  BY DEF RunGuarded
<1> QED
  BY <1>1, <1>2, HeadTailProperties

(* run_one or drain takes up a request. *)
LEMMA BeginKeeps ==
  ASSUME RunInv, RunOne \/ Drain
  PROVE  RunInv'
<1>1. /\ outcome = "none" /\ running = FALSE /\ RunGuarded /\ closed' = closed
      /\ driver' \in {"run_one", "drain"}
  BY Zenon DEF RunOne, Drain, LoopIsFree, MayRun, RunInv, TypeOK
<1>2. driver = "none" /\ stage = "none" /\ current = 0
  BY <1>1 DEF RunInv, TypeOK, QueueInv
<1>3. /\ Run /\ running' = TRUE /\ current' \in Items /\ pending' \in Seq(Items)
  BY <1>1, RunGuardedTakes
<1>4. /\ RunnerTypeOK' /\ StageInv' /\ ContextReleased'
      /\ TradeIsJustified' /\ ResultTellsTheEnd' /\ stage' = "observer"
  BY <1>2, <1>3, RunBegins
<1>5. current' # 0
  BY <1>3, CycleQueueAssumption DEF Items
<1>6. driver' # "none"
  BY <1>1
<1>7. TypeOK'
  BY <1>1, <1>3, <1>4, <1>6, Zenon DEF RunInv, TypeOK
<1>8. QueueInv'
  BY <1>4, <1>5, <1>6 DEF QueueInv
<1> QED
  BY <1>4, <1>7, <1>8 DEF RunInv

(* A run that ended is handed to its caller, who goes on or leaves. *)
LEMMA FinishKeeps ==
  ASSUME RunInv, FinishRun
  PROVE  RunInv'
<1>1. outcome # "none" /\ closed' = Append(closed, current)
  BY DEF FinishRun
<1>2. stage = "none" /\ driver # "none" /\ current # 0
  BY <1>1 DEF RunInv, QueueInv, StageInv
<1>3. closed' \in Seq(Items)
  <2>1. closed \in Seq(Items) /\ current \in Items
    BY <1>2 DEF RunInv, TypeOK
  <2> QED
    BY <1>1, <2>1, AppendProperties
<1>4. CASE NextRun /\ pending # <<>>
  <2>1. RunGuarded /\ driver' = driver
    BY <1>4 DEF FinishRun
  <2>2. /\ Run /\ running' = TRUE /\ current' \in Items /\ pending' \in Seq(Items)
    BY <2>1, RunGuardedTakes
  <2>3. /\ RunnerTypeOK' /\ StageInv' /\ ContextReleased'
        /\ TradeIsJustified' /\ ResultTellsTheEnd' /\ stage' = "observer"
    BY <1>2, <2>2, RunBegins
  <2>4. current' # 0
    BY <2>2, CycleQueueAssumption DEF Items
  <2>5. TypeOK'
    BY <1>2, <1>3, <2>1, <2>2, <2>3, Zenon DEF RunInv, TypeOK
  <2>6. QueueInv'
    BY <1>2, <2>1, <2>3, <2>4 DEF QueueInv
  <2> QED
    BY <2>3, <2>5, <2>6 DEF RunInv
<1>5. CASE ~(NextRun /\ pending # <<>>)
  <2>1. /\ driver' = "none" /\ current' = 0 /\ running' = FALSE
        /\ outcome' = "none"
        /\ UNCHANGED <<config, stage, machine, tokens, artifacts, log,
                       attached, result, pending>>
    BY <1>5 DEF FinishRun, FlagAfterRun
  <2>2. TypeOK'
    BY <1>3, <2>1 DEF RunInv, TypeOK, RunnerTypeOK
  <2>3. StageInv' /\ QueueInv' /\ ContextReleased' /\ ResultTellsTheEnd'
    BY <1>2, <2>1 DEF RunInv, StageInv, QueueInv, ContextReleased, ResultTellsTheEnd
  <2>4. TradeIsJustified'
    BY <2>1 DEF RunInv, TradeIsJustified, Kinds
  <2> QED
    BY <2>2, <2>3, <2>4 DEF RunInv
<1> QED
  BY <1>4, <1>5

(* A request joins the queue. *)
LEMMA EnqueueKeeps ==
  ASSUME RunInv, Enqueue
  PROVE  RunInv' /\ UNCHANGED runnerVars
<1>1. /\ pending \in Seq(Items) /\ closed \in Seq(Items)
      /\ Submitted < MaxItems /\ pending' = Append(pending, Submitted + 1)
      /\ UNCHANGED <<runnerVars, running, driver, current, closed>>
  BY DEF RunInv, TypeOK, Enqueue
<1>2. Submitted + 1 \in Items
  <2>1. Len(pending) \in Nat /\ Len(closed) \in Nat
    BY <1>1, LenProperties
  <2> QED
    BY <1>1, <2>1, CycleQueueAssumption DEF Submitted, Items
<1>3. pending' \in Seq(Items)
  BY <1>1, <1>2, AppendProperties
<1>4. UNCHANGED runnerVars
  BY <1>1
<1>5. TypeOK'
  BY <1>1, <1>3 DEF RunInv, TypeOK, RunnerTypeOK, runnerVars
<1>6. StageInv' /\ QueueInv' /\ ContextReleased' /\ TradeIsJustified'
      /\ ResultTellsTheEnd'
  BY <1>1 DEF RunInv, StageInv, QueueInv, ContextReleased, TradeIsJustified,
              ResultTellsTheEnd, Kinds, runnerVars
<1> QED
  BY <1>4, <1>5, <1>6 DEF RunInv

-----------------------------------------------------------------------------
(* The invariant of runs. *)

(* A process starts with nothing running. *)
LEMMA RunInit == Init => RunInv
<1> SUFFICES ASSUME Init PROVE RunInv
  OBVIOUS
<1>1. /\ config \in Config /\ stage = "none" /\ machine = "IDLE" /\ tokens = 0
      /\ artifacts = {} /\ log = <<>> /\ attached = FALSE /\ result = NoResult
      /\ outcome = "none" /\ pending = <<>> /\ running = FALSE
      /\ driver = "none" /\ current = 0 /\ closed = <<>>
  BY CycleRunnerAssumption DEF Init, RunnerInit
<1>2. NoResult \in CycleResult
  BY DEF NoResult, CycleResult, States
<1>3. TypeOK
  <2>1. RunnerTypeOK
    BY <1>1, <1>2, EmptySeq DEF RunnerTypeOK, Stages, States
  <2>2. pending \in Seq(Items) /\ closed \in Seq(Items)
    BY <1>1, EmptySeq
  <2> QED
    BY <1>1, <2>1, <2>2, Zenon DEF TypeOK
<1> QED
  BY <1>1, <1>3 DEF RunInv, StageInv, QueueInv, ContextReleased,
                    TradeIsJustified, ResultTellsTheEnd

(* Every step of the queue and of the runner keeps it. *)
LEMMA RunNext == RunInv /\ [Next]_vars => RunInv'
<1> SUFFICES ASSUME RunInv, [Next]_vars PROVE RunInv'
  OBVIOUS
<1>1. CASE Enqueue
  BY <1>1, EnqueueKeeps
<1>2. CASE RunOne \/ Drain
  BY <1>2, BeginKeeps
<1>3. CASE Step
  BY <1>3, RunnerKeeps DEF Step
<1>4. CASE FinishRun
  BY <1>4, FinishKeeps
<1>5. CASE UNCHANGED vars
  BY <1>5 DEF vars, runnerVars, queueVars, RunInv, TypeOK, RunnerTypeOK,
              StageInv, QueueInv, ContextReleased, TradeIsJustified,
              ResultTellsTheEnd, Kinds
<1> QED
  BY <1>1, <1>2, <1>3, <1>4, <1>5 DEF Next

(* At every await the cycle has gathered exactly what the steps before it  *)
(* give, its machine is where they lead and its budget is kept; and one    *)
(* driver has one request in progress.                                     *)
THEOREM RunInvariant == Spec => []RunInv
BY RunInit, RunNext, PTL DEF Spec

(* The properties of the runs are parts of it. *)

(* Every reachable state of the queue and the runner is well typed.        *)
THEOREM TypeCorrect == Spec => []TypeOK
BY RunInvariant, PTL DEF RunInv

(* The broker is asked, and an execution report kept, only in a cycle all  *)
(* of whose steps succeeded within the token budget and whose decision     *)
(* went through the policy gateway.                                        *)
THEOREM TradeIsJustifiedHolds == Spec => []TradeIsJustified
BY RunInvariant, PTL DEF RunInv

(* A returned result and the last event of its log tell the same end.      *)
THEOREM ResultTellsTheEndHolds == Spec => []ResultTellsTheEnd
BY RunInvariant, PTL DEF RunInv

(* A live broker holds a cycle's context only while that cycle awaits it.  *)
THEOREM ContextReleasedHolds == Spec => []ContextReleased
BY RunInvariant, PTL DEF RunInv

-----------------------------------------------------------------------------
(* The story the log tells. *)

(* What one step may add to the log while the machine goes to dst: the     *)
(* answer of the awaited agent first, at most one move and that the        *)
(* machine's, an invocation or a terminal event only last, and nothing but *)
(* the abort after a failure.                                              *)
Fits(e, dst) ==
  /\ e # <<>> /\ stage \in AgentNames =>
       /\ e[1].kind \in {"AGENT_SUCCEEDED", "AGENT_FAILED"}
       /\ e[1].of = stage
  /\ \A j \in 1..Len(e) :
       /\ j # Len(e) =>
            e[j].kind \notin {"AGENT_INVOKED", "CYCLE_COMPLETED", "CYCLE_ABORTED"}
       /\ e[j].kind \in {"AGENT_FAILED", "BUDGET_EXCEEDED"} =>
            Len(e) = j + 2 /\ e[j + 2].kind = "CYCLE_ABORTED"
       /\ e[j].kind = "STATE_TRANSITION" =>
            /\ e[j].of = machine /\ e[j].to = dst
            /\ \A k \in 1..Len(e) : e[k].kind = "STATE_TRANSITION" => k = j
  /\ \/ \E j \in 1..Len(e) : e[j].kind = "STATE_TRANSITION"
     \/ dst = machine

(* A log that tells a story so far still does after events that fit.       *)
LEMMA StoryGrows ==
  ASSUME StoryInv, stage # "none", NEW e \in Seq(CycleEvent),
         log' = log \o e, Fits(e, machine'),
         outcome' = "returned"
           => machine' = IF result'.aborted THEN "ERROR" ELSE "IDLE"
  PROVE  EventProtocol'
<1> DEFINE n == Len(log)
           m == Len(e)
<1>1. /\ stage \in AgentNames \union {"backtest", "prices", "broker"}
      /\ log \in Seq(CycleEvent) /\ n \in Nat \ {0}
  BY AtStage DEF StoryInv
<1>2. /\ log' \in Seq(CycleEvent) /\ m \in Nat /\ Len(log') = n + m
      /\ \A i \in 1..n : log'[i] = log[i]
      /\ \A j \in 1..m : log'[n + j] = e[j]
  BY <1>1, LogGrows
<1>3. \A i \in 1..Len(log') : i \in 1..n \/ \E j \in 1..m : i = n + j
  <2> SUFFICES ASSUME NEW i \in 1..Len(log'), i \notin 1..n
               PROVE  \E j \in 1..m : i = n + j
    OBVIOUS
  <2>1. i - n \in 1..m /\ i = n + (i - n)
    BY <1>1, <1>2
  <2> QED
    BY <2>1
<1>4. log'[1].kind = "CYCLE_STARTED"
  <2>1. log[1].kind = "CYCLE_STARTED"
    BY <1>1, EmptySeq DEF StoryInv, EventProtocol
  <2> QED
    BY <1>1, <1>2, <2>1
<1>5. \A i \in Kinds({"AGENT_INVOKED"})' \ {Len(log')} :
        /\ log'[i + 1].kind \in {"AGENT_SUCCEEDED", "AGENT_FAILED"}
        /\ log'[i + 1].of = log'[i].of
  <2> SUFFICES ASSUME NEW i \in 1..Len(log'), i # Len(log'),
                      log'[i].kind = "AGENT_INVOKED"
               PROVE  /\ log'[i + 1].kind \in {"AGENT_SUCCEEDED", "AGENT_FAILED"}
                      /\ log'[i + 1].of = log'[i].of
    BY DEF Kinds
  <2>1. CASE i \in 1..n /\ i # n
    <3>1. i + 1 \in 1..n /\ log'[i] = log[i] /\ log'[i + 1] = log[i + 1]
      BY <1>1, <1>2, <2>1
    <3>2. i \in Kinds({"AGENT_INVOKED"}) \ {n}
      BY <2>1, <3>1 DEF Kinds
    <3> QED
      BY <3>1, <3>2 DEF StoryInv, EventProtocol
  <2>2. CASE i = n
    <3>1. log'[i] = log[n] /\ log[n].kind = "AGENT_INVOKED"
      BY <1>1, <1>2, <2>2
    <3>2. stage \in AgentNames /\ log[n].of = stage
      <4>1. stage \in AgentNames
        BY <1>1, <3>1 DEF StoryInv, LogInv
      <4>2. log[n] = Event("AGENT_INVOKED", stage)
        BY <4>1 DEF StoryInv, LogInv
      <4>3. Event("AGENT_INVOKED", stage).of = stage
        BY DEF Event
      <4> QED
        BY <4>1, <4>2, <4>3
    <3>3. m > 0 /\ e # <<>> /\ log'[i + 1] = e[1]
      BY <1>1, <1>2, <2>2, EmptySeq
    <3> QED
      BY <3>1, <3>2, <3>3 DEF Fits
  <2>3. CASE i \notin 1..n
    <3>1. PICK j \in 1..m : i = n + j
      BY <1>3, <2>3
    <3>2. j # m /\ e[j].kind = "AGENT_INVOKED"
      BY <1>2, <3>1
    <3> QED
      BY <3>2 DEF Fits
  <2> QED
    BY <2>1, <2>2, <2>3
<1>6. \A i \in Kinds({"AGENT_FAILED", "BUDGET_EXCEEDED"})' :
        Len(log') = i + 2 /\ log'[i + 2].kind = "CYCLE_ABORTED"
  <2> SUFFICES ASSUME NEW i \in 1..Len(log'),
                      log'[i].kind \in {"AGENT_FAILED", "BUDGET_EXCEEDED"}
               PROVE  Len(log') = i + 2 /\ log'[i + 2].kind = "CYCLE_ABORTED"
    BY DEF Kinds
  <2>1. i \notin 1..n
    <3> SUFFICES ASSUME i \in 1..n PROVE FALSE
      OBVIOUS
    <3>1. log[i].kind \in {"AGENT_FAILED", "BUDGET_EXCEEDED"}
      BY <1>2
    <3>2. i \in Kinds(Ends)
      BY <3>1 DEF Kinds, Ends
    <3> QED
      BY <3>2 DEF StoryInv, LogInv
  <2>2. PICK j \in 1..m : i = n + j
    BY <1>3, <2>1
  <2>3. m = j + 2 /\ e[j + 2].kind = "CYCLE_ABORTED"
    <3>1. e[j].kind \in {"AGENT_FAILED", "BUDGET_EXCEEDED"}
      BY <1>2, <2>2
    <3> QED
      BY <3>1 DEF Fits
  <2>4. j + 2 \in 1..m /\ n + (j + 2) = i + 2
    BY <1>1, <1>2, <2>2, <2>3
  <2> QED
    BY <1>1, <1>2, <2>2, <2>3, <2>4
<1>7. Kinds({"CYCLE_COMPLETED", "CYCLE_ABORTED"})' \subseteq {Len(log')}
  <2> SUFFICES ASSUME NEW i \in 1..Len(log'),
                      log'[i].kind \in {"CYCLE_COMPLETED", "CYCLE_ABORTED"}
               PROVE  i = Len(log')
    BY DEF Kinds
  <2>1. i \notin 1..n
    <3> SUFFICES ASSUME i \in 1..n PROVE FALSE
      OBVIOUS
    <3>1. log[i].kind \in {"CYCLE_COMPLETED", "CYCLE_ABORTED"}
      BY <1>2
    <3>2. i \in Kinds(Ends)
      BY <3>1 DEF Kinds, Ends
    <3> QED
      BY <3>2 DEF StoryInv, LogInv
  <2>2. PICK j \in 1..m : i = n + j
    BY <1>3, <2>1
  <2>3. e[j].kind \in {"CYCLE_COMPLETED", "CYCLE_ABORTED"}
    BY <1>2, <2>2
  <2>4. j = m
    BY <2>3 DEF Fits
  <2> QED
    BY <1>2, <2>2, <2>4
<1>8. NoTransitionRefused'
  <2>a. NoTransitionRefused
    BY DEF StoryInv, EventProtocol
  <2>b. \A i \in Moves : (\A j \in Moves : j >= i) => log[i].of = "IDLE"
    BY <2>a DEF NoTransitionRefused
  <2>c. \A i \in Moves : (\A j \in Moves : j <= i) => log[i].to = machine
    BY <2>a DEF NoTransitionRefused
  <2>d. \A i, j \in Moves :
          i < j /\ (\A k \in Moves : k <= i \/ k >= j)
            => log[i].to = log[j].of
    BY <2>a DEF NoTransitionRefused
  <2>1. \A i \in 1..n : i \in Moves' <=> i \in Moves
    BY <1>1, <1>2 DEF Moves, Kinds
  <2>2. \A j \in 1..m : n + j \in Moves' <=> e[j].kind = "STATE_TRANSITION"
    BY <1>1, <1>2 DEF Moves, Kinds
  <2>3. Moves \subseteq 1..n /\ Moves' \subseteq 1..Len(log') /\ Moves # {}
    BY <1>1, EmptySeq DEF Moves, Kinds, StoryInv, EventProtocol, NoTransitionRefused
  <2>4. Moves' # {}
    BY <2>1, <2>3
  <2>5. ASSUME NEW i \in Moves', \A j \in Moves' : j >= i
        PROVE  log'[i].of = "IDLE"
    <3>1. i \in 1..n
      <4>1. PICK j \in Moves : TRUE
        BY <2>3
      <4>2. j \in 1..n /\ j \in Moves' /\ i \in 1..Len(log')
        BY <2>1, <2>3, <4>1
      <4> QED
        BY <1>1, <1>2, <2>5, <4>2
    <3>2. i \in Moves /\ \A j \in Moves : j >= i
      BY <2>1, <2>3, <2>5, <3>1
    <3> QED
      BY <1>2, <2>b, <3>1, <3>2
  <2>6. ASSUME NEW i \in Moves', \A j \in Moves' : j <= i
        PROVE  log'[i].to = machine'
    <3>1. CASE i \in 1..n
      <4>1. i \in Moves /\ \A j \in Moves : j <= i
        BY <2>1, <2>3, <2>6, <3>1
      <4>2. log'[i].to = machine
        BY <1>2, <2>c, <3>1, <4>1
      <4>3. \A j \in 1..m : e[j].kind # "STATE_TRANSITION"
        BY <1>1, <1>2, <2>2, <2>6, <3>1
      <4> QED
        BY <4>2, <4>3 DEF Fits
    <3>2. CASE i \notin 1..n
      <4>1. PICK j \in 1..m : i = n + j
        BY <1>3, <2>3, <3>2
      <4> QED
        BY <1>2, <2>2, <4>1 DEF Fits
    <3> QED
      BY <3>1, <3>2
  <2>7. ASSUME NEW i \in Moves', NEW j \in Moves', i < j,
               \A k \in Moves' : k <= i \/ k >= j
        PROVE  log'[i].to = log'[j].of
    <3>1. CASE j \in 1..n
      <4>1. i \in 1..n /\ i \in Moves /\ j \in Moves
        BY <1>2, <2>1, <2>3, <2>7, <3>1
      <4>2. \A k \in Moves : k <= i \/ k >= j
        BY <2>1, <2>3, <2>7
      <4>3. log[i].to = log[j].of
        BY <2>d, <2>7, <4>1, <4>2
      <4> QED
        BY <1>2, <3>1, <4>1, <4>3
    <3>2. CASE j \notin 1..n
      <4>1. PICK q \in 1..m : j = n + q
        BY <1>3, <2>3, <3>2
      <4>2. /\ e[q].kind = "STATE_TRANSITION" /\ log'[j].of = machine
            /\ \A k \in 1..m : e[k].kind = "STATE_TRANSITION" => k = q
        BY <1>2, <2>2, <4>1 DEF Fits
      <4>3. i \in 1..n
        <5> SUFFICES ASSUME i \notin 1..n PROVE FALSE
          OBVIOUS
        <5>1. PICK k \in 1..m : i = n + k
          BY <1>3, <2>3
        <5>2. k = q
          BY <2>2, <4>2, <5>1
        <5> QED
          BY <1>1, <2>7, <4>1, <5>1, <5>2
      <4>4. i \in Moves /\ \A k \in Moves : k <= i
        BY <1>1, <2>1, <2>3, <2>7, <4>1, <4>3
      <4>5. log[i].to = machine
        BY <2>c, <4>4
      <4> QED
        BY <1>2, <4>2, <4>3, <4>5
    <3> QED
      BY <3>1, <3>2
  <2> QED
    BY <2>4, <2>5, <2>6, <2>7 DEF NoTransitionRefused
<1> QED
  BY <1>4, <1>5, <1>6, <1>7, <1>8 DEF EventProtocol

(* The entries of a sequence of one event. *)
LEMMA OneEntry ==
  ASSUME NEW a \in CycleEvent, NEW e, e = <<a>>
  PROVE  Len(e) = 1 /\ \A j \in 1..Len(e) : j = 1 /\ e[j] = a
OBVIOUS

(* The entries of a sequence of two. *)
LEMMA TwoEntries ==
  ASSUME NEW a \in CycleEvent, NEW b \in CycleEvent, NEW e, e = <<a, b>>
  PROVE  /\ Len(e) = 2
         /\ \A j \in 1..Len(e) : (j = 1 /\ e[j] = a) \/ (j = 2 /\ e[j] = b)
OBVIOUS

(* The events of an answer. *)
LEMMA AnswerEntries ==
  ASSUME stage # "none", NEW e \in Seq(CycleEvent), Answers(e)
  PROVE  /\ Len(e) \in {0, 1, 2}
         /\ \A j \in 1..Len(e) :
              e[j].kind \in {"AGENT_SUCCEEDED", "POLICY_GATEWAY_APPLIED",
                             "BROKER_EXECUTED"}
         /\ stage \in AgentNames =>
              /\ Len(e) > 0 /\ e[1].kind = "AGENT_SUCCEEDED"
              /\ e[1].of = stage
<1> DEFINE s == Event("AGENT_SUCCEEDED", stage)
           g == Event("POLICY_GATEWAY_APPLIED", "")
           b == Event("BROKER_EXECUTED", "")
<1>1. /\ s.kind = "AGENT_SUCCEEDED" /\ s.of = stage
      /\ g.kind = "POLICY_GATEWAY_APPLIED" /\ b.kind = "BROKER_EXECUTED"
  BY DEF Event
<1>2. /\ stage \in AgentNames => s \in CycleEvent
      /\ g \in CycleEvent /\ b \in CycleEvent
  BY DEF Event, CycleEvent, CycleEventKind
<1>3. "decider" \in AgentNames /\ "broker" \notin AgentNames
      /\ "backtest" \notin AgentNames
  BY DEF AgentNames
<1>4. \/ stage \in AgentNames /\ e = <<s>>
      \/ stage = "decider" /\ e = <<s, g>>
      \/ stage = "broker" /\ e = <<b>>
      \/ stage \in {"broker", "backtest"} /\ e = <<>>
  BY DEF Answers
<1> HIDE DEF s, g, b
<1>5. CASE stage \in AgentNames /\ e = <<s>>
  <2>1. Len(e) = 1 /\ \A j \in 1..Len(e) : j = 1 /\ e[j] = s
    BY <1>2, <1>5, OneEntry
  <2> QED
    BY <1>1, <2>1
<1>6. CASE stage = "decider" /\ e = <<s, g>>
  <2>1. /\ Len(e) = 2
        /\ \A j \in 1..Len(e) : (j = 1 /\ e[j] = s) \/ (j = 2 /\ e[j] = g)
    BY <1>2, <1>3, <1>6, TwoEntries
  <2> QED
    BY <1>1, <2>1
<1>7. CASE stage = "broker" /\ e = <<b>>
  <2>1. Len(e) = 1 /\ \A j \in 1..Len(e) : j = 1 /\ e[j] = b
    BY <1>2, <1>7, OneEntry
  <2> QED
    BY <1>1, <1>3, <1>7, <2>1
<1>8. CASE stage \in {"broker", "backtest"} /\ e = <<>>
  BY <1>3, <1>8
<1> QED
  BY <1>4, <1>5, <1>6, <1>7, <1>8

(* The events of a failure. *)
LEMMA FailureEntries ==
  ASSUME stage # "none", NEW e \in Seq(CycleEvent), Failures(e)
  PROVE  /\ Len(e) \in {0, 1, 2}
         /\ \A j \in 1..Len(e) :
              /\ e[j].kind \in {"AGENT_SUCCEEDED", "AGENT_FAILED", "BUDGET_EXCEEDED"}
              /\ e[j].kind \in {"AGENT_FAILED", "BUDGET_EXCEEDED"} => j = Len(e)
         /\ stage \in AgentNames =>
              /\ Len(e) > 0 /\ e[1].kind \in {"AGENT_SUCCEEDED", "AGENT_FAILED"}
              /\ e[1].of = stage
<1> DEFINE s == Event("AGENT_SUCCEEDED", stage)
           f == Event("AGENT_FAILED", stage)
           b == Event("BUDGET_EXCEEDED", "")
<1>1. /\ s.kind = "AGENT_SUCCEEDED" /\ s.of = stage
      /\ f.kind = "AGENT_FAILED" /\ f.of = stage /\ b.kind = "BUDGET_EXCEEDED"
  BY DEF Event
<1>2. /\ stage \in AgentNames => s \in CycleEvent /\ f \in CycleEvent
      /\ b \in CycleEvent
  BY DEF Event, CycleEvent, CycleEventKind
<1>3. "backtest" \notin AgentNames /\ "prices" \notin AgentNames
  BY DEF AgentNames
<1>4. \/ stage \in AgentNames /\ e = <<s, b>>
      \/ stage \in AgentNames /\ e = <<f>>
      \/ stage \in {"backtest", "prices"} /\ e = <<>>
  BY DEF Failures
<1> HIDE DEF s, f, b
<1>5. CASE stage \in AgentNames /\ e = <<s, b>>
  <2>1. /\ Len(e) = 2
        /\ \A j \in 1..Len(e) : (j = 1 /\ e[j] = s) \/ (j = 2 /\ e[j] = b)
    BY <1>2, <1>5, TwoEntries
  <2> QED
    BY <1>1, <2>1
<1>6. CASE stage \in AgentNames /\ e = <<f>>
  <2>1. Len(e) = 1 /\ \A j \in 1..Len(e) : j = 1 /\ e[j] = f
    BY <1>2, <1>6, OneEntry
  <2> QED
    BY <1>1, <2>1
<1>7. CASE stage \in {"backtest", "prices"} /\ e = <<>>
  BY <1>3, <1>7
<1> QED
  BY <1>4, <1>5, <1>6, <1>7

(* An answer or a failure, the move it leads to and what that comes to fit *)
(* the story.                                                              *)
LEMMA StoryFits ==
  ASSUME stage # "none", NEW f \in Seq(CycleEvent), NEW dst \in States,
         NEW y \in CycleEvent, machine \in States,
         Len(f) \in {0, 1, 2},
         \A j \in 1..Len(f) :
           /\ f[j].kind \notin {"AGENT_INVOKED", "CYCLE_COMPLETED",
                                "CYCLE_ABORTED", "STATE_TRANSITION"}
           /\ f[j].kind \in {"AGENT_FAILED", "BUDGET_EXCEEDED"} =>
                j = Len(f) /\ y.kind = "CYCLE_ABORTED",
         stage \in AgentNames =>
           /\ Len(f) > 0 /\ f[1].kind \in {"AGENT_SUCCEEDED", "AGENT_FAILED"}
           /\ f[1].of = stage,
         y.kind \in {"AGENT_INVOKED", "CYCLE_COMPLETED", "CYCLE_ABORTED"}
  PROVE  Fits(f \o <<Transition(machine, dst), y>>, dst)
<1> DEFINE t == Transition(machine, dst)
           e == f \o <<t, y>>
<1>1. t \in CycleEvent /\ t.kind = "STATE_TRANSITION" /\ t.of = machine /\ t.to = dst
  BY DEF Transition, CycleEvent, CycleEventKind
<1> HIDE DEF t
<1>2. <<t, y>> \in Seq(CycleEvent) /\ Len(<<t, y>>) = 2
      /\ <<t, y>>[1] = t /\ <<t, y>>[2] = y
  BY <1>1
<1>3. /\ Len(e) = Len(f) + 2
      /\ \A j \in 1..(Len(f) + 2) :
           e[j] = IF j <= Len(f) THEN f[j] ELSE <<t, y>>[j - Len(f)]
  BY <1>2, ConcatProperties
<1> HIDE DEF e
<1>4. /\ \A j \in 1..Len(f) : e[j] = f[j]
      /\ e[Len(f) + 1] = t /\ e[Len(f) + 2] = y
  BY <1>2, <1>3
<1>5. \A j \in 1..Len(e) : j \in 1..Len(f) \/ j = Len(f) + 1 \/ j = Len(f) + 2
  BY <1>3
<1>6. stage \in AgentNames =>
        /\ e[1].kind \in {"AGENT_SUCCEEDED", "AGENT_FAILED"}
        /\ e[1].of = stage
  BY <1>4
<1>7. ASSUME NEW j \in 1..Len(e)
      PROVE  /\ j # Len(e) =>
                  e[j].kind \notin {"AGENT_INVOKED", "CYCLE_COMPLETED", "CYCLE_ABORTED"}
             /\ e[j].kind \in {"AGENT_FAILED", "BUDGET_EXCEEDED"} =>
                  Len(e) = j + 2 /\ e[j + 2].kind = "CYCLE_ABORTED"
             /\ e[j].kind = "STATE_TRANSITION" => j = Len(f) + 1
  BY <1>1, <1>3, <1>4, <1>5
<1>8. \A j \in 1..Len(e) : e[j].kind = "STATE_TRANSITION" =>
        /\ e[j].of = machine /\ e[j].to = dst
        /\ \A k \in 1..Len(e) : e[k].kind = "STATE_TRANSITION" => k = j
  BY <1>1, <1>4, <1>7
<1>9. \E j \in 1..Len(e) : e[j].kind = "STATE_TRANSITION"
  <2>1. Len(f) + 1 \in 1..Len(e)
    BY <1>3
  <2> QED
    BY <1>1, <1>4, <2>1
<1>10. Fits(e, dst)
  BY <1>6, <1>7, <1>8, <1>9 DEF Fits
<1> QED
  BY <1>10 DEF e, t

-----------------------------------------------------------------------------
(* Every step tells the story on. *)

(* A run that is over promises nothing of what its log ends with.          *)
LEMMA OverIsSilent == ASSUME stage' = "none" PROVE LogInv'
BY DEF LogInv, AgentNames

(* An abort. *)
LEMMA AbortTells ==
  ASSUME StoryInv, stage # "none", RunAborts
  PROVE  LogInv' /\ EventProtocol'
<1>0. RunInv
  BY DEF StoryInv
<1>m. machine \in States
  BY <1>0, AtStage
<1>2. machine \in States /\ log \in Seq(CycleEvent)
  BY <1>0, AtStage
<1>1. PICK e \in Seq(CycleEvent) : Failures(e) /\ Abort(e)
  BY DEF RunAborts
<1> DEFINE y == Event("CYCLE_ABORTED", machine)
<1>3. y \in CycleEvent /\ y.kind = "CYCLE_ABORTED"
  BY <1>m DEF Event, CycleEvent, CycleEventKind
<1>4. /\ machine' = "ERROR" /\ AbortEvents(e) \in Seq(CycleEvent)
      /\ log' = log \o AbortEvents(e)
  BY <1>1, <1>2, AbortLogs
<1>5. AbortEvents(e) = e \o <<Transition(machine, "ERROR"), y>>
  BY DEF AbortEvents
<1> HIDE DEF y
<1>6. /\ Len(e) \in {0, 1, 2}
      /\ \A j \in 1..Len(e) :
           /\ e[j].kind \in {"AGENT_SUCCEEDED", "AGENT_FAILED", "BUDGET_EXCEEDED"}
           /\ e[j].kind \in {"AGENT_FAILED", "BUDGET_EXCEEDED"} => j = Len(e)
      /\ stage \in AgentNames =>
           /\ Len(e) > 0 /\ e[1].kind \in {"AGENT_SUCCEEDED", "AGENT_FAILED"}
           /\ e[1].of = stage
  BY <1>1, FailureEntries
<1>7. \A j \in 1..Len(e) :
        /\ e[j].kind \notin {"AGENT_INVOKED", "CYCLE_COMPLETED",
                             "CYCLE_ABORTED", "STATE_TRANSITION"}
        /\ e[j].kind \in {"AGENT_FAILED", "BUDGET_EXCEEDED"} =>
             j = Len(e) /\ y.kind = "CYCLE_ABORTED"
  BY <1>3, <1>6
<1>8. Fits(e \o <<Transition(machine, "ERROR"), y>>, "ERROR")
  <2>1. "ERROR" \in States
    BY DEF States
  <2>2. y.kind \in {"AGENT_INVOKED", "CYCLE_COMPLETED", "CYCLE_ABORTED"}
    BY <1>3
  <2> QED
    BY <1>2, <1>3, <1>6, <1>7, <2>1, <2>2, StoryFits
<1>9. /\ stage' = "none"
      /\ outcome' = "returned"
           => machine' = IF result'.aborted THEN "ERROR" ELSE "IDLE"
  BY <1>1, <1>4 DEF Abort, Return
<1>10. EventProtocol'
  BY <1>4, <1>5, <1>8, <1>9, StoryGrows
<1> QED
  BY <1>9, <1>10, OverIsSilent

(* A completion. *)
LEMMA CompletionTells ==
  ASSUME StoryInv, stage # "none", RunCompletes
  PROVE  LogInv' /\ EventProtocol'
<1>0. RunInv
  BY DEF StoryInv
<1>m. machine \in States
  BY <1>0, AtStage
<1>2. machine \in States /\ log \in Seq(CycleEvent)
  BY <1>0, AtStage
<1>1. PICK e \in Seq(CycleEvent), new \in SUBSET Artifacts, terminal \in States :
        Answers(e) /\ CompletesWith(new, terminal) /\ Complete(e, new, terminal)
  BY DEF RunCompletes
<1> DEFINE y == Event("CYCLE_COMPLETED", terminal)
<1>3. machine \in {"SCRUTINIZING", "AUDITING", "DECIDING"}
  <2>1. machine = StateAt(stage) /\ stage \in {"skeptic", "auditor", "decider", "broker"}
    BY <1>0, <1>1, AtStage, CompletionTable
  <2> QED
    BY <2>1 DEF StateAt
<1>4. y \in CycleEvent /\ y.kind = "CYCLE_COMPLETED"
  BY <1>m DEF Event, CycleEvent, CycleEventKind
<1>5. /\ machine' = "IDLE" /\ CompleteEvents(e, terminal) \in Seq(CycleEvent)
      /\ log' = log \o CompleteEvents(e, terminal)
  BY <1>1, <1>2, <1>3, CompleteLogs
<1>6. CompleteEvents(e, terminal) = e \o <<Transition(machine, "IDLE"), y>>
  BY DEF CompleteEvents
<1> HIDE DEF y
<1>7. /\ Len(e) \in {0, 1, 2}
      /\ \A j \in 1..Len(e) :
           e[j].kind \in {"AGENT_SUCCEEDED", "POLICY_GATEWAY_APPLIED",
                          "BROKER_EXECUTED"}
      /\ stage \in AgentNames =>
           /\ Len(e) > 0 /\ e[1].kind = "AGENT_SUCCEEDED"
           /\ e[1].of = stage
  BY <1>1, AnswerEntries
<1>8. Fits(e \o <<Transition(machine, "IDLE"), y>>, "IDLE")
  <2>1. "IDLE" \in States
    BY DEF States
  <2>2. y.kind \in {"AGENT_INVOKED", "CYCLE_COMPLETED", "CYCLE_ABORTED"}
    BY <1>4
  <2>3. \A j \in 1..Len(e) :
          /\ e[j].kind \notin {"AGENT_INVOKED", "CYCLE_COMPLETED",
                               "CYCLE_ABORTED", "STATE_TRANSITION"}
          /\ e[j].kind \in {"AGENT_FAILED", "BUDGET_EXCEEDED"} =>
               j = Len(e) /\ y.kind = "CYCLE_ABORTED"
    BY <1>7
  <2>4. stage \in AgentNames =>
          /\ Len(e) > 0 /\ e[1].kind \in {"AGENT_SUCCEEDED", "AGENT_FAILED"}
          /\ e[1].of = stage
    BY <1>7
  <2> QED
    BY <1>2, <1>4, <1>7, <2>1, <2>2, <2>3, <2>4, StoryFits
<1>9. /\ stage' = "none"
      /\ outcome' = "returned"
           => machine' = IF result'.aborted THEN "ERROR" ELSE "IDLE"
  BY <1>1, <1>5 DEF Complete, Return
<1>10. EventProtocol'
  BY <1>5, <1>6, <1>8, <1>9, StoryGrows
<1> QED
  BY <1>9, <1>10, OverIsSilent

(* An advance to the next agent. *)
LEMMA AdvanceTells ==
  ASSUME StoryInv, stage # "none", NEW e \in Seq(CycleEvent), NEW artifact,
         NEW dst, NEW agent,
         Answers(e), AdvancesTo(artifact, dst, agent),
         Advance(e, artifact, dst, agent)
  PROVE  LogInv' /\ EventProtocol'
<1>0. RunInv
  BY DEF StoryInv
<1>m. machine \in States
  BY <1>0, AtStage
<1>2. machine \in States /\ log \in Seq(CycleEvent) /\ outcome = "none"
  BY <1>0, AtStage
<1>1. /\ agent \in AgentNames /\ dst \in States
      /\ <<StateAt(stage), dst>> \in AgentMoves
  <2>1. agent \in AgentNames /\ dst = StateAt(agent)
        /\ <<StateAt(stage), dst>> \in AgentMoves
    BY AdvanceTable
  <2> QED
    BY <2>1 DEF AgentMoves, States
<1>3. <<machine, dst>> \in AgentMoves
  <2>1. machine = StateAt(stage)
    BY <1>0, AtStage
  <2> QED
    BY <1>1, <2>1
<1>6. /\ machine' = dst /\ AdvanceEvents(e, dst, agent) \in Seq(CycleEvent)
      /\ log' = log \o AdvanceEvents(e, dst, agent)
  <2>1. log \in Seq(CycleEvent)
    BY <1>2
  <2>2. agent \in AgentNames
    BY <1>1
  <2>3. machine' = dst
    BY <1>3, <2>1, <2>2, AdvanceLogs
  <2>4. AdvanceEvents(e, dst, agent) \in Seq(CycleEvent)
    BY <1>3, <2>1, <2>2, AdvanceLogs
  <2>5. log' = log \o AdvanceEvents(e, dst, agent)
    BY <1>3, <2>1, <2>2, AdvanceLogs
  <2> QED
    BY <2>3, <2>4, <2>5
<1> DEFINE y == Event("AGENT_INVOKED", agent)
           t == Transition(machine, dst)
<1>4. y \in CycleEvent /\ y.kind = "AGENT_INVOKED"
  BY <1>1 DEF Event, CycleEvent, CycleEventKind
<1>5. t \in CycleEvent /\ t.kind = "STATE_TRANSITION"
  BY <1>1, <1>m DEF Transition, CycleEvent, CycleEventKind
<1>7. AdvanceEvents(e, dst, agent) = e \o <<t, y>>
  BY DEF AdvanceEvents
<1>8. stage' = agent /\ outcome' = "none"
  BY <1>2 DEF Advance
<1>9. /\ Len(e) \in {0, 1, 2}
      /\ \A j \in 1..Len(e) :
           e[j].kind \in {"AGENT_SUCCEEDED", "POLICY_GATEWAY_APPLIED",
                          "BROKER_EXECUTED"}
      /\ stage \in AgentNames =>
           /\ Len(e) > 0 /\ e[1].kind = "AGENT_SUCCEEDED"
           /\ e[1].of = stage
  BY AnswerEntries
<1>10. Fits(e \o <<t, y>>, dst)
  <2> HIDE DEF y
  <2>1. y.kind \in {"AGENT_INVOKED", "CYCLE_COMPLETED", "CYCLE_ABORTED"}
    BY <1>4
  <2>2. \A j \in 1..Len(e) :
          /\ e[j].kind \notin {"AGENT_INVOKED", "CYCLE_COMPLETED",
                               "CYCLE_ABORTED", "STATE_TRANSITION"}
          /\ e[j].kind \in {"AGENT_FAILED", "BUDGET_EXCEEDED"} =>
               j = Len(e) /\ y.kind = "CYCLE_ABORTED"
    BY <1>9
  <2>3. stage \in AgentNames =>
          /\ Len(e) > 0 /\ e[1].kind \in {"AGENT_SUCCEEDED", "AGENT_FAILED"}
          /\ e[1].of = stage
    BY <1>9
  <2> QED
    BY <1>1, <1>2, <1>4, <1>9, <2>1, <2>2, <2>3, StoryFits
<1>11. EventProtocol'
  BY <1>6, <1>7, <1>8, <1>10, StoryGrows
<1>12. LogInv'
  <2> HIDE DEF y, t
  <2>1. /\ Len(log) \in Nat /\ Len(e) \in Nat
        /\ Len(log') = Len(log) + Len(e) + 2
        /\ \A i \in 1..Len(log) : log'[i] = log[i]
        /\ \A j \in 1..Len(e) : log'[Len(log) + j] = e[j]
        /\ log'[Len(log) + Len(e) + 1] = t
        /\ log'[Len(log) + Len(e) + 2] = y
    BY <1>2, <1>4, <1>5, <1>6, <1>7, LogEnds
  <2>2. log'[Len(log')] = y
    BY <2>1
  <2>3. Kinds(Ends)' = {}
    <3> SUFFICES ASSUME NEW i \in 1..Len(log'), log'[i].kind \in Ends
                 PROVE  FALSE
      BY DEF Kinds
    <3>1. CASE i \in 1..Len(log)
      <4>1. i \in Kinds(Ends)
        BY <2>1, <3>1 DEF Kinds
      <4> QED
        BY <4>1 DEF StoryInv, LogInv
    <3>2. CASE i = Len(log) + Len(e) + 1 \/ i = Len(log) + Len(e) + 2
      BY <1>4, <1>5, <2>1, <3>2 DEF Ends
    <3>3. CASE i \notin 1..Len(log) /\ i < Len(log) + Len(e) + 1
      <4>1. i - Len(log) \in 1..Len(e) /\ i = Len(log) + (i - Len(log))
        BY <2>1, <3>3
      <4>2. log'[i] = e[i - Len(log)]
        BY <2>1, <4>1
      <4> QED
        BY <1>9, <4>1, <4>2 DEF Ends
    <3> QED
      BY <2>1, <3>1, <3>2, <3>3
  <2>4. stage' \in AgentNames
    BY <1>1, <1>8
  <2>5. stage' \notin {"backtest", "prices", "broker"}
    BY <2>4 DEF AgentNames
  <2>6. y = Event("AGENT_INVOKED", stage')
    BY <1>8 DEF y
  <2> QED
    BY <2>2, <2>3, <2>5, <2>6 DEF LogInv
<1> QED
  BY <1>11, <1>12

(* A pause at an await that is no agent. *)
LEMMA AwaitTells ==
  ASSUME StoryInv, stage \in {"research", "decider"}, NEW e \in Seq(CycleEvent),
         NEW new, NEW next, next \in {"backtest", "prices"},
         Answers(e), Await(e, new, next)
  PROVE  LogInv' /\ EventProtocol'
<1>0. RunInv /\ stage # "none" /\ stage \in AgentNames
  BY DEF StoryInv, AgentNames
<1>1. log \in Seq(CycleEvent) /\ outcome = "none"
  BY <1>0, AtStage
<1>2. /\ stage' = next /\ machine' = machine /\ outcome' = "none"
      /\ log' = log \o e
  BY <1>1 DEF Await
<1>3. /\ Len(e) > 0 /\ Len(e) \in Nat
      /\ \A j \in 1..Len(e) :
           e[j].kind \in {"AGENT_SUCCEEDED", "POLICY_GATEWAY_APPLIED",
                          "BROKER_EXECUTED"}
      /\ e[1].kind = "AGENT_SUCCEEDED" /\ e[1].of = stage
  BY <1>0, AnswerEntries
<1>4. Fits(e, machine')
  BY <1>2, <1>3 DEF Fits
<1>5. EventProtocol'
  BY <1>0, <1>2, <1>4, StoryGrows
<1>6. /\ Len(log) \in Nat /\ Len(log') = Len(log) + Len(e)
      /\ \A i \in 1..Len(log) : log'[i] = log[i]
      /\ \A j \in 1..Len(e) : log'[Len(log) + j] = e[j]
  BY <1>1, <1>2, LogGrows
<1>7. log'[Len(log')].kind # "AGENT_INVOKED"
  <2>1. Len(e) \in 1..Len(e)
    BY <1>3
  <2>2. log'[Len(log')] = e[Len(e)]
    BY <1>6, <2>1
  <2> QED
    BY <1>3, <2>1, <2>2
<1>8. Kinds(Ends)' = {}
  <2> SUFFICES ASSUME NEW i \in 1..Len(log'), log'[i].kind \in Ends
               PROVE  FALSE
    BY DEF Kinds
  <2>1. CASE i \in 1..Len(log)
    <3>1. i \in Kinds(Ends)
      BY <1>6, <2>1 DEF Kinds
    <3> QED
      BY <1>0, <3>1 DEF StoryInv, LogInv
  <2>2. CASE i \notin 1..Len(log)
    <3>1. i - Len(log) \in 1..Len(e) /\ i = Len(log) + (i - Len(log))
      BY <1>3, <1>6, <2>2
    <3>2. log'[i] = e[i - Len(log)]
      BY <1>6, <3>1
    <3> QED
      BY <1>3, <3>1, <3>2 DEF Ends
  <2> QED
    BY <2>1, <2>2
<1>9. stage' \notin AgentNames
  BY <1>2 DEF AgentNames
<1> QED
  BY <1>5, <1>7, <1>8, <1>9 DEF LogInv

(* The opening of a log tells how a run begins. *)
LEMMA OpeningTells ==
  ASSUME stage' = "observer", machine' = "OBSERVING", outcome' = "none",
         log' = Opening
  PROVE  LogInv' /\ EventProtocol'
<1> DEFINE b == Event("CYCLE_STARTED", "")
           t == Transition("IDLE", "OBSERVING")
           i == Event("AGENT_INVOKED", "observer")
<1>1. /\ b.kind = "CYCLE_STARTED"
      /\ t.kind = "STATE_TRANSITION" /\ t.of = "IDLE" /\ t.to = "OBSERVING"
      /\ i.kind = "AGENT_INVOKED"
  BY DEF Event, Transition
<1>2. i = Event("AGENT_INVOKED", stage')
  OBVIOUS
<1>3. log' = <<b, t, i>>
  BY DEF Opening
<1> HIDE DEF b, t, i
<1>4. Len(log') = 3 /\ log'[1] = b /\ log'[2] = t /\ log'[3] = i
  BY <1>3
<1>5. \A j \in 1..Len(log') : j \in {1, 2, 3}
  BY <1>4
<1>6. LogInv'
  <2>1. Kinds(Ends)' = {}
    BY <1>1, <1>4, <1>5 DEF Kinds, Ends
  <2>2. log'[Len(log')] = Event("AGENT_INVOKED", stage')
    BY <1>2, <1>4
  <2> QED
    BY <2>1, <2>2 DEF LogInv
<1>7. Moves' = {2}
  BY <1>1, <1>4, <1>5 DEF Moves, Kinds
<1>8. NoTransitionRefused'
  BY <1>1, <1>4, <1>7 DEF NoTransitionRefused
<1>9. /\ log'[1].kind = "CYCLE_STARTED"
      /\ Kinds({"AGENT_INVOKED"})' \ {Len(log')} = {}
      /\ Kinds({"AGENT_FAILED", "BUDGET_EXCEEDED"})' = {}
      /\ Kinds({"CYCLE_COMPLETED", "CYCLE_ABORTED"})' = {}
  BY <1>1, <1>4, <1>5 DEF Kinds
<1> QED
  BY <1>6, <1>8, <1>9 DEF EventProtocol

(* A step that writes nothing leaves the story as it is, as long as it     *)
(* does not make a run return.                                             *)
LEMMA SilenceTells ==
  ASSUME EventProtocol, UNCHANGED <<machine, log, result>>,
         outcome' = outcome \/ outcome' # "returned"
  PROVE  EventProtocol'
<1>1. NoTransitionRefused'
  BY DEF EventProtocol, NoTransitionRefused, Moves, Kinds
<1> QED
  BY <1>1 DEF EventProtocol, Kinds

(* A step of the run tells the story on. *)
LEMMA RunnerTells ==
  ASSUME StoryInv, RunnerStep, UNCHANGED queueVars
  PROVE  LogInv' /\ EventProtocol'
<1>1. RunInv
  BY DEF StoryInv
<1>2. stage # "none"
  BY <1>1, RunnerWays
<1>3. CASE RunAborts
  BY <1>2, <1>3, AbortTells
<1>4. CASE RunCompletes
  BY <1>2, <1>4, CompletionTells
<1>5. CASE RunAdvances
  BY <1>2, <1>5, AdvanceTells DEF RunAdvances
<1>6. CASE RunAwaits
  <2>1. PICK e \in Seq(CycleEvent), new \in SUBSET Artifacts, next \in Stages :
          /\ Answers(e) /\ Await(e, new, next)
          /\ \/ stage = "research" /\ next = "backtest"
             \/ stage = "decider" /\ next = "prices"
    BY <1>6 DEF RunAwaits
  <2> QED
    BY <2>1, AwaitTells
<1>7. CASE Raise
  <2>1. stage' = "none" /\ outcome' = "raised" /\ UNCHANGED <<machine, log, result>>
    BY <1>7 DEF Raise
  <2> QED
    BY <2>1, OverIsSilent, SilenceTells DEF StoryInv
<1>8. CASE PricesReturn
  <2>1. /\ stage = "prices" /\ stage' = "broker"
        /\ UNCHANGED <<machine, artifacts, log, result, outcome>>
    BY <1>1, <1>8, PricesKeep
  <2>2. LogInv'
    BY <2>1 DEF StoryInv, LogInv, Kinds, AgentNames
  <2> QED
    BY <2>1, <2>2, SilenceTells DEF StoryInv
<1> QED
  BY <1>1, <1>3, <1>4, <1>5, <1>6, <1>7, <1>8, RunnerWays

(* Every step of the queue and the runner tells it on. *)
LEMMA StoryNext == StoryInv /\ [Next]_vars => StoryInv'
<1> SUFFICES ASSUME StoryInv, [Next]_vars PROVE LogInv' /\ EventProtocol'
  BY RunNext DEF StoryInv
<1>1. RunInv
  BY DEF StoryInv
<1>2. CASE Enqueue
  <2>1. UNCHANGED runnerVars
    BY <1>1, <1>2, EnqueueKeeps
  <2>2. LogInv'
    BY <2>1 DEF StoryInv, LogInv, Kinds, runnerVars
  <2> QED
    BY <2>1, <2>2, SilenceTells DEF StoryInv, runnerVars
<1>3. CASE RunOne \/ Drain
  <2>1. RunGuarded /\ outcome = "none" /\ running = FALSE
    BY <1>3, Zenon DEF RunOne, Drain, LoopIsFree, MayRun, StoryInv, RunInv, TypeOK
  <2>2. stage = "none"
    BY <1>1, <2>1 DEF RunInv, TypeOK, QueueInv
  <2>3. Run
    BY <1>1, <2>1, RunGuardedTakes
  <2> QED
    BY <1>1, <2>2, <2>3, RunBegins, OpeningTells
<1>4. CASE Step
  BY <1>4, RunnerTells DEF Step
<1>5. CASE FinishRun
  <2>1. outcome # "none" /\ stage = "none"
    BY <1>1, <1>5 DEF FinishRun, RunInv, StageInv
  <2>2. CASE NextRun /\ pending # <<>>
    <3>1. Run
      BY <1>1, <1>5, <2>2, RunGuardedTakes DEF FinishRun
    <3> QED
      BY <1>1, <2>1, <3>1, RunBegins, OpeningTells
  <2>3. CASE ~(NextRun /\ pending # <<>>)
    <3>1. /\ outcome' = "none"
          /\ UNCHANGED <<stage, machine, log, result>>
      BY <1>5, <2>3 DEF FinishRun
    <3> QED
      BY <2>1, <3>1, OverIsSilent, SilenceTells DEF StoryInv
  <2> QED
    BY <2>2, <2>3
<1>6. CASE UNCHANGED vars
  <2>1. UNCHANGED <<stage, machine, log, result, outcome>>
    BY <1>6 DEF vars, runnerVars
  <2>2. LogInv'
    BY <2>1 DEF StoryInv, LogInv, Kinds
  <2> QED
    BY <2>1, <2>2, SilenceTells DEF StoryInv
<1> QED
  BY <1>2, <1>3, <1>4, <1>5, <1>6 DEF Next

(* The log of every run is a complete story of it, up to the await it is   *)
(* suspended at.                                                           *)
THEOREM StoryInvariant == Spec => []StoryInv
<1>1. Init => StoryInv
  <2> SUFFICES ASSUME Init PROVE StoryInv
    OBVIOUS
  <2>1. RunInv
    BY RunInit
  <2>2. stage = "none" /\ log = <<>> /\ outcome = "none" /\ Len(log) = 0
    BY DEF Init, RunnerInit
  <2>3. LogInv
    BY <2>2 DEF LogInv, AgentNames
  <2>4. \A S : Kinds(S) = {}
    BY <2>2 DEF Kinds
  <2>5. EventProtocol
    BY <2>2, <2>4 DEF EventProtocol, NoTransitionRefused, Moves
  <2> QED
    BY <2>1, <2>3, <2>5 DEF StoryInv
<1> QED
  BY <1>1, StoryNext, PTL DEF Spec

(* The log starts with CYCLE_STARTED, every invocation is answered before  *)
(* anything else happens, every transition the runner asks for is          *)
(* accepted, so that they lead from IDLE to the machine's state without a  *)
(* gap, and a terminal event is the last one.                              *)
THEOREM EventProtocolHolds == Spec => []EventProtocol
BY StoryInvariant, PTL DEF StoryInv

-----------------------------------------------------------------------------
(* The queue and the runner implement the serial service. *)

(* A step of the run ends the cycle, which closes its request, or is       *)
(* nothing to the service.                                                 *)
LEMMA StepImplements ==
  ASSUME RunInv, Step
  PROVE  [Service!Next]_(Service!serviceVars)
<1>1. stage # "none" /\ UNCHANGED queueVars
  BY RunnerWays DEF Step
<1>2. outcome = "none" /\ current # 0
  BY <1>1, AtStage
<1>3. RunInv'
  BY <1>1, RunnerKeeps DEF Step
<1>4. CASE stage' # "none"
  <2>1. outcome' = "none"
    BY <1>3, <1>4 DEF RunInv, StageInv
  <2> QED
    BY <1>1, <1>2, <1>4, <2>1 DEF Service!serviceVars, InProgress, queueVars
<1>5. CASE stage' = "none"
  <2>1. outcome' # "none"
    BY <1>1, <1>2, <1>3, <1>5 DEF RunInv, QueueInv, queueVars
  <2>2. Service!Close
    BY <1>1, <1>2, <1>5, <2>1 DEF Service!Close, InProgress, queueVars
  <2> QED
    BY <2>2 DEF Service!Next
<1> QED
  BY <1>4, <1>5

(* A run that begins is a request the service begins. *)
LEMMA BeginImplements ==
  ASSUME RunInv, stage = "none", RunGuarded,
         closed' = IF outcome = "none" THEN closed ELSE Append(closed, current)
  PROVE  Service!Begin
<1>1. /\ pending # <<>> /\ current' = Head(pending) /\ pending' = Tail(pending)
      /\ Run
  BY RunGuardedTakes
<1>2. stage' = "observer" /\ outcome' = "none"
  BY <1>1, RunBegins
<1> QED
  BY <1>1, <1>2 DEF Service!Begin, InProgress

(* Each step of the queue is a step of the service, or nothing to it. *)
LEMMA QueueImplements == RunInv /\ [Next]_vars => [Service!Next]_(Service!serviceVars)
<1> SUFFICES ASSUME RunInv, [Next]_vars
             PROVE  [Service!Next]_(Service!serviceVars)
  OBVIOUS
<1>1. CASE Enqueue
  <2>1. /\ outcome = "none" /\ Submitted < MaxItems
        /\ pending' = Append(pending, Submitted + 1)
        /\ UNCHANGED <<stage, outcome, current, closed>>
    BY <1>1 DEF Enqueue, LoopIsFree, runnerVars
  <2>2. current = 0 <=> stage = "none"
    BY <2>1 DEF RunInv, QueueInv
  <2>3. Service!Submitted = Submitted
    BY <2>1, <2>2 DEF Service!Submitted, Submitted, InProgress
  <2>4. Service!Submit
    BY <2>1, <2>3 DEF Service!Submit, InProgress
  <2> QED
    BY <2>4 DEF Service!Next
<1>2. CASE RunOne \/ Drain
  <2>1. RunGuarded /\ outcome = "none" /\ running = FALSE /\ closed' = closed
    BY <1>2, Zenon DEF RunOne, Drain, LoopIsFree, MayRun, RunInv, TypeOK
  <2>2. stage = "none"
    BY <2>1 DEF RunInv, TypeOK, QueueInv
  <2> QED
    BY <2>1, <2>2, BeginImplements DEF Service!Next
<1>3. CASE Step
  BY <1>3, StepImplements
<1>4. CASE FinishRun
  <2>1. outcome # "none" /\ stage = "none" /\ closed' = Append(closed, current)
    BY <1>4 DEF FinishRun, RunInv, StageInv
  <2>2. CASE NextRun /\ pending # <<>>
    <3>1. RunGuarded
      BY <1>4, <2>2 DEF FinishRun
    <3> QED
      BY <2>1, <3>1, BeginImplements DEF Service!Next
  <2>3. CASE ~(NextRun /\ pending # <<>>)
    <3>1. outcome' = "none" /\ stage' = stage /\ pending' = pending
      BY <1>4, <2>3 DEF FinishRun
    <3> QED
      BY <2>1, <3>1 DEF Service!serviceVars, InProgress
  <2> QED
    BY <2>2, <2>3
<1>5. CASE UNCHANGED vars
  BY <1>5 DEF vars, runnerVars, queueVars, Service!serviceVars, InProgress
<1> QED
  BY <1>1, <1>2, <1>3, <1>4, <1>5 DEF Next

(* The queue over the runner is the serial service: one cycle at a time,   *)
(* in the order of the requests, each begun at most once.                  *)
THEOREM ImplementsService ==
  Spec => Service!Init /\ [][Service!Next]_(Service!serviceVars)
<1>1. Init => Service!Init
  BY DEF Init, RunnerInit, Service!Init, InProgress
<1> QED
  BY <1>1, RunInvariant, QueueImplements, PTL DEF Spec

-----------------------------------------------------------------------------
(* Requests are served in the order they came. *)

(* The requests of a service in the order it closes, runs and queues them. *)
Line(done, now, queued) == done \o (IF now = 0 THEN <<>> ELSE <<now>>) \o queued

Counted(n) == [i \in 1..n |-> i]

(* One more request at the end of those counted so far. *)
LEMMA CountedGrows ==
  ASSUME NEW n \in Nat
  PROVE  Counted(n) \in Seq(Nat) /\ Append(Counted(n), n + 1) = Counted(n + 1)
<1>1. Counted(n) \in Seq(Nat) /\ Counted(n + 1) \in Seq(Nat)
      /\ Len(Counted(n)) = n /\ Len(Counted(n + 1)) = n + 1
  BY DEF Counted
<1>2. /\ Append(Counted(n), n + 1) \in Seq(Nat)
      /\ Len(Append(Counted(n), n + 1)) = n + 1
      /\ \A i \in 1..n : Append(Counted(n), n + 1)[i] = Counted(n)[i]
      /\ Append(Counted(n), n + 1)[n + 1] = n + 1
  BY <1>1, AppendProperties
<1>3. \A i \in 1..(n + 1) : Append(Counted(n), n + 1)[i] = Counted(n + 1)[i]
  <2> SUFFICES ASSUME NEW i \in 1..(n + 1)
               PROVE  Append(Counted(n), n + 1)[i] = i
    BY DEF Counted
  <2>1. CASE i \in 1..n
    <3>1. Counted(n)[i] = i
      BY <2>1 DEF Counted
    <3> QED
      BY <1>2, <2>1, <3>1
  <2>2. CASE i = n + 1
    BY <1>2, <2>2
  <2>3. i \in 1..n \/ i = n + 1
    OBVIOUS
  <2> QED
    BY <2>1, <2>2, <2>3
<1> QED
  BY <1>1, <1>2, <1>3, SeqEqual

(* The line with nothing running, and what a request that ends does to it: *)
(* it stays where it was.                                                  *)
LEMMA LineEnds ==
  ASSUME NEW done \in Seq(Nat), NEW queued \in Seq(Nat)
  PROVE  /\ Line(done, 0, queued) = done \o queued
         /\ \A x \in Nat \ {0} :
              /\ Append(done, x) \in Seq(Nat)
              /\ Line(done, x, queued) = Line(Append(done, x), 0, queued)
<1>1. Line(done, 0, queued) = done \o queued
  BY ConcatEmptySeq DEF Line
<1>2. ASSUME NEW x \in Nat \ {0}
      PROVE  /\ Append(done, x) \in Seq(Nat)
             /\ Line(done, x, queued) = Line(Append(done, x), 0, queued)
  <2>1. <<x>> \in Seq(Nat) /\ Append(done, x) = done \o <<x>>
        /\ Append(done, x) \in Seq(Nat)
    BY AppendIsConcat, AppendProperties
  <2>2. Line(Append(done, x), 0, queued) = Append(done, x) \o queued
    BY <2>1, ConcatEmptySeq DEF Line
  <2> QED
    BY <2>1, <2>2 DEF Line
<1> QED
  BY <1>1, <1>2

(* A request that joins the queue joins the end of the line. *)
LEMMA LineJoins ==
  ASSUME NEW done \in Seq(Nat), NEW now \in Nat, NEW queued \in Seq(Nat),
         NEW x \in Nat
  PROVE  Line(done, now, Append(queued, x)) = Append(Line(done, now, queued), x)
<1>1. ASSUME NEW d \in Seq(Nat)
      PROVE  Line(d, 0, Append(queued, x)) = Append(Line(d, 0, queued), x)
  <2>1. /\ Append(queued, x) \in Seq(Nat) /\ Append(queued, x) = queued \o <<x>>
        /\ <<x>> \in Seq(Nat)
    BY AppendProperties, AppendIsConcat
  <2>2. /\ Line(d, 0, Append(queued, x)) = d \o (queued \o <<x>>)
        /\ Line(d, 0, queued) = d \o queued
    BY <2>1, LineEnds
  <2>3. d \o (queued \o <<x>>) = (d \o queued) \o <<x>>
    BY <2>1, ConcatAssociative
  <2>4. d \o queued \in Seq(Nat)
    BY ConcatProperties
  <2>5. (d \o queued) \o <<x>> = Append(d \o queued, x)
    BY <2>4, AppendIsConcat
  <2> QED
    BY <2>2, <2>3, <2>5
<1>2. Append(queued, x) \in Seq(Nat)
  BY AppendProperties
<1>3. CASE now = 0
  BY <1>1, <1>3
<1>4. CASE now # 0
  <2> DEFINE d == Append(done, now)
  <2>1. d \in Seq(Nat)
    BY AppendProperties
  <2>2. Line(done, now, queued) = Line(d, 0, queued)
    BY <1>4, LineEnds
  <2>3. Line(done, now, Append(queued, x)) = Line(d, 0, Append(queued, x))
    BY <1>2, <1>4, LineEnds
  <2> HIDE DEF d
  <2> QED
    BY <1>1, <2>1, <2>2, <2>3
<1> QED
  BY <1>3, <1>4

(* A request that begins stays where it was. *)
LEMMA LineBegins ==
  ASSUME NEW done \in Seq(Nat), NEW queued \in Seq(Nat), queued # <<>>,
         Head(queued) # 0
  PROVE  Line(done, Head(queued), Tail(queued)) = Line(done, 0, queued)
<1>1. /\ Head(queued) \in Nat /\ Tail(queued) \in Seq(Nat)
      /\ queued = <<Head(queued)>> \o Tail(queued)
  BY HeadTailProperties
<1>2. <<Head(queued)>> \in Seq(Nat)
  BY <1>1
<1>3. Line(done, Head(queued), Tail(queued))
        = (done \o <<Head(queued)>>) \o Tail(queued)
  BY DEF Line
<1>4. (done \o <<Head(queued)>>) \o Tail(queued)
        = done \o (<<Head(queued)>> \o Tail(queued))
  BY <1>1, <1>2, ConcatAssociative
<1> QED
  BY <1>1, <1>3, <1>4, LineEnds

(* The state of the service the queue implements: what it has closed, what *)
(* it runs.                                                                *)
Served == IF outcome = "none" THEN closed ELSE Append(closed, current)
Serving == IF InProgress THEN current ELSE 0

(* They are requests, as those in the queue are, and the service counts    *)
(* them as its own.                                                        *)
ServiceNumbers ==
  /\ Served \in Seq(Nat) /\ pending \in Seq(Nat) /\ Serving \in Nat
  /\ Service!Submitted \in Nat
  /\ Service!Submitted
       = Len(pending) + Len(Served) + (IF Serving = 0 THEN 0 ELSE 1)

(* So they are in every state of the run's invariant. *)
LEMMA ServiceTyped == RunInv => ServiceNumbers
<1> SUFFICES ASSUME RunInv PROVE ServiceNumbers
  OBVIOUS
<1>1. /\ closed \in Seq(Nat) /\ pending \in Seq(Nat) /\ current \in Nat
  <2>1. Items \subseteq Nat
    BY CycleQueueAssumption DEF Items
  <2>2. closed \in Seq(Items) /\ pending \in Seq(Items) /\ current \in Items \union {0}
    BY DEF RunInv, TypeOK
  <2> QED
    <3>1. closed \in Seq(Nat)
      BY <2>1, <2>2, SeqMonotonic, Zenon
    <3>2. pending \in Seq(Nat)
      BY <2>1, <2>2, SeqMonotonic, Zenon
    <3> QED
      BY <2>1, <2>2, <3>1, <3>2
<1>2. Served \in Seq(Nat)
  BY <1>1, AppendProperties DEF Served
<1>3. Serving \in Nat
  BY <1>1 DEF Serving
<1>4. Service!Submitted
        = Len(pending) + Len(Served) + (IF Serving = 0 THEN 0 ELSE 1)
  BY DEF Service!Submitted, Served, Serving
<1>5. Len(pending) \in Nat /\ Len(Served) \in Nat
  BY <1>1, <1>2, LenProperties
<1> QED
  BY <1>1, <1>2, <1>3, <1>4, <1>5 DEF ServiceNumbers

(* The order of the service, over these names. *)
LEMMA OrderOfLine ==
  Service!InOrder <=> Line(Served, Serving, pending) = Counted(Service!Submitted)
BY DEF Service!InOrder, Line, Counted, Served, Serving

(* A step of the service keeps the order. *)
LEMMA ServiceKeepsOrder ==
  ASSUME RunInv, RunInv', Service!InOrder, [Service!Next]_(Service!serviceVars)
  PROVE  Service!InOrder'
<1> DEFINE n == Service!Submitted
<1>1. /\ Served \in Seq(Nat) /\ pending \in Seq(Nat) /\ Serving \in Nat /\ n \in Nat
      /\ n = Len(pending) + Len(Served) + (IF Serving = 0 THEN 0 ELSE 1)
      /\ Line(Served, Serving, pending) = Counted(n)
  BY ServiceTyped, OrderOfLine DEF ServiceNumbers
<1>2. /\ Served' \in Seq(Nat) /\ pending' \in Seq(Nat) /\ Serving' \in Nat
      /\ n' = Len(pending') + Len(Served') + (IF Serving' = 0 THEN 0 ELSE 1)
  <2>1. RunInv' => ServiceNumbers'
    BY ServiceTyped, PTL
  <2> QED
    BY <2>1 DEF ServiceNumbers
<1>3. SUFFICES Line(Served', Serving', pending') = Counted(n')
  BY DEF Service!InOrder, Line, Counted, Served, Serving
<1> HIDE DEF n
<1>4. CASE Service!Submit
  <2>1. pending' = Append(pending, n + 1) /\ Served' = Served /\ Serving' = Serving
    BY <1>4 DEF Service!Submit, Served, Serving, n
  <2>2. Len(pending') = Len(pending) + 1
    BY <1>1, <2>1, AppendProperties
  <2>3. n' = n + 1
    BY <1>1, <1>2, <2>1, <2>2, LenProperties
  <2>4. Line(Served, Serving, Append(pending, n + 1))
          = Append(Line(Served, Serving, pending), n + 1)
    <3>1. n + 1 \in Nat
      BY <1>1
    <3>2. Served \in Seq(Nat) /\ pending \in Seq(Nat) /\ Serving \in Nat
      BY <1>1
    <3> QED
      BY <3>1, <3>2, LineJoins, Zenon
  <2> QED
    BY <1>1, <2>1, <2>3, <2>4, CountedGrows
<1>5. CASE Service!Begin
  <2>1. /\ Serving = 0 /\ pending # <<>> /\ Serving' = Head(pending)
        /\ pending' = Tail(pending) /\ Served' = Served
    BY <1>5 DEF Service!Begin, Served, Serving
  <2>2. Head(pending) # 0
    <3>1. pending \in Seq(Items)
      BY DEF RunInv, TypeOK
    <3>2. Head(pending) \in Items
      BY <2>1, <3>1, HeadTailProperties
    <3> QED
      BY <3>2, CycleQueueAssumption DEF Items
  <2>3. Line(Served', Serving', pending') = Line(Served, Serving, pending)
    BY <1>1, <2>1, <2>2, LineBegins
  <2>4. Len(pending') = Len(pending) - 1
    BY <1>1, <2>1, HeadTailProperties
  <2>5. n' = n
    BY <1>1, <1>2, <2>1, <2>2, <2>4, LenProperties
  <2> QED
    BY <1>1, <2>3, <2>5
<1>6. CASE Service!Close
  <2>1. /\ Serving # 0 /\ Served' = Append(Served, Serving) /\ Serving' = 0
        /\ pending' = pending
    BY <1>6 DEF Service!Close, Served, Serving
  <2>2. Line(Served', Serving', pending') = Line(Served, Serving, pending)
    BY <1>1, <1>2, <2>1, LineEnds
  <2>3. Len(Served') = Len(Served) + 1
    BY <1>1, <2>1, AppendProperties
  <2>4. n' = n
    BY <1>1, <1>2, <2>1, <2>3, LenProperties
  <2> QED
    BY <1>1, <2>2, <2>4
<1>7. CASE UNCHANGED Service!serviceVars
  <2>1. Served' = Served /\ Serving' = Serving /\ pending' = pending
    BY <1>7 DEF Service!serviceVars, Served, Serving
  <2> QED
    BY <1>1, <1>2, <2>1
<1> QED
  BY <1>4, <1>5, <1>6, <1>7 DEF Service!Next

(* Requests are served in the order they came, none lost, none twice. *)
THEOREM ServedInOrder == Spec => []Service!InOrder
<1>1. Init => Service!InOrder
  <2> SUFFICES ASSUME Init PROVE Service!InOrder
    OBVIOUS
  <2>1. Served = <<>> /\ Serving = 0 /\ pending = <<>>
    BY DEF Init, RunnerInit, Served, Serving, InProgress
  <2>2. Service!Submitted = 0
    BY <2>1, RunInit, ServiceTyped DEF ServiceNumbers
  <2>3. Counted(0) = <<>> /\ Line(<<>>, 0, <<>>) = <<>>
    <3>1. <<>> \o <<>> = <<>>
      BY EmptySeq, ConcatEmptySeq
    <3> QED
      BY <3>1 DEF Counted, Line
  <2> QED
    BY <2>1, <2>2, <2>3, OrderOfLine
<1>2. RunInv /\ Service!InOrder /\ [Next]_vars => Service!InOrder'
  BY RunNext, QueueImplements, ServiceKeepsOrder
<1> QED
  BY <1>1, <1>2, RunInvariant, PTL DEF Spec

-----------------------------------------------------------------------------
(* The store of cycles: its inductive invariant. *)

(* No file and no row is newer than the last save, and a directory that is *)
(* gone holds no file.                                                     *)
DiskInv ==
  /\ \A c \in Cycles : result_json[c] <= saves /\ events_jsonl[c] <= saves
  /\ \A row \in index : row.ended <= saves
  /\ \A n \in completed : n <= saves
  /\ \A c \in Cycles \ dirs : result_json[c] = 0 /\ events_jsonl[c] = 0

(* A save in progress writes its version in the files of its cycle and in  *)
(* no other, one file after the other, and has not returned.               *)
SaveInv ==
  /\ pc \in {"result", "events", "index"} =>
       /\ saves # 0 /\ saves \notin completed /\ cycle \in dirs
       /\ \A c \in Cycles \ {cycle} : result_json[c] # saves /\ events_jsonl[c] # saves
  /\ pc \in {"events", "index"} => result_json[cycle] = saves
  /\ pc = "index" => events_jsonl[cycle] = saves

(* A prune in progress removes condemned cycles whose rows are all before  *)
(* its cutoff, and will drop no row of a directory that is still there and *)
(* that it is not to remove.                                               *)
PruneInv ==
  /\ pruned \subseteq condemned
  /\ survivors \subseteq index
  /\ pc \in {"unlink", "rewrite"} =>
       \A row \in index :
         /\ row.cycle \in pruned => row.ended < cutoff
         /\ row \in survivors \/ row.cycle \in pruned \/ row.cycle \notin dirs

StoreInv == /\ StoreTypeOK /\ DiskInv /\ SaveInv /\ PruneInv
            /\ IndexedIsLoadable /\ PruneCanResume

-----------------------------------------------------------------------------
(* Each step keeps it. *)

(* save makes the directory of its cycle. *)
LEMMA SaveMkdirKeeps ==
  ASSUME StoreInv, NEW c \in Cycles, SaveMkdir(c)
  PROVE  StoreInv'
<1> USE CycleStoreAssumption DEF StoreInv, SaveMkdir
<1>1. StoreTypeOK'
  BY DEF StoreTypeOK, Versions, Row
<1>2. DiskInv'
  BY DEF StoreTypeOK, DiskInv, Versions, Row
<1>3. SaveInv'
  BY DEF StoreTypeOK, DiskInv, SaveInv, Versions, Row
<1>4. PruneInv'
  BY DEF StoreTypeOK, PruneInv, Versions, Row
<1>5. IndexedIsLoadable'
  BY DEF StoreTypeOK, DiskInv, SaveInv, PruneInv, IndexedIsLoadable, Load, Versions, Row
<1>6. PruneCanResume'
  BY DEF StoreTypeOK, DiskInv, SaveInv, PruneInv, PruneCanResume, Indexed, Versions, Row
<1> QED
  BY <1>1, <1>2, <1>3, <1>4, <1>5, <1>6

(* save writes the result. *)
LEMMA SaveResultKeeps ==
  ASSUME StoreInv, SaveResult
  PROVE  StoreInv'
<1> USE CycleStoreAssumption DEF StoreInv, SaveResult, AfterResult
<1>1. StoreTypeOK'
  BY DEF StoreTypeOK, Versions, Row
<1>2. DiskInv'
  BY DEF StoreTypeOK, DiskInv, SaveInv, Versions, Row
<1>3. SaveInv'
  BY DEF StoreTypeOK, DiskInv, SaveInv, Versions, Row
<1>4. PruneInv'
  BY DEF StoreTypeOK, PruneInv, Versions, Row
<1>5. IndexedIsLoadable'
  BY DEF StoreTypeOK, DiskInv, SaveInv, PruneInv, IndexedIsLoadable, Load, Versions, Row
<1>6. PruneCanResume'
  BY DEF StoreTypeOK, DiskInv, SaveInv, PruneInv, PruneCanResume, Indexed, Versions, Row
<1> QED
  BY <1>1, <1>2, <1>3, <1>4, <1>5, <1>6

(* save writes the events. *)
LEMMA SaveEventsKeeps ==
  ASSUME StoreInv, SaveEvents
  PROVE  StoreInv'
<1> USE CycleStoreAssumption DEF StoreInv, SaveEvents
<1>1. StoreTypeOK'
  BY DEF StoreTypeOK, Versions, Row
<1>2. DiskInv'
  BY DEF StoreTypeOK, DiskInv, SaveInv, Versions, Row
<1>3. SaveInv'
  BY DEF StoreTypeOK, DiskInv, SaveInv, Versions, Row
<1>4. PruneInv'
  BY DEF StoreTypeOK, PruneInv, Versions, Row
<1>5. IndexedIsLoadable'
  BY DEF StoreTypeOK, DiskInv, SaveInv, PruneInv, IndexedIsLoadable, Load, Versions, Row
<1>6. PruneCanResume'
  BY DEF StoreTypeOK, DiskInv, SaveInv, PruneInv, PruneCanResume, Indexed, Versions, Row
<1> QED
  BY <1>1, <1>2, <1>3, <1>4, <1>5, <1>6

(* save appends its row and returns. *)
LEMMA SaveIndexKeeps ==
  ASSUME StoreInv, SaveIndex
  PROVE  StoreInv'
<1> USE CycleStoreAssumption DEF StoreInv, SaveIndex, EntryFor
<1>1. StoreTypeOK'
  BY DEF StoreTypeOK, SaveInv, Versions, Row
<1>2. DiskInv'
  BY DEF StoreTypeOK, DiskInv, SaveInv, Versions, Row
<1>3. SaveInv'
  BY DEF StoreTypeOK, DiskInv, SaveInv, Versions, Row
<1>4. PruneInv'
  BY DEF StoreTypeOK, PruneInv, Versions, Row
<1>5. IndexedIsLoadable'
  BY DEF StoreTypeOK, DiskInv, SaveInv, PruneInv, IndexedIsLoadable, Load, Versions, Row
<1>6. PruneCanResume'
  <2> SUFFICES ASSUME NEW c \in dirs, ~Indexed(c)'
               PROVE  {result_json[c], events_jsonl[c]} \intersect completed' = {}
    BY DEF PruneCanResume
  <2>1. c # cycle
    <3>1. EntryFor(cycle, saves).cycle = cycle /\ EntryFor(cycle, saves) \in index'
      OBVIOUS
    <3> QED
      BY <3>1, Zenon DEF Indexed
  <2>2. result_json[c] # saves /\ events_jsonl[c] # saves
    BY <2>1 DEF StoreTypeOK, SaveInv
  <2>3. ~Indexed(c)
    BY DEF Indexed
  <2>4. {result_json[c], events_jsonl[c]} \intersect completed = {}
    BY <2>3 DEF PruneCanResume
  <2> QED
    BY <2>2, <2>4
<1> QED
  BY <1>1, <1>2, <1>3, <1>4, <1>5, <1>6

(* A prune removes a file. *)
LEMMA PruneUnlinkKeeps ==
  ASSUME StoreInv, PruneUnlink
  PROVE  StoreInv'
<1> USE CycleStoreAssumption DEF StoreInv, PruneUnlink
<1>1. StoreTypeOK'
  BY DEF StoreTypeOK, Versions, Row
<1>2. DiskInv'
  BY DEF StoreTypeOK, DiskInv, Versions, Row
<1>3. SaveInv'
  BY DEF StoreTypeOK, DiskInv, SaveInv, Versions, Row
<1>4. PruneInv'
  BY DEF StoreTypeOK, PruneInv, Versions, Row
<1>5. IndexedIsLoadable'
  BY DEF StoreTypeOK, DiskInv, SaveInv, PruneInv, IndexedIsLoadable, Load, Versions, Row
<1>6. PruneCanResume'
  BY DEF StoreTypeOK, DiskInv, SaveInv, PruneInv, PruneCanResume, Indexed, Versions, Row
<1> QED
  BY <1>1, <1>2, <1>3, <1>4, <1>5, <1>6

(* A prune removes an emptied directory. *)
LEMMA PruneRmdirKeeps ==
  ASSUME StoreInv, PruneRmdir
  PROVE  StoreInv'
<1> USE CycleStoreAssumption DEF StoreInv, PruneRmdir, AfterRmdir
<1>1. StoreTypeOK'
  BY DEF StoreTypeOK, Versions, Row
<1>2. DiskInv'
  BY DEF StoreTypeOK, DiskInv, Versions, Row
<1>3. SaveInv'
  BY DEF StoreTypeOK, DiskInv, SaveInv, Versions, Row
<1>4. PruneInv'
  BY DEF StoreTypeOK, PruneInv, Versions, Row
<1>5. IndexedIsLoadable'
  BY DEF StoreTypeOK, DiskInv, SaveInv, PruneInv, IndexedIsLoadable, Load, Versions, Row
<1>6. PruneCanResume'
  BY DEF StoreTypeOK, DiskInv, SaveInv, PruneInv, PruneCanResume, Indexed, Versions, Row
<1> QED
  BY <1>1, <1>2, <1>3, <1>4, <1>5, <1>6

(* A prune rewrites the index. *)
LEMMA PruneRewriteKeeps ==
  ASSUME StoreInv, PruneRewrite
  PROVE  StoreInv'
<1> USE CycleStoreAssumption DEF StoreInv, PruneRewrite
<1>1. StoreTypeOK'
  BY DEF StoreTypeOK, Versions, Row
<1>2. DiskInv'
  BY DEF StoreTypeOK, DiskInv, PruneInv, Versions, Row
<1>3. SaveInv'
  BY DEF StoreTypeOK, DiskInv, SaveInv, Versions, Row
<1>4. PruneInv'
  BY DEF StoreTypeOK, PruneInv, Versions, Row
<1>5. IndexedIsLoadable'
  BY DEF StoreTypeOK, DiskInv, SaveInv, PruneInv, IndexedIsLoadable, Load, Versions, Row
<1>6. PruneCanResume'
  BY DEF StoreTypeOK, DiskInv, SaveInv, PruneInv, PruneCanResume, Indexed, Versions, Row
<1> QED
  BY <1>1, <1>2, <1>3, <1>4, <1>5, <1>6

(* The process dies. *)
LEMMA CrashKeeps ==
  ASSUME StoreInv, Crash
  PROVE  StoreInv'
<1> USE CycleStoreAssumption DEF StoreInv, Crash
<1>1. StoreTypeOK'
  BY DEF StoreTypeOK, Versions, Row
<1>2. DiskInv'
  BY DEF StoreTypeOK, DiskInv, Versions, Row
<1>3. SaveInv'
  BY DEF StoreTypeOK, DiskInv, SaveInv, Versions, Row
<1>4. PruneInv'
  BY DEF StoreTypeOK, PruneInv, Versions, Row
<1>5. IndexedIsLoadable'
  BY DEF StoreTypeOK, DiskInv, SaveInv, PruneInv, IndexedIsLoadable, Load, Versions, Row
<1>6. PruneCanResume'
  BY DEF StoreTypeOK, DiskInv, SaveInv, PruneInv, PruneCanResume, Indexed, Versions, Row
<1> QED
  BY <1>1, <1>2, <1>3, <1>4, <1>5, <1>6

(* A prune decides what it removes. *)
LEMMA PruneBeginKeeps ==
  ASSUME StoreInv, PruneBegin
  PROVE  StoreInv'
<1> USE CycleStoreAssumption DEF StoreInv
<1>1. PICK limit \in 1..(MaxSaves + 1) :
        LET old == {c \in Cycles : Expired(c, limit)} IN
        /\ old # {}
        /\ cutoff' = limit
        /\ pruned' = old
        /\ condemned' = condemned \union old
        /\ survivors' = RowsKept(old)
  BY DEF PruneBegin
<1>2. /\ pc = "idle" /\ pc' = "unlink"
      /\ UNCHANGED <<dirs, result_json, events_jsonl, index, cycle, saves,
                     crashes, completed>>
  BY DEF PruneBegin, FirstStep
<1>3. pruned' \in SUBSET Cycles /\ pruned' # {} /\ condemned' = condemned \union pruned'
  BY <1>1
<1>4. survivors' = {row \in index : row.cycle \notin pruned'}
  BY <1>1 DEF RowsKept
<1>5. \A row \in index : row.cycle \in pruned' => row.ended < cutoff'
  BY <1>1 DEF Expired
<1>6. StoreTypeOK'
  BY <1>1, <1>2, <1>3, <1>4 DEF StoreTypeOK
<1>7. DiskInv' /\ SaveInv'
  BY <1>2 DEF DiskInv, SaveInv
<1>8. PruneInv'
  BY <1>2, <1>3, <1>4, <1>5 DEF PruneInv
<1>9. IndexedIsLoadable' /\ PruneCanResume'
  BY <1>2, <1>3 DEF IndexedIsLoadable, PruneCanResume, Load, Indexed
<1> QED
  BY <1>6, <1>7, <1>8, <1>9

-----------------------------------------------------------------------------
(* The properties. *)

(* Every step, crashes included, keeps the invariant. *)
LEMMA StoreStep == StoreInv /\ [StoreNext]_storeVars => StoreInv'
<1> SUFFICES ASSUME StoreInv, [StoreNext]_storeVars PROVE StoreInv'
  OBVIOUS
<1>1. CASE UNCHANGED storeVars
  BY <1>1 DEF storeVars, StoreInv, StoreTypeOK, DiskInv, SaveInv, PruneInv,
              IndexedIsLoadable, PruneCanResume, Load, Indexed
<1> QED
  BY <1>1, SaveMkdirKeeps, SaveResultKeeps, SaveEventsKeeps, SaveIndexKeeps,
     PruneBeginKeeps, PruneUnlinkKeeps, PruneRmdirKeeps, PruneRewriteKeeps,
     CrashKeeps DEF StoreNext, Save, Prune

(* An empty archive satisfies it. *)
LEMMA StoreBase == StoreInit => StoreInv
BY CycleStoreAssumption
   DEF StoreInit, StoreInv, StoreTypeOK, DiskInv, SaveInv, PruneInv, IndexedIsLoadable,
       PruneCanResume, Indexed, Versions, Row

(* What is on disk, what the call in progress is to do and what calls have *)
(* returned agree after every effect and every crash.                      *)
THEOREM StoreInvariant == StoreSpec => []StoreInv
BY StoreBase, StoreStep, PTL DEF StoreSpec

(* Every reachable state of the archive is well typed. *)
THEOREM StoreTyped == StoreSpec => []StoreTypeOK
BY StoreInvariant, PTL DEF StoreInv

(* A cycle the index lists can be loaded, and at a version no older than   *)
(* any of its rows, unless a prune that decided to drop it was cut short.  *)
THEOREM IndexedIsLoadableHolds == StoreSpec => []IndexedIsLoadable
BY StoreInvariant, PTL DEF StoreInv

(* No file of a save that returned is left in a directory the index does   *)
(* not name.                                                               *)
THEOREM PruneCanResumeHolds == StoreSpec => []PruneCanResume
BY StoreInvariant, PTL DEF StoreInv

(* No file of a cycle is removed, and none goes back to an older version,  *)
(* while the index has a row of that cycle at or after the cutoff.         *)
THEOREM PruneKeepsRecentHolds == StoreSpec => PruneKeepsRecent
<1> DEFINE Recent(c) == \A row \in index : row.cycle = c => row.ended < cutoff
           Lost(c) == result_json'[c] < result_json[c] \/ events_jsonl'[c] < events_jsonl[c]
<1>1. ASSUME StoreInv, [StoreNext]_storeVars, NEW c \in Cycles, Lost(c)
      PROVE  Recent(c)
  <2> USE <1>1 DEF StoreInv
  <2>1. result_json[c] \in 0..MaxSaves /\ events_jsonl[c] \in 0..MaxSaves
        /\ saves \in 0..MaxSaves
    BY DEF StoreTypeOK
  <2>2. UNCHANGED <<result_json, events_jsonl>> => FALSE
    BY <2>1, CycleStoreAssumption
  <2>3. CASE SaveResult
    BY <2>1, <2>3, CycleStoreAssumption DEF SaveResult, DiskInv, StoreTypeOK
  <2>4. CASE SaveEvents
    BY <2>1, <2>4, CycleStoreAssumption DEF SaveEvents, DiskInv, StoreTypeOK
  <2>5. CASE PruneUnlink
    <3>1. PICK p \in pruned :
            \A d \in Cycles \ {p} : result_json'[d] = result_json[d]
                                    /\ events_jsonl'[d] = events_jsonl[d]
      BY <2>5 DEF PruneUnlink, StoreTypeOK
    <3>2. c = p
      BY <2>1, <3>1, CycleStoreAssumption
    <3>3. pc = "unlink"
      BY <2>5 DEF PruneUnlink
    <3> QED
      BY <3>1, <3>2, <3>3 DEF PruneInv
  <2> QED
    BY <2>2, <2>3, <2>4, <2>5
       DEF StoreNext, Save, Prune, SaveMkdir, SaveIndex, PruneBegin, PruneRmdir,
           PruneRewrite, Crash, storeVars
<1>2. StoreInv /\ [StoreNext]_storeVars => [\A c \in Cycles : Lost(c) => Recent(c)]_storeVars
  BY <1>1
<1> QED
  BY <1>2, StoreInvariant, PTL DEF StoreSpec, PruneKeepsRecent
=============================================================================
