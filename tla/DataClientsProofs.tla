-------------------------- MODULE DataClientsProofs --------------------------
(***************************************************************************)
(* How far the budget of EDINET DB can be overdrawn, for every budget,     *)
(* every number of concurrent calls and every length of the day; and the   *)
(* pacing, the backoff, the quota of empty answers and the archive's       *)
(* files, for any number of calls, any intervals and any schedule.         *)
(*                                                                         *)
(* A step of DataNext belongs to one client, but what it does to a call is *)
(* one of a few things: the lemma StepShape says which, and the invariants *)
(* are proved over those shapes.                                           *)
(***************************************************************************)
EXTENDS DataClients, FiniteSetTheorems, SequenceTheorems, TLAPS

-----------------------------------------------------------------------------
(* The budget of EDINET DB, whoever draws on it.                           *)

Recorded == {c \in Calls : pc[c] = "recorded"}

(* What makes the bound inductive: a call between its check and its row    *)
(* has already taken its share, and so has an answer about to be handed    *)
(* over.                                                                   *)
SharesBounded == RequestsToday + Cardinality(Outstanding) <= Cap - 1 + Cardinality(Calls)
AnswersShared == delivered + Cardinality(Recorded) <= RequestsToday
QuotaInv == TypeOK /\ SharesBounded /\ AnswersShared

(* The start of a day is no later than any time in it, and days do not     *)
(* interleave.                                                             *)
LEMMA DayFloorOrder ==
  ASSUME QuotaAssumption, NEW t \in Nat, NEW u \in Nat, t <= u
  PROVE  /\ DayFloor(t) \in Int /\ DayFloor(t) <= t
         /\ DayFloor(t) <= DayFloor(u)
<1> DEFINE T == TicksPerDay  q == t \div T  p == u \div T
<1>1. T \in Nat /\ T > 0
  BY DEF QuotaAssumption
<1>2. /\ t = T * q + (t % T) /\ t % T \in 0..(T - 1) /\ q \in Nat
      /\ u = T * p + (u % T) /\ u % T \in 0..(T - 1) /\ p \in Nat
  BY <1>1
<1>3. DayFloor(t) = T * q /\ DayFloor(u) = T * p
  BY <1>1, <1>2 DEF DayFloor
<1> HIDE DEF T, q, p
<1>4. q <= p
  <2>1. SUFFICES ASSUME p + 1 <= q PROVE FALSE
    BY <1>2
  <2>2. T * (p + 1) <= T * q
    BY <1>1, <1>2, <2>1
  <2>3. T * (p + 1) = T * p + T
    BY <1>1, <1>2
  <2> QED BY <1>1, <1>2, <2>2, <2>3
<1>5. T * q <= T * p
  BY <1>1, <1>2, <1>4
<1> QED BY <1>1, <1>2, <1>3, <1>5

(* The sets the bounds count are finite, and their sizes are numbers.      *)
LEMMA QuotaSizes ==
  ASSUME QuotaAssumption, TypeOK
  PROVE  /\ IsFiniteSet(RowsToday) /\ RequestsToday \in Nat
         /\ IsFiniteSet(Outstanding) /\ Cardinality(Outstanding) \in Nat
         /\ IsFiniteSet(Recorded) /\ Cardinality(Recorded) \in Nat
         /\ Cardinality(Outstanding) <= Cardinality(Calls)
         /\ Cardinality(Calls) \in Nat
<1>1. IsFiniteSet(RowsToday)
  BY FS_Subset DEF RowsToday, TypeOK
<1>2. IsFiniteSet(Calls)
  BY DEF QuotaAssumption
<1>3. /\ IsFiniteSet(Outstanding) /\ IsFiniteSet(Recorded)
      /\ Cardinality(Outstanding) <= Cardinality(Calls)
  BY <1>2, FS_Subset DEF Outstanding, Recorded
<1> QED BY <1>1, <1>2, <1>3, FS_CardinalityType DEF RequestsToday

LEMMA QuotaInit == ASSUME QuotaAssumption, Init PROVE QuotaInv
<1>1. RowsToday = {} /\ Outstanding = {} /\ Recorded = {}
  BY DEF Init, RowsToday, Outstanding, Recorded
<1>2. RequestsToday = 0 /\ Cardinality(Outstanding) = 0 /\ Cardinality(Recorded) = 0
  BY <1>1, FS_EmptySet DEF RequestsToday
<1>3. TypeOK
  BY FS_EmptySet DEF Init, TypeOK
<1>4. Cardinality(Calls) \in Nat /\ Cap \in Nat /\ Cap >= 1
  BY FS_CardinalityType DEF QuotaAssumption
<1> QED BY <1>2, <1>3, <1>4 DEF QuotaInv, SharesBounded, AnswersShared, Init

(* A step of one call that leaves the log alone.                           *)
LEMMA CallsKeepInv ==
  ASSUME QuotaAssumption, QuotaInv, NEW c \in Calls,
         Admit(c) \/ Send(c) \/ Fail(c) \/ Deliver(c)
  PROVE  QuotaInv'
<1> USE QuotaAssumption
<1>0. TypeOK /\ SharesBounded /\ AnswersShared
  BY DEF QuotaInv
<1>1. TypeOK'
  BY <1>0 DEF TypeOK, Admit, Send, Fail, Deliver
<1>2. RowsToday' = RowsToday /\ RequestsToday' = RequestsToday
  BY DEF Admit, Send, Fail, Deliver, RowsToday, RequestsToday
<1>3. /\ RequestsToday \in Nat /\ IsFiniteSet(Outstanding) /\ IsFiniteSet(Recorded)
      /\ Cardinality(Outstanding) \in Nat /\ Cardinality(Recorded) \in Nat
      /\ Cardinality(Calls) \in Nat
  BY <1>0, QuotaSizes
<1>4. /\ Cardinality(Outstanding)' \in Nat /\ Cardinality(Recorded)' \in Nat
      /\ Cardinality(Outstanding)' <= Cardinality(Calls)
  <2> DEFINE O == Outstanding'  R == Recorded'
  <2>1. O \in SUBSET Calls /\ R \in SUBSET Calls /\ IsFiniteSet(Calls)
    BY DEF Outstanding, Recorded, QuotaAssumption
  <2>2. /\ Cardinality(O) \in Nat /\ Cardinality(R) \in Nat
        /\ Cardinality(O) <= Cardinality(Calls)
    <3> HIDE DEF O, R
    <3> QED BY <2>1, FS_Subset, FS_CardinalityType
  <2> QED BY <2>2
<1>5. Cap \in Nat /\ delivered \in Nat
  BY <1>0 DEF QuotaAssumption, TypeOK
<1>6. CASE Admit(c)
  <2>1. Recorded' = Recorded /\ delivered' = delivered
    BY <1>0, <1>6 DEF Admit, Recorded, TypeOK
  <2>2. RequestsToday <= Cap - 1
    BY <1>3, <1>5, <1>6 DEF Admit, QuotaAvailable
  <2>3. SharesBounded'
    BY <1>2, <1>3, <1>4, <1>5, <2>2 DEF SharesBounded
  <2>4. AnswersShared'
    BY <1>0, <1>2, <2>1 DEF AnswersShared
  <2> QED BY <1>1, <2>3, <2>4 DEF QuotaInv
<1>7. CASE Send(c)
  <2>1. Recorded' = Recorded /\ Outstanding' = Outstanding /\ delivered' = delivered
    BY <1>0, <1>7 DEF Send, Recorded, Outstanding, TypeOK
  <2> QED BY <1>0, <1>1, <1>2, <2>1 DEF QuotaInv, SharesBounded, AnswersShared
<1>8. CASE Fail(c)
  <2>1. /\ Recorded' = Recorded /\ delivered' = delivered
        /\ c \in Outstanding /\ Outstanding' = Outstanding \ {c}
    BY <1>0, <1>8 DEF Fail, Recorded, Outstanding, TypeOK
  <2>2. Cardinality(Outstanding)' = Cardinality(Outstanding) - 1
    BY <1>3, <2>1, FS_RemoveElement
  <2>3. SharesBounded'
    BY <1>0, <1>2, <1>3, <1>4, <1>5, <2>2 DEF SharesBounded
  <2>4. AnswersShared'
    BY <1>0, <1>2, <2>1 DEF AnswersShared
  <2> QED BY <1>1, <2>3, <2>4 DEF QuotaInv
<1>9. CASE Deliver(c)
  <2>1. /\ Outstanding' = Outstanding
        /\ c \in Recorded /\ Recorded' = Recorded \ {c}
        /\ delivered' \in Nat /\ delivered' <= delivered + 1
    BY <1>0, <1>5, <1>9 DEF Deliver, Recorded, Outstanding, TypeOK
  <2>2. Cardinality(Recorded)' = Cardinality(Recorded) - 1
    BY <1>3, <2>1, FS_RemoveElement
  <2>3. SharesBounded'
    BY <1>0, <1>2, <2>1 DEF SharesBounded
  <2>4. AnswersShared'
    BY <1>0, <1>2, <1>3, <1>5, <2>1, <2>2 DEF AnswersShared
  <2> QED BY <1>1, <2>3, <2>4 DEF QuotaInv
<1> QED BY <1>6, <1>7, <1>8, <1>9

(* The new row is today's and has a number of its own, so it moves one     *)
(* share from a call to the log.                                           *)
LEMMA RecordKeepsInv ==
  ASSUME QuotaAssumption, QuotaInv, NEW c \in Calls, Record(c)
  PROVE  QuotaInv'
<1> DEFINE r == [row |-> rows, at |-> now]
<1>0. TypeOK /\ SharesBounded /\ AnswersShared
  BY DEF QuotaInv
<1>1. now \in Nat /\ rows \in Nat /\ r \in Row /\ now' = now
  BY <1>0 DEF TypeOK, Row, Record, QuotaAssumption
<1>2. r \notin quota_log
  BY <1>0, <1>1 DEF TypeOK, Row
<1>3. quota_log' = quota_log \union {r}
  BY DEF Record, Stamp
<1>4. TypeOK'
  <2>1. quota_log' \in SUBSET Row /\ IsFiniteSet(quota_log')
    BY <1>0, <1>1, <1>3, FS_AddElement DEF TypeOK
  <2>2. \A x \in quota_log' : x.row < rows' /\ x.at <= now'
    BY <1>0, <1>1, <1>3 DEF TypeOK, Record, Row
  <2> QED BY <1>0, <1>1, <2>1, <2>2 DEF TypeOK, Record
<1>5. RowsToday' = RowsToday \union {r} /\ r \notin RowsToday
  <2>1. SameDay(r.at, now)
    BY DEF SameDay
  <2> QED BY <1>1, <1>2, <1>3, <2>1 DEF RowsToday, SameDay, DayFloor
<1>6. /\ IsFiniteSet(RowsToday) /\ RequestsToday \in Nat
      /\ IsFiniteSet(Outstanding) /\ Cardinality(Outstanding) \in Nat
      /\ IsFiniteSet(Recorded) /\ Cardinality(Recorded) \in Nat
      /\ Cardinality(Calls) \in Nat
  BY <1>0, QuotaSizes
<1> HIDE DEF r
<1>7. RequestsToday' = RequestsToday + 1
  BY <1>5, <1>6, FS_AddElement DEF RequestsToday
<1>8. /\ c \in Outstanding /\ Outstanding' = Outstanding \ {c}
      /\ c \notin Recorded /\ Recorded' = Recorded \union {c}
      /\ delivered' = delivered
  BY <1>0 DEF Record, Outstanding, Recorded, TypeOK
<1>9. /\ Cardinality(Outstanding)' = Cardinality(Outstanding) - 1
      /\ Cardinality(Recorded)' = Cardinality(Recorded) + 1
  BY <1>6, <1>8, FS_RemoveElement, FS_AddElement
<1>10. Cap \in Nat /\ delivered \in Nat
  BY <1>0 DEF QuotaAssumption, TypeOK
<1>11. SharesBounded'
  BY <1>0, <1>6, <1>7, <1>9, <1>10 DEF SharesBounded
<1>12. AnswersShared'
  BY <1>0, <1>6, <1>7, <1>8, <1>9, <1>10 DEF AnswersShared
<1> QED BY <1>4, <1>11, <1>12 DEF QuotaInv

(* A crash only gives shares back.                                         *)
LEMMA CrashKeepsInv ==
  ASSUME QuotaAssumption, QuotaInv, NEW dead \in SUBSET Calls, Crash(dead)
  PROVE  QuotaInv'
<1> DEFINE O == Outstanding'  R == Recorded'
<1>0. TypeOK /\ SharesBounded /\ AnswersShared
  BY DEF QuotaInv
<1>1. TypeOK'
  BY <1>0 DEF TypeOK, Crash
<1>2. RequestsToday' = RequestsToday /\ delivered' = delivered
  BY DEF Crash, RowsToday, RequestsToday
<1>3. /\ RequestsToday \in Nat /\ IsFiniteSet(Outstanding) /\ IsFiniteSet(Recorded)
      /\ Cardinality(Outstanding) \in Nat /\ Cardinality(Recorded) \in Nat
      /\ Cardinality(Calls) \in Nat
  BY <1>0, QuotaSizes
<1>4. O \in SUBSET Outstanding /\ R \in SUBSET Recorded
  BY <1>0 DEF Crash, Outstanding, Recorded, TypeOK
<1>5. /\ Cardinality(O) \in Nat /\ Cardinality(O) <= Cardinality(Outstanding)
      /\ Cardinality(R) \in Nat /\ Cardinality(R) <= Cardinality(Recorded)
  <2> HIDE DEF O, R
  <2> QED BY <1>3, <1>4, FS_Subset, FS_CardinalityType
<1>6. Cap \in Nat /\ delivered \in Nat
  BY <1>0 DEF QuotaAssumption, TypeOK
<1>7. SharesBounded'
  BY <1>0, <1>2, <1>3, <1>5, <1>6 DEF SharesBounded
<1>8. AnswersShared'
  BY <1>0, <1>2, <1>3, <1>5, <1>6 DEF AnswersShared
<1> QED BY <1>1, <1>7, <1>8 DEF QuotaInv

(* Every row of today is later than the start of the day, so it survives.  *)
LEMMA PurgeKeepsInv ==
  ASSUME QuotaAssumption, QuotaInv, NEW cutoff \in 0..MaxTime, Purge(cutoff)
  PROVE  QuotaInv'
<1>0. TypeOK /\ SharesBounded /\ AnswersShared
  BY DEF QuotaInv
<1>1. quota_log' = {r \in quota_log : r.at >= cutoff} /\ now' = now
  BY DEF Purge, Kept
<1>2. TypeOK'
  <2>1. IsFiniteSet(quota_log')
    BY <1>0, <1>1, FS_Subset DEF TypeOK
  <2> QED BY <1>0, <1>1, <2>1 DEF TypeOK, Purge
<1>3. ASSUME NEW r \in quota_log, SameDay(r.at, now)
      PROVE  r.at >= cutoff
  <2>1. r.at \in Nat /\ now \in Nat /\ cutoff \in Nat /\ r.at <= now
    BY <1>0 DEF TypeOK, Row, QuotaAssumption
  <2>2. DayFloor(r.at) \in Int /\ DayFloor(r.at) <= r.at
    BY <2>1, DayFloorOrder
  <2>3. cutoff <= DayFloor(r.at)
    BY <1>3 DEF Purge, SameDay
  <2> QED BY <2>1, <2>2, <2>3
<1>4. RowsToday' = RowsToday
  BY <1>1, <1>3 DEF RowsToday, SameDay, DayFloor
<1>5. RequestsToday' = RequestsToday
  BY <1>4 DEF RequestsToday
<1>6. /\ Outstanding' = Outstanding /\ Recorded' = Recorded
      /\ delivered' = delivered
  BY DEF Purge, Outstanding, Recorded
<1>7. SharesBounded' /\ AnswersShared'
  BY <1>0, <1>5, <1>6 DEF SharesBounded, AnswersShared
<1> QED BY <1>2, <1>7 DEF QuotaInv

(* A row of an earlier day is not of the next one: its day starts no later *)
(* than today, and today before tomorrow.                                  *)
LEMMA TickKeepsInv ==
  ASSUME QuotaAssumption, QuotaInv, Tick
  PROVE  QuotaInv'
<1>0. TypeOK /\ SharesBounded /\ AnswersShared
  BY DEF QuotaInv
<1>1. /\ now \in Nat /\ now' = now + 1 /\ now' \in 0..MaxTime
      /\ quota_log' = quota_log /\ pc' = pc
  BY <1>0 DEF Tick, TypeOK, QuotaAssumption
<1>2. TypeOK'
  <2>1. delivered' \in Nat
    BY <1>0 DEF Tick, TypeOK
  <2>2. \A r \in quota_log' : r.row < rows' /\ r.at <= now'
    BY <1>0, <1>1 DEF TypeOK, Tick, Row
  <2> QED BY <1>0, <1>1, <2>1, <2>2 DEF TypeOK, Tick
<1>3. Outstanding' = Outstanding /\ Recorded' = Recorded /\ Recorded = {}
  BY <1>1 DEF Outstanding, Recorded, Tick
<1>4. CASE SameDay(now, now')
  <2>1. RowsToday' = RowsToday
    BY <1>1, <1>4 DEF RowsToday, SameDay, DayFloor
  <2>2. RequestsToday' = RequestsToday /\ delivered' = delivered
    BY <1>4, <2>1 DEF RequestsToday, Tick
  <2>3. SharesBounded' /\ AnswersShared'
    BY <1>0, <1>3, <2>2 DEF SharesBounded, AnswersShared
  <2> QED BY <1>2, <2>3 DEF QuotaInv
<1>5. CASE ~SameDay(now, now')
  <2>1. ASSUME NEW r \in quota_log PROVE ~SameDay(r.at, now')
    <3>1. r.at \in Nat /\ r.at <= now /\ now' \in Nat /\ now <= now'
      BY <1>0, <1>1 DEF TypeOK, Row
    <3>2. /\ DayFloor(r.at) \in Int /\ DayFloor(now) \in Int
          /\ DayFloor(r.at) <= DayFloor(now)
      BY <1>1, <3>1, DayFloorOrder
    <3>3. DayFloor(now') \in Int /\ DayFloor(now) <= DayFloor(now')
      <4> DEFINE n == now'
      <4>1. n \in Nat /\ now <= n
        BY <3>1
      <4> HIDE DEF n
      <4>2. DayFloor(n) \in Int /\ DayFloor(now) <= DayFloor(n)
        BY <1>1, <4>1, DayFloorOrder
      <4> QED BY <4>2 DEF n, DayFloor
    <3>4. DayFloor(now) # DayFloor(now')
      BY <1>5 DEF SameDay
    <3> QED BY <3>2, <3>3, <3>4 DEF SameDay
  <2>2. RowsToday' = {}
    BY <1>1, <2>1 DEF RowsToday, SameDay, DayFloor
  <2>3. RequestsToday' = 0 /\ delivered' = 0 /\ Cardinality(Recorded)' = 0
    BY <1>3, <1>5, <2>2, FS_EmptySet DEF RequestsToday, Tick
  <2>4. /\ Cardinality(Outstanding) \in Nat /\ Cardinality(Calls) \in Nat
        /\ Cardinality(Outstanding) <= Cardinality(Calls)
    BY <1>0, QuotaSizes
  <2>5. Cap \in Nat /\ Cap >= 1
    BY DEF QuotaAssumption
  <2>6. SharesBounded' /\ AnswersShared'
    BY <1>3, <2>3, <2>4, <2>5 DEF SharesBounded, AnswersShared
  <2> QED BY <1>2, <2>6 DEF QuotaInv
<1> QED BY <1>4, <1>5

-----------------------------------------------------------------------------
LEMMA QuotaStep == ASSUME QuotaAssumption, QuotaInv, [Next]_vars PROVE QuotaInv'
<1>1. CASE UNCHANGED vars
  BY <1>1 DEF vars, QuotaInv, TypeOK, SharesBounded, AnswersShared, RequestsToday,
       RowsToday, Outstanding, Recorded, SameDay, DayFloor
<1>2. CASE Next
  <2>1. ASSUME NEW c \in Calls, Admit(c) \/ Send(c) \/ Fail(c) \/ Deliver(c)
        PROVE  QuotaInv'
    BY <2>1, CallsKeepInv
  <2>2. ASSUME NEW c \in Calls, Record(c) PROVE QuotaInv'
    BY <2>2, RecordKeepsInv
  <2>3. ASSUME NEW dead \in SUBSET Calls, Crash(dead) PROVE QuotaInv'
    BY <2>3, CrashKeepsInv
  <2>4. ASSUME NEW cutoff \in 0..MaxTime, Purge(cutoff) PROVE QuotaInv'
    BY <2>4, PurgeKeepsInv
  <2>5. CASE Tick
    BY <2>5, TickKeepsInv
  <2> QED BY <1>2, <2>1, <2>2, <2>3, <2>4, <2>5 DEF Next
<1> QED BY <1>1, <1>2

(* The state of the tracker and of its calls is well formed, and every     *)
(* share of the budget is accounted for, in every reachable state.         *)
THEOREM QuotaInvariant == Spec => []QuotaInv
<1>1. Init => QuotaInv
  BY QuotaInit, QuotaAssumption
<1>2. QuotaInv /\ [Next]_vars => QuotaInv'
  BY QuotaStep, QuotaAssumption
<1> QED BY <1>1, <1>2, PTL DEF Spec

(* Row numbers are never reused and no row is from the future.             *)
THEOREM QuotaTyped == Spec => []TypeOK
<1>1. QuotaInv => TypeOK
  BY DEF QuotaInv
<1> QED BY <1>1, QuotaInvariant, PTL

(* However many calls share the tracker, today's count never passes        *)
(* daily_cap by more than one per other call.                              *)
THEOREM OvershootAlwaysBounded == Spec => []OvershootBounded
<1>1. QuotaInv => OvershootBounded
  <2>1. SUFFICES ASSUME QuotaInv PROVE OvershootBounded
    OBVIOUS
  <2>2. TypeOK /\ SharesBounded
    BY <2>1 DEF QuotaInv
  <2>3. /\ RequestsToday \in Nat /\ Cardinality(Outstanding) \in Nat
        /\ Cardinality(Calls) \in Nat /\ Cap \in Nat
    BY <2>2, QuotaSizes, QuotaAssumption DEF QuotaAssumption
  <2> QED BY <2>2, <2>3 DEF SharesBounded, OvershootBounded
<1> QED BY <1>1, QuotaInvariant, PTL

(* No answer handed out today is missing from today's count, across        *)
(* crashes, purges and midnight.                                           *)
THEOREM AnswersAlwaysCounted == Spec => []AnswersAreCounted
<1>1. QuotaInv => AnswersAreCounted
  <2>1. SUFFICES ASSUME QuotaInv PROVE AnswersAreCounted
    OBVIOUS
  <2>2. TypeOK /\ AnswersShared /\ delivered \in Nat
    BY <2>1 DEF QuotaInv, TypeOK
  <2>3. RequestsToday \in Nat /\ Cardinality(Recorded) \in Nat
    BY <2>2, QuotaSizes, QuotaAssumption
  <2> QED BY <2>2, <2>3 DEF AnswersShared, AnswersAreCounted
<1> QED BY <1>1, QuotaInvariant, PTL

-----------------------------------------------------------------------------
(* The budget of EDINET DB inside the clients.                             *)

(* The start of a day is an instant of the clock.                          *)
LEMMA DayFloorIsNat ==
  ASSUME QuotaAssumption, NEW t \in Nat
  PROVE  DayFloor(t) \in 0..t
<1> DEFINE T == TicksPerDay  q == t \div T
<1>2. T \in Nat /\ T > 0
  BY DEF QuotaAssumption
<1>3. t = T * q + (t % T) /\ t % T \in 0..(T - 1) /\ q \in Nat
  BY <1>2
<1>4. T * q \in Nat
  BY <1>2, <1>3
<1>5. DayFloor(t) = T * q
  BY <1>2, <1>3, <1>4 DEF DayFloor
<1> QED BY <1>2, <1>3, <1>4, <1>5

(* What a client does is a step of the tracker, or none.                   *)
LEMMA QuotaTakesItsStep ==
  ASSUME QuotaAssumption, TypeOK, DataNext
  PROVE  [Next]_vars
<1>1. ASSUME NEW c \in Calls, Admit(c) \/ Send(c) \/ Fail(c) \/ Record(c) \/ Deliver(c)
      PROVE  Next
  BY <1>1 DEF Next
<1>2. ASSUME NEW dead \in SUBSET Calls, Crash(dead) PROVE Next
  BY <1>2 DEF Next
<1>3. ASSUME Purge(DayFloor(now)) PROVE Next
  <2>1. DayFloor(now) \in 0..MaxTime
    BY DayFloorIsNat DEF TypeOK, QuotaAssumption
  <2> QED BY <1>3, <2>1 DEF Next
<1>4. CASE \E c \in Calls, k \in Keys :
             \/ GammaAsk(c, k) \/ ClobAsk(c, k) \/ EdinetAsk(c, k)
             \/ JQuantsAsk(c, k) \/ YFinanceAsk(c, k)
             \/ EdinetDbHit(c, k) \/ EdinetDbAsk(c, k) \/ ArchiveAsk(c, k)
  BY <1>1, <1>4 DEF GammaAsk, ClobAsk, EdinetAsk, AskOnce, JQuantsAsk, YFinanceAsk,
       EdinetDbHit, EdinetDbAsk, ArchiveAsk, quota
<1>5. CASE \E c \in Calls :
             \/ Wake(c) \/ GammaAnswer(c) \/ ClobAnswer(c) \/ EdinetAnswer(c)
             \/ JQuantsPage(c) \/ JQuantsRefused(c) \/ JQuantsFails(c) \/ JQuantsResume(c)
             \/ YFinanceEmpty(c) \/ YFinanceRows(c) \/ YFinanceFails(c) \/ YFinanceResume(c)
  BY <1>1, <1>5 DEF Wake, GammaAnswer, ClobAnswer, EdinetAnswer, AnswerOnce,
       JQuantsPage, JQuantsRefused, JQuantsFails, JQuantsResume,
       YFinanceEmpty, YFinanceRows, YFinanceFails, YFinanceResume, quota
<1>6. CASE \E c \in Calls :
             \/ EdinetDbFails(c) \/ EdinetDbAnswer(c) \/ EdinetDbDeliver(c)
             \/ ArchiveAnswer(c) \/ ArchiveReplace(c)
  BY <1>1, <1>6 DEF EdinetDbFails, EdinetDbAnswer, EdinetDbDeliver,
       ArchiveAnswer, ArchiveReplace, quota
<1>7. CASE (\E c \in Calls : Cancel(c)) \/ Restart
  BY <1>2, <1>7 DEF Cancel, Restart, quota
<1>8. CASE Pass \/ PurgeRows
  BY <1>3, <1>8 DEF Pass, PurgeRows, Next
<1> QED BY <1>4, <1>5, <1>6, <1>7, <1>8 DEF DataNext

(* The tracker the clients drive is the tracker specified on its own: its  *)
(* every behaviour in here is one of EdinetDbQuota.                        *)
THEOREM ClientsDriveTheQuota == DataSpec => Spec
<1>1. DataInit => Init /\ QuotaInv
  BY QuotaInit, QuotaAssumption DEF DataInit
<1>2. QuotaInv /\ [DataNext]_dvars => [Next]_vars
  BY QuotaTakesItsStep, QuotaAssumption DEF QuotaInv, dvars, vars
<1>3. QuotaInv /\ [Next]_vars => QuotaInv'
  BY QuotaStep, QuotaAssumption
<1> QED BY <1>1, <1>2, <1>3, PTL DEF Spec, DataSpec

(* So however many requests EDINET DB's callers have in flight, and        *)
(* whatever is cancelled, cached or restarted beside them, the budget is   *)
(* overdrawn by at most one per other call, and no answer is uncounted.    *)
THEOREM ClientsKeepTheBudget == DataSpec => []OvershootBounded /\ []AnswersAreCounted
  BY ClientsDriveTheQuota, OvershootAlwaysBounded, AnswersAlwaysCounted, PTL

-----------------------------------------------------------------------------
(* What a step does to the calls.                                          *)

(* An attempt that may go to the limiter: one that is new, or one whose    *)
(* backoff is over.                                                        *)
Attempt(c, r) ==
  /\ r \in Call
  /\ \/ r.first = 0 /\ r.tries = 0
     \/ /\ r = call[c] /\ r.step = "backoff" /\ r.until <= now
        /\ client = "yfinance" => r.tries < Len(Schedule)
Turn(c) == \E r \in Call : Attempt(c, r) /\ Acquire(c, r)

Awake(c) ==
  /\ call[c].step = "asleep" /\ call[c].until <= now
  /\ Depart(c, call[c])

Quiet(e) == e \in Event /\ e.kind \notin {"sent", "gave_up", "exhausted"}

Rest(c) ==
  /\ call[c].step = "sent" /\ UNCHANGED <<last, sent>>
  /\ \E i \in 1..Len(Schedule) : BackOff(c, Schedule[i])
  /\ event' \in Event /\ event'.kind \notin {"sent", "gave_up"}

Over(c) ==
  /\ \E k \in Keys : call' = [call EXCEPT ![c] = Idle(k)]
  /\ UNCHANGED <<last, sent>>
  /\ event' \in Event /\ event'.kind # "sent"
  /\ event'.kind = "gave_up" =>
       /\ call[c].step = "sent" /\ call[c].tries >= MaxRetries
       /\ event'.n = now - call[c].first

Writes(c) ==
  /\ call[c].step = "sent" /\ UNCHANGED <<last, sent>>
  /\ call' = [call EXCEPT ![c].step = "written"]
  /\ Quiet(event')

Reset ==
  /\ \A c \in Calls : \E k \in Keys : call'[c] = Idle(k)
  /\ call' = [c \in Calls |-> call'[c]]
  /\ last' = 0 /\ sent' = [c \in Calls |-> 0] /\ Quiet(event')

Still == UNCHANGED <<call, last, sent>> /\ Quiet(event')

Shape ==
  \/ \E c \in Calls : Turn(c) \/ Awake(c) \/ Rest(c) \/ Over(c) \/ Writes(c)
  \/ Reset
  \/ Still

(* An attempt of Yahoo's that is under way has a backoff left to take.     *)
TriesFit ==
  client = "yfinance" =>
    \A c \in Calls : call[c].step \in {"asleep", "sent"} => call[c].tries < Len(Schedule)

(* A call that ended is one that can be asked again.                       *)
LEMMA IdleIsCall == ASSUME NEW k \in Keys PROVE Idle(k) \in Call
  BY DEF Idle, Call

(* What the clients ask for first is a new attempt, with retries or        *)
(* without.                                                                *)
LEMMA NewAttempts ==
  ASSUME NEW c \in Calls, NEW k \in Keys
  PROVE  /\ Attempt(c, Idle(k))
         /\ \A b \in BOOLEAN : Attempt(c, [Idle(k) EXCEPT !.retry = b])
  BY DEF Attempt, Idle, Call

(* A step that has nothing to say says none of the events that matter.     *)
LEMMA NothingIsQuiet == Quiet(Nothing) /\ Nothing \in Event
  BY DEF Quiet, Nothing, Event

(* The shapes of what the operators shared between the clients do.         *)
LEMMA SharedShapes ==
  ASSUME DataTypeOK, NEW c \in Calls
  PROVE  /\ Fails(c) => Over(c)
         /\ \A r \in Call : Attempt(c, r) /\ Acquire(c, r) => Turn(c)
         /\ \A k \in Keys : CacheHit(c, k) => Over(c)
<1>1. call[c].key \in Keys
  BY DEF DataTypeOK, Call
<1>2. Fails(c) => Over(c)
  BY <1>1, NothingIsQuiet DEF Fails, End, Over, Nothing, Quiet
<1>3. \A k \in Keys : CacheHit(c, k) => Over(c)
  BY NothingIsQuiet DEF CacheHit, Over, Nothing, Quiet
<1>4. \A r \in Call : Attempt(c, r) /\ Acquire(c, r) => Turn(c)
  BY DEF Turn
<1> QED BY <1>2, <1>3, <1>4

(* Each step of each client has one of the shapes.                         *)
LEMMA StepShape ==
  ASSUME ClientAssumption, QuotaAssumption, TypeOK, DataTypeOK, TriesFit, DataNext
  PROVE  Shape
<1>1. \A c \in Calls : call[c] \in Call /\ call[c].key \in Keys
  BY DEF DataTypeOK, Call
<1>2. ASSUME NEW c \in Calls, NEW k \in Keys,
             \/ GammaAsk(c, k) \/ ClobAsk(c, k) \/ EdinetAsk(c, k)
             \/ JQuantsAsk(c, k) \/ EdinetDbAsk(c, k) \/ ArchiveAsk(c, k)
      PROVE  Turn(c)
  <2>1. Acquire(c, Idle(k))
    BY <1>2 DEF GammaAsk, ClobAsk, EdinetAsk, AskOnce, JQuantsAsk, EdinetDbAsk, ArchiveAsk
  <2> QED BY <2>1, IdleIsCall, NewAttempts, SharedShapes
<1>3. ASSUME NEW c \in Calls, NEW r \in Call, Attempt(c, r), DailyBars(c, r)
      PROVE  Turn(c) \/ Over(c)
  <2>1. r.key \in Keys
    BY DEF Call
  <2>2. CASE CacheHit(c, r.key)
    BY <2>1, <2>2, SharedShapes
  <2>3. CASE Acquire(c, r)
    BY <1>3, <2>3, SharedShapes
  <2> QED BY <1>3, <2>2, <2>3 DEF DailyBars
<1>4. ASSUME NEW c \in Calls, NEW k \in Keys, YFinanceAsk(c, k)
      PROVE  Turn(c) \/ Over(c)
  <2>1. PICK b \in BOOLEAN : DailyBars(c, [Idle(k) EXCEPT !.retry = b])
    BY <1>4 DEF YFinanceAsk
  <2>2. Attempt(c, [Idle(k) EXCEPT !.retry = b])
    BY NewAttempts
  <2>3. [Idle(k) EXCEPT !.retry = b] \in Call
    BY <2>2 DEF Attempt
  <2> QED BY <1>3, <2>1, <2>2, <2>3
<1>5. ASSUME NEW c \in Calls, NEW k \in Keys, EdinetDbHit(c, k) PROVE Over(c)
  BY <1>5, SharedShapes DEF EdinetDbHit
<1>6. ASSUME NEW c \in Calls, Wake(c) PROVE Awake(c)
  BY <1>6 DEF Wake, Awake
<1>7. ASSUME NEW c \in Calls,
             \/ GammaAnswer(c) \/ ClobAnswer(c) \/ EdinetAnswer(c) \/ JQuantsFails(c)
             \/ YFinanceRows(c) \/ YFinanceFails(c) \/ EdinetDbFails(c)
             \/ EdinetDbDeliver(c) \/ Cancel(c)
      PROVE  Over(c)
  <2>1. Fails(c)
    BY <1>7 DEF GammaAnswer, ClobAnswer, EdinetAnswer, AnswerOnce, JQuantsFails,
         YFinanceRows, YFinanceFails, EdinetDbFails, EdinetDbDeliver, Cancel
  <2> QED BY <2>1, SharedShapes
<1>8. ASSUME NEW c \in Calls, JQuantsPage(c) PROVE Over(c) \/ Turn(c)
  BY <1>1, <1>8, IdleIsCall, NewAttempts, SharedShapes DEF JQuantsPage
<1>9. ASSUME NEW c \in Calls, JQuantsRefused(c) PROVE Rest(c) \/ Over(c)
  <2>1. CASE /\ BackOff(c, BackoffAfter(streak)) /\ event' = Nothing
    <3>1. PICK i \in 1..Len(Schedule) : BackoffAfter(streak) = Schedule[i]
      <4>1. Len(Schedule) \in Nat \ {0} /\ streak \in Nat
        BY EmptySeq DEF ClientAssumption, DataTypeOK
      <4> QED BY <4>1 DEF BackoffAfter
    <3>2. BackOff(c, Schedule[i])
      BY <2>1, <3>1
    <3> QED BY <1>9, <2>1, <3>2, NothingIsQuiet DEF JQuantsRefused, Rest, Quiet
  <2>2. CASE /\ call[c].tries >= MaxRetries
             /\ End(c, [kind |-> "gave_up", n |-> now - call[c].first])
    <3>1. now - call[c].first \in Int
      BY <1>1 DEF TypeOK, QuotaAssumption, Call
    <3>2. [kind |-> "gave_up", n |-> now - call[c].first] \in Event
      BY <3>1 DEF Event
    <3> QED BY <1>1, <1>9, <2>2, <3>2 DEF JQuantsRefused, End, Over
  <2> QED BY <1>9, <2>1, <2>2 DEF JQuantsRefused
<1>10. ASSUME NEW c \in Calls, JQuantsResume(c) PROVE Turn(c)
  <2>1. Attempt(c, call[c])
    BY <1>1, <1>10 DEF JQuantsResume, Attempt
  <2> QED BY <1>1, <1>10, <2>1, SharedShapes DEF JQuantsResume
<1>11. ASSUME NEW c \in Calls, YFinanceEmpty(c) PROVE Rest(c) \/ Over(c)
  <2> DEFINE exhausted == [kind |-> "exhausted", n |-> streak']
  <2>1. exhausted \in Event /\ exhausted.kind = "exhausted"
    BY <1>11 DEF YFinanceEmpty, Event, DataTypeOK
  <2>2. CASE Fails(c)
    BY <2>2, SharedShapes
  <2>3. CASE /\ BackOff(c, Schedule[call[c].tries + 1]) /\ event' = exhausted
             /\ UNCHANGED <<last, sent>>
    <3>1. call[c].tries + 1 \in 1..Len(Schedule)
      <4>1. call[c].tries \in Nat /\ Len(Schedule) \in Nat
        BY <1>1 DEF Call, ClientAssumption
      <4>2. call[c].tries < Len(Schedule)
        BY <1>11 DEF YFinanceEmpty, TriesFit
      <4> QED BY <4>1, <4>2
    <3> QED BY <1>11, <2>1, <2>3, <3>1 DEF YFinanceEmpty, Rest
  <2>4. CASE End(c, exhausted) /\ UNCHANGED <<last, sent>>
    BY <1>1, <2>1, <2>4 DEF End, Over
  <2> QED BY <1>11, <2>2, <2>3, <2>4 DEF YFinanceEmpty
<1>12. ASSUME NEW c \in Calls, YFinanceResume(c) PROVE Turn(c) \/ Over(c)
  <2>1. CASE call[c].tries < Len(Schedule) /\ DailyBars(c, call[c])
    <3>1. Attempt(c, call[c])
      BY <1>1, <1>12, <2>1 DEF YFinanceResume, Attempt
    <3> QED BY <1>1, <1>3, <2>1, <3>1
  <2>2. CASE Fails(c)
    BY <2>2, SharedShapes
  <2> QED BY <1>12, <2>1, <2>2 DEF YFinanceResume
<1>13. ASSUME NEW c \in Calls, EdinetDbAnswer(c) PROVE Still
  BY <1>13, NothingIsQuiet DEF EdinetDbAnswer, Still
<1>14. ASSUME NEW c \in Calls, ArchiveAnswer(c) PROVE Writes(c) \/ Over(c)
  <2>1. CASE Fails(c)
    BY <2>1, SharedShapes
  <2>2. CASE /\ call' = [call EXCEPT ![c].step = "written"] /\ event' = Nothing
             /\ UNCHANGED <<last, sent>>
    BY <1>14, <2>2, NothingIsQuiet DEF ArchiveAnswer, Writes
  <2> QED BY <1>14, <2>1, <2>2 DEF ArchiveAnswer
<1>15. ASSUME NEW c \in Calls, ArchiveReplace(c) PROVE Over(c)
  <2>1. CASE Fails(c)
    BY <2>1, SharedShapes
  <2>2. CASE End(c, [kind |-> "lost", n |-> 0]) /\ UNCHANGED <<last, sent>>
    <3>1. [kind |-> "lost", n |-> 0] \in Event
      BY DEF Event
    <3> QED BY <1>1, <2>2, <3>1 DEF End, Over
  <2> QED BY <1>15, <2>1, <2>2 DEF ArchiveReplace
<1>16. Restart => Reset
  BY <1>1, NothingIsQuiet DEF Restart, Reset
<1>17. Pass \/ PurgeRows => Still
  BY NothingIsQuiet DEF Pass, PurgeRows, Still
<1> QED
  BY <1>2, <1>4, <1>5, <1>6, <1>7, <1>8, <1>9, <1>10, <1>11, <1>12, <1>13, <1>14,
     <1>15, <1>16, <1>17 DEF DataNext, Shape

(* The clock does not go back, and nobody changes clients.                 *)
LEMMA ClockMovesOn ==
  ASSUME QuotaAssumption, TypeOK, DataNext
  PROVE  /\ now \in Nat /\ now' \in Nat /\ now <= now' /\ now <= MaxTime
         /\ MaxTime \in Nat /\ (Pass \/ now' = now)
         /\ client' = client
<1>1. now \in Nat /\ now <= MaxTime /\ MaxTime \in Nat
  BY DEF TypeOK, QuotaAssumption
<1>2. client' = client
  BY DEF DataNext, GammaAsk, ClobAsk, EdinetAsk, AskOnce, JQuantsAsk, YFinanceAsk,
       EdinetDbHit, EdinetDbAsk, ArchiveAsk, Wake, GammaAnswer, ClobAnswer, EdinetAnswer,
       AnswerOnce, JQuantsPage, JQuantsRefused, JQuantsFails, JQuantsResume, YFinanceEmpty,
       YFinanceRows, YFinanceFails, YFinanceResume, EdinetDbFails, EdinetDbAnswer,
       EdinetDbDeliver, ArchiveAnswer, ArchiveReplace, Cancel, Restart, Pass, PurgeRows
<1>3. Pass \/ now' = now
  BY DEF DataNext, GammaAsk, ClobAsk, EdinetAsk, AskOnce, JQuantsAsk, YFinanceAsk,
       EdinetDbHit, EdinetDbAsk, ArchiveAsk, Wake, GammaAnswer, ClobAnswer, EdinetAnswer,
       AnswerOnce, JQuantsPage, JQuantsRefused, JQuantsFails, JQuantsResume, YFinanceEmpty,
       YFinanceRows, YFinanceFails, YFinanceResume, EdinetDbFails, EdinetDbAnswer,
       EdinetDbDeliver, ArchiveAnswer, ArchiveReplace, Cancel, Restart, PurgeRows,
       Admit, Send, Fail, Record, Deliver, Crash, Purge, quota, vars
<1>4. Pass => now' = now + 1
  BY DEF Pass, Tick
<1> QED BY <1>1, <1>2, <1>3, <1>4

-----------------------------------------------------------------------------
(* The requests of one caller, and the backoffs of one call.               *)

Least == Schedule[1]

(* No backoff is shorter than the first, as in both the schedules the      *)
(* clients are built with: 30, 60 and 90 seconds, and 5, 10 and 15.        *)
GradualSchedule == \A i \in 1..Len(Schedule) : Schedule[i] >= Least

CallsTyped ==
  /\ client \in Clients /\ last \in 0..MaxTime
  /\ call \in [Calls -> Call] /\ sent \in [Calls -> 0..MaxTime] /\ event \in Event

(* A caller's latest request is no later than the client's, and a call     *)
(* asleep does not wake before the interval since its own is over.         *)
TurnsKept ==
  \A c \in Calls :
    /\ sent[c] <= last
    /\ call[c].step = "asleep" /\ sent[c] # 0 => sent[c] + Gap <= call[c].until

(* Every retry that was refused has been waited for: a call under way has  *)
(* lasted the first backoff for each of them, and one in a backoff will    *)
(* have, when it is over.  A call that has not sent has not been refused.  *)
RefusalsWaitedFor ==
  \A c \in Calls :
    /\ call[c].first = 0 => call[c].tries = 0
    /\ call[c].step \in {"sent", "backoff", "written"} => call[c].first # 0
    /\ call[c].step \in {"sent", "asleep"} /\ call[c].first # 0 =>
         call[c].first + call[c].tries * Least <= now
    /\ call[c].step = "backoff" => call[c].first + call[c].tries * Least <= call[c].until

(* The clock has left zero, so a time of zero says never.                  *)
ClockStarted == now > 0 /\ last <= now

PaceInv == CallsTyped /\ TriesFit /\ TurnsKept /\ ClockStarted

(* What the assumption on the constants says of the client looked at.      *)
LEMMA ClientFacts ==
  ASSUME ClientAssumption, client \in Clients
  PROVE  Gap \in Nat /\ Len(Schedule) \in Nat \ {0} /\ Least \in Nat
         /\ \A i \in 1..Len(Schedule) : Schedule[i] \in Nat
<1>1. Gap \in Nat
  BY DEF ClientAssumption, Gap
<1>2. Len(Schedule) \in Nat \ {0} /\ \A i \in 1..Len(Schedule) : Schedule[i] \in Nat
  BY EmptySeq, ElementOfSeq DEF ClientAssumption
<1> QED BY <1>1, <1>2 DEF Least

(* What Depart and Sleep make of the call they are given.                  *)
LEMMA DepartEffect ==
  ASSUME CallsTyped, TypeOK, QuotaAssumption, ClientAssumption,
         NEW c \in Calls, NEW r \in Call, Depart(c, r)
  PROVE  /\ call' \in [Calls -> Call] /\ last' = now
         /\ sent' = [sent EXCEPT ![c] = now] /\ sent' \in [Calls -> 0..MaxTime]
         /\ call'[c].step = "sent" /\ call'[c].tries = r.tries
         /\ call'[c].first = IF r.first = 0 THEN now ELSE r.first
         /\ \A d \in Calls \ {c} : call'[d] = call[d] /\ sent'[d] = sent[d]
         /\ event'.kind = "sent" /\ event' \in Event
         /\ event'.n = IF sent[c] = 0 THEN Gap ELSE now - sent[c]
<1>1. now \in Nat /\ now \in 0..MaxTime /\ MaxTime \in Nat /\ Gap \in Nat
  BY ClientFacts DEF TypeOK, QuotaAssumption, CallsTyped
<1> DEFINE s == [r EXCEPT !.step = "sent", !.first = IF @ = 0 THEN now ELSE @]
<1>2. s \in Call /\ s.step = "sent" /\ s.tries = r.tries
      /\ s.first = IF r.first = 0 THEN now ELSE r.first
  BY <1>1 DEF Call
<1>3. call' = [call EXCEPT ![c] = s] /\ last' = now /\ sent' = [sent EXCEPT ![c] = now]
      /\ event' = [kind |-> "sent", n |-> IF sent[c] = 0 THEN Gap ELSE now - sent[c]]
  BY DEF Depart
<1>4. sent[c] \in Int
  BY <1>1 DEF CallsTyped
<1>5. event' \in Event
  BY <1>1, <1>3, <1>4 DEF Event
<1> HIDE DEF s
<1> QED BY <1>1, <1>2, <1>3, <1>5 DEF CallsTyped

(* A call put to sleep keeps its count of refusals and its beginning.      *)
LEMMA SleepEffect ==
  ASSUME CallsTyped, NEW c \in Calls, NEW r \in Call, NEW t \in Nat, Sleep(c, r, t)
  PROVE  /\ call' \in [Calls -> Call] /\ UNCHANGED <<last, sent>>
         /\ call'[c].step = "asleep" /\ call'[c].until = t
         /\ call'[c].tries = r.tries /\ call'[c].first = r.first
         /\ \A d \in Calls \ {c} : call'[d] = call[d]
         /\ event' = Nothing
<1> DEFINE s == [r EXCEPT !.step = "asleep", !.until = t]
<1>1. s \in Call /\ s.step = "asleep" /\ s.until = t /\ s.tries = r.tries /\ s.first = r.first
  BY DEF Call
<1>2. call' = [call EXCEPT ![c] = s] /\ event' = Nothing /\ UNCHANGED <<last, sent>>
  BY DEF Sleep
<1> HIDE DEF s
<1> QED BY <1>1, <1>2 DEF CallsTyped

(* A refusal is counted, and waited for from now on.                       *)
LEMMA RestEffect ==
  ASSUME CallsTyped, TypeOK, QuotaAssumption, ClientAssumption, NEW c \in Calls, Rest(c)
  PROVE  /\ call' \in [Calls -> Call] /\ UNCHANGED <<last, sent>>
         /\ call[c].step = "sent" /\ call'[c].step = "backoff"
         /\ call'[c].first = call[c].first /\ call'[c].tries = call[c].tries + 1
         /\ \E i \in 1..Len(Schedule) : call'[c].until = now + Schedule[i]
         /\ \A d \in Calls \ {c} : call'[d] = call[d]
         /\ event' \in Event /\ event'.kind \notin {"sent", "gave_up"}
<1>1. PICK i \in 1..Len(Schedule) : BackOff(c, Schedule[i])
  BY DEF Rest
<1>2. now \in Nat /\ Schedule[i] \in Nat /\ call[c] \in Call
  BY <1>1, ClientFacts DEF TypeOK, QuotaAssumption, CallsTyped
<1> DEFINE x == call[c]  u == now + Schedule[i]  t == x.tries + 1
           s == [x EXCEPT !.step = "backoff", !.until = u, !.tries = t]
<1>3. s \in Call /\ s.step = "backoff" /\ s.first = x.first /\ s.tries = t /\ s.until = u
  <2>1. x \in Call /\ u \in Nat /\ t \in Nat
    BY <1>2 DEF Call
  <2> HIDE DEF x, u, t
  <2> QED BY <2>1 DEF Call
<1>4. call' = [call EXCEPT ![c] = s]
  BY <1>1, <1>2 DEF BackOff, CallsTyped, Call
<1> HIDE DEF s
<1> QED BY <1>1, <1>3, <1>4 DEF CallsTyped, Rest

-----------------------------------------------------------------------------
(* The answers of Yahoo Finance, and the files of the archive.             *)

(* The streak counts the empty answers at the end of what was heard.       *)
StreakIsEmpties ==
  /\ heard \in Seq({"empty", "rows"}) /\ Len(heard) <= EmptyLimit /\ streak \in Nat
  /\ client = "yfinance" =>
       /\ Len(heard) = EmptyLimit \/ streak <= Len(heard)
       /\ \A i \in 1..Len(heard) : i > Len(heard) - streak => heard[i] = "empty"

(* A file that was torn has no download left that would rename it.         *)
NothingTornIsRenamed ==
  /\ disk \in [target : File, tmp : File]
  /\ disk.target # "torn"
  /\ \A c \in Calls : call[c].step = "written" => disk.tmp # "torn"

CacheTyped == cache \in [Keys -> 0..(MaxTime + Ttl)]

ClientInv ==
  /\ PaceInv /\ StreakIsEmpties /\ NothingTornIsRenamed /\ CacheTyped
  /\ PacedByCaller /\ ExhaustedMeansEmpties

-----------------------------------------------------------------------------
(* Every shape keeps the pace.                                             *)

PaceStep == CallsTyped' /\ TriesFit' /\ TurnsKept' /\ ClockStarted' /\ PacedByCaller'

(* A turn that finds the interval over, and a sleeper that wakes.          *)
LEMMA DepartKeepsPace ==
  ASSUME ClientAssumption, QuotaAssumption, TypeOK, TypeOK', PaceInv,
         client' = client, now' = now,
         NEW c \in Calls, NEW r \in Call, Depart(c, r),
         client = "yfinance" => r.tries < Len(Schedule),
         sent[c] # 0 => sent[c] + Gap <= now
  PROVE  PaceStep
<1>1. /\ now \in Nat /\ now \in 0..MaxTime /\ now > 0 /\ Gap \in Nat /\ Gap' = Gap
      /\ sent[c] \in Nat /\ last \in Nat /\ last <= now
  BY ClientFacts DEF PaceInv, CallsTyped, ClockStarted, TypeOK, QuotaAssumption, Gap
<1>2. /\ call' \in [Calls -> Call] /\ last' = now
      /\ sent' = [sent EXCEPT ![c] = now] /\ sent' \in [Calls -> 0..MaxTime]
      /\ call'[c].step = "sent" /\ call'[c].tries = r.tries
      /\ \A d \in Calls \ {c} : call'[d] = call[d] /\ sent'[d] = sent[d]
      /\ event'.kind = "sent" /\ event' \in Event
      /\ event'.n = IF sent[c] = 0 THEN Gap ELSE now - sent[c]
  BY DepartEffect DEF PaceInv
<1>3. CallsTyped'
  BY <1>1, <1>2 DEF CallsTyped, PaceInv
<1>4. TriesFit'
  BY <1>2 DEF TriesFit, PaceInv
<1>5. TurnsKept'
  <2>1. ASSUME NEW d \in Calls
        PROVE  /\ sent'[d] <= last'
               /\ call'[d].step = "asleep" /\ sent'[d] # 0 => sent'[d] + Gap' <= call'[d].until
    <3>1. CASE d = c
      BY <1>1, <1>2, <3>1 DEF PaceInv, CallsTyped
    <3>2. CASE d # c
      <4>1. call'[d] = call[d] /\ sent'[d] = sent[d] /\ sent[d] \in Nat
        BY <1>2, <3>2 DEF PaceInv, CallsTyped
      <4> QED BY <1>1, <1>2, <4>1 DEF PaceInv, TurnsKept
    <3> QED BY <3>1, <3>2
  <2> QED BY <2>1 DEF TurnsKept
<1>6. ClockStarted'
  BY <1>1, <1>2 DEF ClockStarted
<1>7. PacedByCaller'
  BY <1>1, <1>2 DEF PacedByCaller
<1> QED BY <1>3, <1>4, <1>5, <1>6, <1>7 DEF PaceStep

(* Any shape that sends nothing, when the calls it puts to sleep wait for  *)
(* their own interval.                                                     *)
LEMMA NoDepartureKeepsPace ==
  ASSUME ClientAssumption, QuotaAssumption, TypeOK, TypeOK', PaceInv,
         client' = client, now <= now', UNCHANGED <<last, sent>>,
         call' \in [Calls -> Call], event' \in Event, event'.kind # "sent",
         \A c \in Calls :
           \/ call'[c] = call[c]
           \/ /\ call'[c].step # "sent"
              /\ call'[c].step = "asleep" =>
                   /\ client = "yfinance" => call'[c].tries < Len(Schedule)
                   /\ sent[c] # 0 => sent[c] + Gap <= call'[c].until
  PROVE  PaceStep
<1>1. CallsTyped' /\ ClockStarted'
  BY DEF PaceInv, CallsTyped, ClockStarted, TypeOK, QuotaAssumption
<1>2. TriesFit'
  BY DEF PaceInv, TriesFit
<1>3. TurnsKept'
  BY DEF PaceInv, TurnsKept, Gap
<1>4. PacedByCaller'
  BY DEF PacedByCaller
<1> QED BY <1>1, <1>2, <1>3, <1>4 DEF PaceStep

(* Every shape keeps the pace: only a departure is seen by the limiter.    *)
LEMMA ShapesKeepPace ==
  ASSUME ClientAssumption, QuotaAssumption, TypeOK, TypeOK', PaceInv, DataNext, Shape
  PROVE  PaceStep
<1>1. /\ now \in Nat /\ now' \in Nat /\ now <= now' /\ (Pass \/ now' = now)
      /\ client' = client
  BY ClockMovesOn
<1>2. /\ Gap \in Nat /\ Gap' = Gap /\ last \in Nat /\ last <= now
      /\ \A c \in Calls : call[c] \in Call /\ sent[c] \in Nat /\ sent[c] <= last
  BY <1>1, ClientFacts DEF PaceInv, CallsTyped, TurnsKept, ClockStarted, QuotaAssumption, Gap
<1>3. Pass => Still
  BY NothingIsQuiet DEF Pass, Still
<1>4. Still => PaceStep
  BY <1>1, NoDepartureKeepsPace DEF Still, Quiet, PaceInv, CallsTyped
<1>5. ASSUME NEW c \in Calls, Turn(c), now' = now PROVE PaceStep
  <2>1. PICK r \in Call : Attempt(c, r) /\ Acquire(c, r)
    BY <1>5 DEF Turn
  <2>2. client = "yfinance" => r.tries < Len(Schedule)
    BY <2>1, ClientFacts DEF Attempt, PaceInv, CallsTyped
  <2>3. CASE NextTurn > now
    <3>1. last # 0 /\ Gap # 0 /\ NextTurn = last + Gap /\ NextTurn \in Nat
      BY <1>1, <1>2, <2>3 DEF NextTurn
    <3>2. Sleep(c, r, NextTurn)
      BY <2>1, <2>3 DEF Acquire
    <3>3. /\ call' \in [Calls -> Call] /\ UNCHANGED <<last, sent>>
          /\ call'[c].step = "asleep" /\ call'[c].until = NextTurn
          /\ call'[c].tries = r.tries
          /\ \A d \in Calls \ {c} : call'[d] = call[d]
          /\ event' = Nothing
      BY <3>1, <3>2, SleepEffect DEF PaceInv
    <3>4. event' \in Event /\ event'.kind # "sent"
      BY <3>3, NothingIsQuiet DEF Nothing
    <3> QED BY <1>1, <1>2, <2>2, <3>1, <3>3, <3>4, NoDepartureKeepsPace
  <2>4. CASE ~(NextTurn > now)
    <3>1. Depart(c, r)
      BY <2>1, <2>4 DEF Acquire
    <3>2. sent[c] # 0 => sent[c] + Gap <= now
      BY <1>1, <1>2, <2>4 DEF NextTurn
    <3> QED BY <1>1, <1>5, <2>2, <3>1, <3>2, DepartKeepsPace
  <2> QED BY <2>3, <2>4
<1>6. ASSUME NEW c \in Calls, Awake(c), now' = now PROVE PaceStep
  <2>1. call[c] \in Call /\ Depart(c, call[c]) /\ call[c].until \in Nat
    BY <1>2, <1>6 DEF Awake, Call
  <2>2. client = "yfinance" => call[c].tries < Len(Schedule)
    BY <1>6 DEF Awake, PaceInv, TriesFit
  <2>3. sent[c] # 0 => sent[c] + Gap <= now
    BY <1>1, <1>2, <1>6, <2>1 DEF Awake, PaceInv, TurnsKept
  <2> QED BY <1>1, <1>6, <2>1, <2>2, <2>3, DepartKeepsPace
<1>7. ASSUME NEW c \in Calls, Rest(c) PROVE PaceStep
  <2>1. /\ call' \in [Calls -> Call] /\ UNCHANGED <<last, sent>>
        /\ call'[c].step = "backoff"
        /\ \A d \in Calls \ {c} : call'[d] = call[d]
        /\ event' \in Event /\ event'.kind \notin {"sent", "gave_up"}
    BY <1>7, RestEffect DEF PaceInv
  <2> QED BY <1>1, <2>1, NoDepartureKeepsPace
<1>8. ASSUME NEW c \in Calls, Over(c) PROVE PaceStep
  <2>1. PICK k \in Keys : call' = [call EXCEPT ![c] = Idle(k)]
    BY <1>8 DEF Over
  <2>2. /\ call' \in [Calls -> Call] /\ call'[c].step = "idle"
        /\ \A d \in Calls \ {c} : call'[d] = call[d]
    BY <2>1, IdleIsCall DEF PaceInv, CallsTyped, Idle
  <2>3. UNCHANGED <<last, sent>> /\ event' \in Event /\ event'.kind # "sent"
    BY <1>8 DEF Over
  <2> QED BY <1>1, <2>2, <2>3, NoDepartureKeepsPace
<1>9. ASSUME NEW c \in Calls, Writes(c) PROVE PaceStep
  <2>1. call' = [call EXCEPT ![c] = [call[c] EXCEPT !.step = "written"]]
    BY <1>9 DEF Writes
  <2>2. /\ call' \in [Calls -> Call] /\ call'[c].step = "written"
        /\ \A d \in Calls \ {c} : call'[d] = call[d]
    BY <1>2, <2>1 DEF PaceInv, CallsTyped, Call
  <2>3. UNCHANGED <<last, sent>> /\ event' \in Event /\ event'.kind # "sent"
    BY <1>9 DEF Writes, Quiet
  <2> QED BY <1>1, <2>2, <2>3, NoDepartureKeepsPace
<1>10. ASSUME Reset, now' = now PROVE PaceStep
  <2>1. /\ call' \in [Calls -> Call] /\ \A c \in Calls : call'[c].step = "idle"
        /\ last' = 0 /\ sent' \in [Calls -> 0..MaxTime] /\ \A c \in Calls : sent'[c] = 0
        /\ event' \in Event /\ event'.kind # "sent"
    BY <1>10, IdleIsCall DEF Reset, Idle, Quiet, QuotaAssumption
  <2>2. CallsTyped' /\ ClockStarted'
    BY <1>1, <1>10, <2>1 DEF PaceInv, CallsTyped, ClockStarted, QuotaAssumption
  <2>3. TriesFit' /\ TurnsKept' /\ PacedByCaller'
    BY <2>1 DEF TriesFit, TurnsKept, PacedByCaller
  <2> QED BY <2>2, <2>3 DEF PaceStep
<1> QED BY <1>1, <1>3, <1>4, <1>5, <1>6, <1>7, <1>8, <1>9, <1>10 DEF Shape

-----------------------------------------------------------------------------
(* The backoffs of a call that gives up.                                   *)

(* One refusal more is one first backoff more.                             *)
LEMMA OneMore ==
  ASSUME NEW n \in Nat, NEW b \in Nat
  PROVE  /\ n * b \in Nat /\ (n + 1) * b = n * b + b /\ 0 * b = 0
         /\ \A m \in Nat : m <= n => m * b <= n * b
<1>1. n * b \in Nat /\ (n + 1) * b = n * b + b /\ 0 * b = 0
  OBVIOUS
<1>2. ASSUME NEW m \in Nat, m <= n PROVE m * b <= n * b
  <2>1. PICK k \in Nat : n = m + k
    BY <1>2, n - m \in Nat
  <2>2. (m + k) * b = m * b + k * b /\ m * b \in Nat /\ k * b \in Nat
    OBVIOUS
  <2> QED BY <2>1, <2>2
<1> QED BY <1>1, <1>2

Waited(x, t) ==
  /\ x.first = 0 => x.tries = 0
  /\ x.step \in {"sent", "backoff", "written"} => x.first # 0
  /\ x.step \in {"sent", "asleep"} /\ x.first # 0 => x.first + x.tries * Least <= t
  /\ x.step = "backoff" => x.first + x.tries * Least <= x.until

(* Time only helps.                                                        *)
LEMMA WaitingHolds ==
  ASSUME Least \in Nat, NEW x \in Call, NEW t \in Nat, NEW u \in Nat, t <= u, Waited(x, t)
  PROVE  Waited(x, u)
<1>1. x.first \in Nat /\ x.tries \in Nat /\ x.tries * Least \in Nat
  BY OneMore DEF Call
<1> QED BY <1>1 DEF Waited

(* A request that may be sent or put to sleep: new, or waited for.         *)
Ready(r, t) ==
  \/ r.first = 0 /\ r.tries = 0
  \/ r.first # 0 /\ r.first + r.tries * Least <= t

(* Every shape keeps the account of refusals and waits.                    *)
LEMMA ShapesWait ==
  ASSUME ClientAssumption, QuotaAssumption, GradualSchedule, TypeOK, PaceInv,
         RefusalsWaitedFor, DataNext, Shape
  PROVE  RefusalsWaitedFor' /\ GiveUpOutlasts'
<1>1. /\ now \in Nat /\ now' \in Nat /\ now <= now' /\ (Pass \/ now' = now) /\ now > 0
      /\ Least \in Nat /\ Len(Schedule) \in Nat \ {0} /\ MaxRetries \in Nat
      /\ \A i \in 1..Len(Schedule) : Schedule[i] \in Nat
      /\ CallsTyped
  BY ClockMovesOn, ClientFacts DEF PaceInv, CallsTyped, ClockStarted, ClientAssumption
<1>2. \A c \in Calls : call[c] \in Call /\ Waited(call[c], now)
  BY <1>1 DEF RefusalsWaitedFor, Waited, CallsTyped
<1>3. \A c \in Calls : call'[c] = call[c] => Waited(call'[c], now')
  BY <1>1, <1>2, WaitingHolds
<1>4. SUFFICES /\ \A c \in Calls : Waited(call'[c], now')
               /\ event'.kind = "gave_up" => event'.n >= MaxRetries * Least
  BY DEF RefusalsWaitedFor, Waited, GiveUpOutlasts, Least
<1>5. CASE Still
  BY <1>3, <1>5 DEF Still, Quiet
<1>6. ASSUME NEW c \in Calls, NEW r \in Call, Ready(r, now), Depart(c, r)
      PROVE  /\ \A d \in Calls : Waited(call'[d], now')
             /\ event'.kind = "gave_up" => event'.n >= MaxRetries * Least
  <2>1. /\ call'[c].step = "sent" /\ call'[c].tries = r.tries
        /\ call'[c].first = IF r.first = 0 THEN now ELSE r.first
        /\ \A d \in Calls \ {c} : call'[d] = call[d]
        /\ event'.kind = "sent" /\ call' \in [Calls -> Call]
    BY <1>1, <1>6, DepartEffect
  <2>2. r.first \in Nat /\ r.tries \in Nat /\ r.tries * Least \in Nat /\ 0 * Least = 0
    BY <1>1, OneMore DEF Call
  <2>3. Waited(call'[c], now)
    BY <1>1, <1>6, <2>1, <2>2 DEF Waited, Ready
  <2>4. Waited(call'[c], now')
    BY <1>1, <2>1, <2>3, WaitingHolds
  <2> QED BY <1>3, <2>1, <2>4
<1>7. ASSUME NEW c \in Calls, NEW r \in Call, Ready(r, now), NEW t \in Nat, Sleep(c, r, t)
      PROVE  /\ \A d \in Calls : Waited(call'[d], now')
             /\ event'.kind = "gave_up" => event'.n >= MaxRetries * Least
  <2>1. /\ call'[c].step = "asleep" /\ call'[c].tries = r.tries /\ call'[c].first = r.first
        /\ \A d \in Calls \ {c} : call'[d] = call[d]
        /\ event' = Nothing /\ call' \in [Calls -> Call]
    BY <1>1, <1>7, SleepEffect
  <2>2. Waited(call'[c], now)
    BY <1>7, <2>1 DEF Waited, Ready
  <2>3. Waited(call'[c], now')
    BY <1>1, <2>1, <2>2, WaitingHolds
  <2> QED BY <1>3, <2>1, <2>3 DEF Nothing
<1>8. ASSUME NEW c \in Calls, Turn(c)
      PROVE  /\ \A d \in Calls : Waited(call'[d], now')
             /\ event'.kind = "gave_up" => event'.n >= MaxRetries * Least
  <2>1. PICK r \in Call : Attempt(c, r) /\ Acquire(c, r)
    BY <1>8 DEF Turn
  <2>2. r.first \in Nat /\ r.tries * Least \in Nat /\ r.until \in Nat
    BY <1>1, OneMore DEF Call
  <2>3. Ready(r, now)
    BY <1>1, <1>2, <2>1, <2>2 DEF Attempt, Ready, Waited
  <2>4. NextTurn \in Nat
    BY <1>1, ClientFacts DEF NextTurn, CallsTyped, QuotaAssumption
  <2> QED BY <1>6, <1>7, <2>1, <2>3, <2>4 DEF Acquire
<1>9. ASSUME NEW c \in Calls, Awake(c)
      PROVE  /\ \A d \in Calls : Waited(call'[d], now')
             /\ event'.kind = "gave_up" => event'.n >= MaxRetries * Least
  <2>1. Ready(call[c], now)
    BY <1>2, <1>9 DEF Awake, Ready, Waited
  <2> QED BY <1>2, <1>6, <1>9, <2>1 DEF Awake
<1>10. ASSUME NEW c \in Calls, Rest(c)
       PROVE  /\ \A d \in Calls : Waited(call'[d], now')
              /\ event'.kind = "gave_up" => event'.n >= MaxRetries * Least
  <2>1. /\ call[c].step = "sent" /\ call'[c].step = "backoff"
        /\ call'[c].first = call[c].first /\ call'[c].tries = call[c].tries + 1
        /\ \A d \in Calls \ {c} : call'[d] = call[d]
        /\ event'.kind \notin {"sent", "gave_up"} /\ call' \in [Calls -> Call]
    BY <1>1, <1>10, RestEffect
  <2>2. PICK i \in 1..Len(Schedule) : call'[c].until = now + Schedule[i]
    BY <1>1, <1>10, RestEffect
  <2>3. Schedule[i] \in Nat /\ Schedule[i] >= Least
    BY <1>1, <2>2 DEF GradualSchedule
  <2> DEFINE f == call[c].first  n == call[c].tries
  <2>4. f \in Nat /\ n \in Nat /\ n * Least \in Nat /\ (n + 1) * Least = n * Least + Least
    BY <1>1, <1>2, OneMore DEF Call
  <2>5. f # 0 /\ f + n * Least <= now
    BY <1>2, <2>1 DEF Waited
  <2>6. f + (n + 1) * Least <= now + Schedule[i]
    <3> DEFINE p == n * Least  q == (n + 1) * Least
    <3>1. p \in Nat /\ q = p + Least /\ f + p <= now /\ f \in Nat
      BY <2>4, <2>5
    <3> HIDE DEF p, q, f
    <3>2. f + q <= now + Schedule[i]
      BY <1>1, <2>3, <3>1
    <3> QED BY <3>2 DEF q
  <2>7. Waited(call'[c], now')
    BY <2>1, <2>2, <2>5, <2>6 DEF Waited
  <2> QED BY <1>3, <2>1, <2>7
<1>11. ASSUME NEW c \in Calls, Over(c)
       PROVE  /\ \A d \in Calls : Waited(call'[d], now')
              /\ event'.kind = "gave_up" => event'.n >= MaxRetries * Least
  <2>1. PICK k \in Keys : call' = [call EXCEPT ![c] = Idle(k)]
    BY <1>11 DEF Over
  <2>2. \A d \in Calls : Waited(call'[d], now')
    BY <1>1, <1>3, <2>1 DEF Waited, Idle, CallsTyped
  <2>3. ASSUME event'.kind = "gave_up" PROVE event'.n >= MaxRetries * Least
    <3> DEFINE f == call[c].first  n == call[c].tries
    <3>1. /\ call[c].step = "sent" /\ n >= MaxRetries /\ event'.n = now - f
      BY <1>11, <2>3 DEF Over
    <3>2. f \in Nat /\ n \in Nat
      BY <1>2 DEF Call
    <3>3. n * Least \in Nat /\ MaxRetries * Least <= n * Least /\ MaxRetries * Least \in Nat
      BY <1>1, <3>1, <3>2, OneMore
    <3>4. f + n * Least <= now
      BY <1>2, <3>1 DEF Waited
    <3> DEFINE p == n * Least  q == MaxRetries * Least
    <3>5. p \in Nat /\ q \in Nat /\ q <= p /\ f + p <= now /\ event'.n = now - f
      BY <3>1, <3>3, <3>4
    <3> HIDE DEF p, q, f
    <3> QED BY <1>1, <3>2, <3>5 DEF q
  <2> QED BY <2>2, <2>3
<1>12. ASSUME NEW c \in Calls, Writes(c)
       PROVE  /\ \A d \in Calls : Waited(call'[d], now')
              /\ event'.kind = "gave_up" => event'.n >= MaxRetries * Least
  <2>1. call' = [call EXCEPT ![c] = [call[c] EXCEPT !.step = "written"]]
    BY <1>12 DEF Writes
  <2>2. /\ call'[c].step = "written" /\ call'[c].first = call[c].first
        /\ call'[c].tries = call[c].tries
        /\ \A d \in Calls \ {c} : call'[d] = call[d]
    BY <1>1, <1>2, <2>1 DEF CallsTyped, Call
  <2>3. Waited(call'[c], now')
    BY <1>2, <1>12, <2>2 DEF Waited, Writes
  <2> QED BY <1>3, <1>12, <2>2, <2>3 DEF Writes, Quiet
<1>13. ASSUME Reset
       PROVE  /\ \A d \in Calls : Waited(call'[d], now')
              /\ event'.kind = "gave_up" => event'.n >= MaxRetries * Least
  BY <1>13 DEF Reset, Waited, Idle, Quiet
<1> QED BY <1>5, <1>8, <1>9, <1>10, <1>11, <1>12, <1>13 DEF Shape

-----------------------------------------------------------------------------
(* Every step keeps the count of empty answers and the files whole.        *)

(* The streak stays the number of empty answers at the end of what was     *)
(* heard, however the calls that heard them interleave.                    *)
LEMMA EmptiesKept ==
  ASSUME ClientAssumption, PaceInv, StreakIsEmpties, ExhaustedMeansEmpties, DataNext,
         client' = client
  PROVE  StreakIsEmpties' /\ ExhaustedMeansEmpties'
<1> DEFINE E == {"empty", "rows"}
           Count(h, n) == /\ Len(h) = EmptyLimit \/ n <= Len(h)
                          /\ \A i \in 1..Len(h) : i > Len(h) - n => h[i] = "empty"
<1>1. /\ heard \in Seq(E) /\ Len(heard) <= EmptyLimit /\ Len(heard) \in Nat /\ streak \in Nat
      /\ EmptyLimit \in Nat \ {0} /\ (client = "yfinance" => Count(heard, streak))
  BY LenProperties DEF StreakIsEmpties, ClientAssumption
<1>2. SUFFICES /\ heard' \in Seq(E) /\ Len(heard') <= EmptyLimit /\ streak' \in Nat
               /\ client = "yfinance" => Count(heard', streak')
               /\ event'.kind = "exhausted" =>
                    /\ Len(heard') = EmptyLimit
                    /\ \A i \in 1..EmptyLimit : heard'[i] = "empty"
  BY DEF StreakIsEmpties, ExhaustedMeansEmpties
<1>3. ASSUME NEW x \in E, Heard(x)
      PROVE  /\ heard' \in Seq(E) /\ Len(heard') \in Nat /\ Len(heard') <= EmptyLimit
             /\ heard'[Len(heard')] = x
             /\ Len(heard') = IF Len(heard) < EmptyLimit THEN Len(heard) + 1 ELSE EmptyLimit
             /\ \A i \in 1..(Len(heard') - 1) :
                  heard'[i] = IF Len(heard) < EmptyLimit THEN heard[i] ELSE heard[i + 1]
  <2>1. CASE Len(heard) < EmptyLimit
    <3>1. heard' = Append(heard, x)
      BY <1>3, <2>1 DEF Heard
    <3> QED BY <1>1, <2>1, <3>1, AppendProperties
  <2>2. CASE ~(Len(heard) < EmptyLimit)
    <3>1. heard' = Append(Tail(heard), x) /\ heard # <<>> /\ Len(heard) = EmptyLimit
      BY <1>1, <1>3, <2>2, EmptySeq DEF Heard
    <3>2. /\ Tail(heard) \in Seq(E) /\ Len(Tail(heard)) = EmptyLimit - 1
          /\ \A i \in 1..(EmptyLimit - 1) : Tail(heard)[i] = heard[i + 1]
      BY <1>1, <3>1, HeadTailProperties
    <3>3. /\ heard' \in Seq(E) /\ Len(heard') = EmptyLimit /\ heard'[EmptyLimit] = x
          /\ \A i \in 1..(EmptyLimit - 1) : heard'[i] = Tail(heard)[i]
      BY <1>1, <3>1, <3>2, AppendProperties
    <3> QED BY <1>1, <2>2, <3>2, <3>3
  <2> QED BY <2>1, <2>2
<1>4. ASSUME NEW c \in Calls, YFinanceEmpty(c)
      PROVE  /\ heard' \in Seq(E) /\ Len(heard') <= EmptyLimit /\ streak' \in Nat
             /\ Count(heard', streak')
             /\ event'.kind = "exhausted" =>
                    /\ Len(heard') = EmptyLimit
                    /\ \A i \in 1..EmptyLimit : heard'[i] = "empty"
  <2>1. Heard("empty") /\ streak' = streak + 1 /\ client = "yfinance"
    BY <1>4 DEF YFinanceEmpty
  <2>2. /\ heard' \in Seq(E) /\ Len(heard') \in Nat /\ Len(heard') <= EmptyLimit
        /\ heard'[Len(heard')] = "empty"
        /\ Len(heard') = IF Len(heard) < EmptyLimit THEN Len(heard) + 1 ELSE EmptyLimit
        /\ \A i \in 1..(Len(heard') - 1) :
             heard'[i] = IF Len(heard) < EmptyLimit THEN heard[i] ELSE heard[i + 1]
    BY <1>3, <2>1
  <2>3. Count(heard', streak')
    <3>1. Len(heard') = EmptyLimit \/ streak' <= Len(heard')
      BY <1>1, <2>1, <2>2
    <3>2. ASSUME NEW i \in 1..Len(heard'), i > Len(heard') - streak'
          PROVE  heard'[i] = "empty"
      <4>1. CASE i = Len(heard')
        BY <2>2, <4>1
      <4>2. CASE i # Len(heard') /\ Len(heard) < EmptyLimit
        <5>1. i \in 1..Len(heard) /\ i > Len(heard) - streak /\ heard'[i] = heard[i]
          BY <1>1, <2>1, <2>2, <3>2, <4>2
        <5> QED BY <1>1, <2>1, <5>1
      <4>3. CASE i # Len(heard') /\ ~(Len(heard) < EmptyLimit)
        <5>1. /\ i + 1 \in 1..Len(heard) /\ i + 1 > Len(heard) - streak
              /\ heard'[i] = heard[i + 1]
          BY <1>1, <2>1, <2>2, <3>2, <4>3
        <5> QED BY <1>1, <2>1, <5>1
      <4> QED BY <4>1, <4>2, <4>3
    <3> QED BY <3>1, <3>2
  <2>4. ASSUME event'.kind = "exhausted"
        PROVE  Len(heard') = EmptyLimit /\ \A i \in 1..EmptyLimit : heard'[i] = "empty"
    <3>1. ~(streak' < EmptyLimit)
      BY <1>4, <2>4 DEF YFinanceEmpty, Fails, End, Nothing
    <3>2. Len(heard') = EmptyLimit
      BY <1>1, <2>1, <2>2, <2>3, <3>1
    <3> QED BY <1>1, <2>1, <2>3, <3>1, <3>2
  <2> QED BY <1>1, <2>1, <2>2, <2>3, <2>4
<1>5. ASSUME NEW c \in Calls, YFinanceRows(c)
      PROVE  /\ heard' \in Seq(E) /\ Len(heard') <= EmptyLimit /\ streak' \in Nat
             /\ Count(heard', streak')
             /\ event'.kind # "exhausted"
  <2>1. /\ Heard("rows") /\ streak' = 0 /\ event' = Nothing
    BY <1>5 DEF YFinanceRows, AfterRows, Fails, End
  <2>2. heard' \in Seq(E) /\ Len(heard') \in Nat /\ Len(heard') <= EmptyLimit
    BY <1>3, <2>1
  <2>3. Count(heard', streak')
    BY <2>1, <2>2
  <2> QED BY <2>1, <2>2, <2>3 DEF Nothing
<1>6. ASSUME Restart
      PROVE  /\ heard' \in Seq(E) /\ Len(heard') <= EmptyLimit /\ streak' \in Nat
             /\ Count(heard', streak')
             /\ event'.kind # "exhausted"
  BY <1>1, <1>6, EmptySeq DEF Restart, Nothing
<1>7. ASSUME heard' = heard, event'.kind # "exhausted",
             streak' \in Nat, client = "yfinance" => streak' = streak
      PROVE  /\ heard' \in Seq(E) /\ Len(heard') <= EmptyLimit /\ streak' \in Nat
             /\ client = "yfinance" => Count(heard', streak')
             /\ event'.kind # "exhausted"
  BY <1>1, <1>7
<1>8. \/ \E c \in Calls : YFinanceEmpty(c) \/ YFinanceRows(c)
      \/ Restart
      \/ /\ heard' = heard /\ event'.kind # "exhausted"
         /\ streak' \in Nat /\ (client = "yfinance" => streak' = streak)
  <2>1. ASSUME NEW c \in Calls, NEW r, Acquire(c, r) PROVE event'.kind # "exhausted"
    BY <2>1 DEF Acquire, Depart, Sleep, Nothing
  <2>2. ASSUME NEW c \in Calls, \/ Fails(c) \/ (\E k : CacheHit(c, k)) PROVE event'.kind # "exhausted"
    BY <2>2 DEF Fails, End, Nothing, CacheHit
  <2>3. ASSUME NEW c \in Calls, NEW r, DailyBars(c, r) PROVE event'.kind # "exhausted"
    BY <2>1, <2>2, <2>3 DEF DailyBars
  <2>4. ASSUME NEW c \in Calls, NEW k \in Keys,
             \/ GammaAsk(c, k) \/ ClobAsk(c, k) \/ EdinetAsk(c, k)
             \/ JQuantsAsk(c, k) \/ YFinanceAsk(c, k)
             \/ EdinetDbHit(c, k) \/ EdinetDbAsk(c, k) \/ ArchiveAsk(c, k)
        PROVE  /\ heard' = heard /\ event'.kind # "exhausted"
               /\ streak' = streak
    BY <2>1, <2>2, <2>3, <2>4 DEF GammaAsk, ClobAsk, EdinetAsk, AskOnce, JQuantsAsk, YFinanceAsk,
       EdinetDbHit, EdinetDbAsk, ArchiveAsk
  <2>5. ASSUME NEW c \in Calls,
             \/ GammaAnswer(c) \/ ClobAnswer(c) \/ EdinetAnswer(c) \/ JQuantsFails(c)
             \/ JQuantsResume(c) \/ YFinanceFails(c) \/ YFinanceResume(c)
             \/ EdinetDbFails(c) \/ EdinetDbAnswer(c) \/ EdinetDbDeliver(c)
             \/ ArchiveAnswer(c) \/ ArchiveReplace(c) \/ Cancel(c) \/ Wake(c)
        PROVE  /\ heard' = heard /\ event'.kind # "exhausted"
               /\ streak' = streak
    BY <2>1, <2>2, <2>3, <2>5 DEF GammaAnswer, ClobAnswer, EdinetAnswer, AnswerOnce, JQuantsFails,
       JQuantsResume, YFinanceFails, YFinanceResume, EdinetDbFails, EdinetDbAnswer, EdinetDbDeliver,
       ArchiveAnswer, ArchiveReplace, Cancel, Wake, End, Nothing, Depart
  <2>6. ASSUME NEW c \in Calls, JQuantsPage(c) \/ JQuantsRefused(c)
        PROVE  /\ heard' = heard /\ event'.kind # "exhausted"
               /\ streak' \in Nat /\ client # "yfinance"
    BY <1>1, <2>1, <2>2, <2>6 DEF JQuantsPage, JQuantsRefused, End, Nothing
  <2>7. Pass \/ PurgeRows => heard' = heard /\ event'.kind # "exhausted" /\ streak' = streak
    BY DEF Pass, PurgeRows, Nothing
  <2> QED BY <1>1, <2>4, <2>5, <2>6, <2>7 DEF DataNext
<1> QED BY <1>1, <1>4, <1>5, <1>6, <1>7, <1>8

(* No step renames a torn file: the process that tore it took its downloads*)
(* with it.                                                                *)
LEMMA FilesKept ==
  ASSUME PaceInv, NothingTornIsRenamed, DataNext
  PROVE  NothingTornIsRenamed'
<1> DEFINE NoNewDownload ==
      \A c \in Calls : call'[c].step = "written" => call[c].step = "written"
<1>1. /\ disk \in [target : File, tmp : File] /\ disk.target # "torn"
      /\ \A c \in Calls : call[c].step = "written" => disk.tmp # "torn"
      /\ call \in [Calls -> Call]
  BY DEF NothingTornIsRenamed, PaceInv, CallsTyped
<1>2. ASSUME NEW c \in Calls, NEW k, NEW r, r.step # "written",
             call' = [call EXCEPT ![c] = r]
      PROVE  NoNewDownload
  BY <1>1, <1>2
<1>3. \A c \in Calls : \A r : Acquire(c, r) => NoNewDownload
  <2> SUFFICES ASSUME NEW c \in Calls, NEW r, Acquire(c, r) PROVE NoNewDownload
    OBVIOUS
  <2>1. ASSUME NEW t, Sleep(c, r, t) PROVE NoNewDownload
    BY <1>1, <2>1 DEF Sleep
  <2>2. CASE Depart(c, r)
    BY <1>1, <2>2 DEF Depart
  <2> QED BY <2>1, <2>2 DEF Acquire
<1>4. \A c \in Calls : Fails(c) \/ (\E k : CacheHit(c, k)) => NoNewDownload
  BY <1>1 DEF Fails, End, CacheHit, Idle
<1>5. \A c \in Calls : \A r : DailyBars(c, r) => NoNewDownload
  BY <1>3, <1>4 DEF DailyBars
<1>6. disk' = disk /\ NoNewDownload => NothingTornIsRenamed'
  BY <1>1 DEF NothingTornIsRenamed
<1>7. ASSUME NEW c \in Calls, NEW k \in Keys,
             \/ GammaAsk(c, k) \/ ClobAsk(c, k) \/ EdinetAsk(c, k)
             \/ JQuantsAsk(c, k) \/ YFinanceAsk(c, k)
             \/ EdinetDbHit(c, k) \/ EdinetDbAsk(c, k) \/ ArchiveAsk(c, k)
      PROVE  disk' = disk /\ NoNewDownload
  BY <1>3, <1>4, <1>5, <1>7 DEF GammaAsk, ClobAsk, EdinetAsk, AskOnce, JQuantsAsk, YFinanceAsk,
     EdinetDbHit, EdinetDbAsk, ArchiveAsk
<1>8. ASSUME NEW c \in Calls,
             \/ GammaAnswer(c) \/ ClobAnswer(c) \/ EdinetAnswer(c) \/ JQuantsFails(c)
             \/ JQuantsPage(c) \/ JQuantsResume(c) \/ YFinanceRows(c) \/ YFinanceFails(c)
             \/ YFinanceResume(c) \/ EdinetDbFails(c) \/ EdinetDbAnswer(c) \/ EdinetDbDeliver(c)
      PROVE  disk' = disk /\ NoNewDownload
  BY <1>3, <1>4, <1>5, <1>8 DEF GammaAnswer, ClobAnswer, EdinetAnswer, AnswerOnce, JQuantsFails,
     JQuantsPage, JQuantsResume, YFinanceRows, YFinanceFails, YFinanceResume,
     EdinetDbFails, EdinetDbAnswer, EdinetDbDeliver
<1>9. ASSUME NEW c \in Calls, Wake(c) PROVE disk' = disk /\ NoNewDownload
  BY <1>1, <1>9 DEF Wake, Depart
<1>10. ASSUME NEW c \in Calls, JQuantsRefused(c) \/ YFinanceEmpty(c)
       PROVE  disk' = disk /\ NoNewDownload
  <2>1. ASSUME NEW s, BackOff(c, s) PROVE NoNewDownload
    BY <1>1, <2>1 DEF BackOff, Call
  <2>2. ASSUME NEW e, End(c, e) PROVE NoNewDownload
    BY <1>1, <2>2 DEF End, Idle
  <2> QED BY <1>4, <1>10, <2>1, <2>2 DEF JQuantsRefused, YFinanceEmpty
<1>11. ASSUME NEW c \in Calls, ArchiveAnswer(c) PROVE NothingTornIsRenamed'
  <2>1. CASE /\ disk' = [disk EXCEPT !.tmp = "whole"]
             /\ call' = [call EXCEPT ![c].step = "written"]
    BY <1>1, <2>1 DEF NothingTornIsRenamed, File
  <2>2. CASE disk' = [target |-> "whole", tmp |-> "none"]
    BY <2>2 DEF NothingTornIsRenamed, File
  <2>3. CASE disk' = [disk EXCEPT !.tmp = "none"]
    BY <1>1, <2>3 DEF NothingTornIsRenamed, File
  <2> QED BY <1>11, <2>1, <2>2, <2>3 DEF ArchiveAnswer, Written
<1>12. ASSUME NEW c \in Calls, ArchiveReplace(c) PROVE NothingTornIsRenamed'
  <2>1. CASE disk' = disk /\ End(c, [kind |-> "lost", n |-> 0])
    BY <1>1, <1>6, <2>1 DEF End, Idle
  <2>2. CASE disk' = [target |-> disk.tmp, tmp |-> "none"]
    BY <1>1, <1>12, <2>2 DEF ArchiveReplace, NothingTornIsRenamed, File
  <2> QED BY <1>12, <2>1, <2>2 DEF ArchiveReplace
<1>13. ASSUME NEW c \in Calls, Cancel(c) PROVE NothingTornIsRenamed'
  <2>1. CASE disk' = disk
    BY <1>4, <1>6, <1>13, <2>1 DEF Cancel
  <2>2. CASE disk' = [disk EXCEPT !.tmp = "none"]
    BY <1>1, <2>2 DEF NothingTornIsRenamed, File
  <2> QED BY <1>13, <2>1, <2>2 DEF Cancel
<1>14. ASSUME Restart PROVE NothingTornIsRenamed'
  <2>1. \A c \in Calls : call'[c].step = "idle"
    BY <1>14 DEF Restart, Idle
  <2>2. disk' = disk \/ disk' = [disk EXCEPT !.tmp = "torn"]
    BY <1>14 DEF Restart, Written
  <2> QED BY <1>1, <2>1, <2>2 DEF NothingTornIsRenamed, File
<1>15. Pass \/ PurgeRows => disk' = disk /\ NoNewDownload
  BY DEF Pass, PurgeRows
<1> QED
  BY <1>6, <1>7, <1>8, <1>9, <1>10, <1>11, <1>12, <1>13, <1>14, <1>15 DEF DataNext

(* A row of the cache expires within its lifetime from now.                *)
LEMMA CacheKept ==
  ASSUME ClientAssumption, QuotaAssumption, TypeOK, PaceInv, CacheTyped, DataNext
  PROVE  CacheTyped'
<1>1. ASSUME NEW c \in Calls, Store(call[c].key) PROVE CacheTyped'
  <2>1. now + Ttl \in 0..(MaxTime + Ttl) /\ call[c].key \in Keys
    BY DEF TypeOK, QuotaAssumption, ClientAssumption, PaceInv, CallsTyped, Call
  <2> QED BY <1>1, <2>1 DEF Store, CacheTyped
<1>2. (\E c \in Calls : Store(call[c].key)) \/ cache' = cache
  BY DEF DataNext, GammaAsk, ClobAsk, EdinetAsk, AskOnce, JQuantsAsk, YFinanceAsk,
     EdinetDbHit, EdinetDbAsk, ArchiveAsk, Wake, GammaAnswer, ClobAnswer, EdinetAnswer,
     AnswerOnce, JQuantsPage, JQuantsRefused, JQuantsFails, JQuantsResume, YFinanceEmpty,
     YFinanceRows, YFinanceFails, YFinanceResume, EdinetDbFails, EdinetDbAnswer,
     EdinetDbDeliver, ArchiveAnswer, ArchiveReplace, Cancel, Restart, Pass, PurgeRows
<1> QED BY <1>1, <1>2 DEF CacheTyped

-----------------------------------------------------------------------------
(* The invariant of every client, and what follows from it.                *)

(* The invariant holds before the first request.                           *)
LEMMA ClientInit ==
  ASSUME ClientAssumption, QuotaAssumption, DataInit
  PROVE  ClientInv /\ RefusalsWaitedFor /\ GiveUpOutlasts
<1>1. PICK k \in Keys : call = [c \in Calls |-> Idle(k)]
  BY DEF DataInit
<1>2. client \in Clients /\ Gap \in Nat /\ now \in Nat /\ now > 0
  BY ClientFacts DEF DataInit, Init, QuotaAssumption, Gap
<1>3. PaceInv
  <2>1. CallsTyped
    BY <1>1, <1>2, IdleIsCall, NothingIsQuiet DEF DataInit, CallsTyped, QuotaAssumption
  <2> QED BY <1>1, <1>2, <2>1 DEF DataInit, PaceInv, TriesFit, TurnsKept, ClockStarted, Idle
<1>4. StreakIsEmpties
  BY EmptySeq DEF DataInit, StreakIsEmpties, ClientAssumption
<1>5. NothingTornIsRenamed /\ CacheTyped
  BY <1>1 DEF DataInit, NothingTornIsRenamed, CacheTyped, File, Idle, QuotaAssumption,
     ClientAssumption
<1>6. PacedByCaller /\ ExhaustedMeansEmpties /\ GiveUpOutlasts
  BY DEF DataInit, Nothing, PacedByCaller, ExhaustedMeansEmpties, GiveUpOutlasts
<1>7. RefusalsWaitedFor
  BY <1>1 DEF RefusalsWaitedFor, Idle
<1> QED BY <1>3, <1>4, <1>5, <1>6, <1>7 DEF ClientInv

(* Every step keeps it, given that the budget keeps its own.               *)
LEMMA ClientStep ==
  ASSUME ClientAssumption, QuotaAssumption, TypeOK, TypeOK', ClientInv, [DataNext]_dvars
  PROVE  ClientInv' /\ (GradualSchedule /\ RefusalsWaitedFor /\ GiveUpOutlasts
                          => RefusalsWaitedFor' /\ GiveUpOutlasts')
<1>1. CASE DataNext
  <2>1. PaceInv /\ StreakIsEmpties /\ NothingTornIsRenamed /\ CacheTyped
        /\ PacedByCaller /\ ExhaustedMeansEmpties
    BY DEF ClientInv
  <2>2. client' = client
    BY <1>1, ClockMovesOn
  <2>3. DataTypeOK
    BY <2>1 DEF PaceInv, CallsTyped, StreakIsEmpties, NothingTornIsRenamed, CacheTyped, DataTypeOK
  <2>4. Shape
    BY <1>1, <2>1, <2>3, StepShape DEF PaceInv
  <2>5. PaceInv' /\ PacedByCaller'
    BY <1>1, <2>1, <2>4, ShapesKeepPace DEF PaceStep, PaceInv
  <2>6. StreakIsEmpties' /\ ExhaustedMeansEmpties'
    BY <1>1, <2>1, <2>2, EmptiesKept
  <2>7. NothingTornIsRenamed'
    BY <1>1, <2>1, FilesKept
  <2>8. CacheTyped'
    BY <1>1, <2>1, CacheKept
  <2>9. GradualSchedule /\ RefusalsWaitedFor => RefusalsWaitedFor' /\ GiveUpOutlasts'
    BY <1>1, <2>1, <2>4, ShapesWait
  <2> QED BY <2>5, <2>6, <2>7, <2>8, <2>9 DEF ClientInv
<1>2. CASE UNCHANGED dvars
  <2>1. PaceInv'
    BY <1>2 DEF ClientInv, PaceInv, CallsTyped, TriesFit, TurnsKept, ClockStarted, Gap,
       dvars, own, vars
  <2>2. StreakIsEmpties' /\ NothingTornIsRenamed' /\ CacheTyped'
    BY <1>2 DEF ClientInv, StreakIsEmpties, NothingTornIsRenamed, CacheTyped, dvars, own
  <2>3. PacedByCaller' /\ ExhaustedMeansEmpties'
    BY <1>2 DEF ClientInv, PacedByCaller, ExhaustedMeansEmpties, Gap, dvars, own
  <2>4. RefusalsWaitedFor /\ GiveUpOutlasts => RefusalsWaitedFor' /\ GiveUpOutlasts'
    BY <1>2 DEF RefusalsWaitedFor, GiveUpOutlasts, dvars, own, vars
  <2> QED BY <2>1, <2>2, <2>3, <2>4 DEF ClientInv
<1> QED BY <1>1, <1>2

(* The invariant holds of every client, and of the budget beside it.       *)
THEOREM ClientInvariant == DataSpec => []ClientInv
<1>1. DataInit => ClientInv
  BY ClientInit, ClientAssumption, QuotaAssumption
<1>2. TypeOK /\ TypeOK' /\ ClientInv /\ [DataNext]_dvars => ClientInv'
  BY ClientStep, ClientAssumption, QuotaAssumption
<1> QED BY <1>1, <1>2, ClientsDriveTheQuota, QuotaTyped, PTL DEF DataSpec

(* Every variable of the clients keeps its type.                           *)
THEOREM ClientsTyped == DataSpec => []DataTypeOK
<1>1. ClientInv => DataTypeOK
  BY DEF ClientInv, PaceInv, CallsTyped, StreakIsEmpties, NothingTornIsRenamed, CacheTyped,
     DataTypeOK
<1> QED BY <1>1, ClientInvariant, PTL

(* A caller's requests keep the least interval of its client, however many *)
(* other calls share the limiter, wake together, are retried or cancelled. *)
THEOREM CallersArePaced == DataSpec => []PacedByCaller
<1>1. ClientInv => PacedByCaller
  BY DEF ClientInv
<1> QED BY <1>1, ClientInvariant, PTL

(* Yahoo's quota is called exhausted only after EmptyLimit empty answers   *)
(* in a row, whatever calls they belong to.                                *)
THEOREM ExhaustionIsHeard == DataSpec => []ExhaustedMeansEmpties
<1>1. ClientInv => ExhaustedMeansEmpties
  BY DEF ClientInv
<1> QED BY <1>1, ClientInvariant, PTL

(* No partial file is ever seen under its own name in the archive.         *)
THEOREM ArchiveStaysWhole == DataSpec => []ArchiveWhole
<1>1. ClientInv => ArchiveWhole
  BY DEF ClientInv, NothingTornIsRenamed, ArchiveWhole
<1> QED BY <1>1, ClientInvariant, PTL

(* With a schedule whose first backoff is its shortest, a J-Quants call    *)
(* that gives up has waited that long for each of its retries, although    *)
(* other calls extend and reset the streak it backs off by.                *)
THEOREM GivingUpTakesLong == GradualSchedule => (DataSpec => []GiveUpOutlasts)
<1> SUFFICES ASSUME GradualSchedule PROVE DataSpec => []GiveUpOutlasts
  OBVIOUS
<1>1. DataInit => RefusalsWaitedFor /\ GiveUpOutlasts
  BY ClientInit, ClientAssumption, QuotaAssumption
<1>2. TypeOK /\ TypeOK' /\ ClientInv /\ RefusalsWaitedFor /\ GiveUpOutlasts /\ [DataNext]_dvars
        => RefusalsWaitedFor' /\ GiveUpOutlasts'
  BY ClientStep, ClientAssumption, QuotaAssumption
<1> QED BY <1>1, <1>2, ClientInvariant, ClientsDriveTheQuota, QuotaTyped, PTL DEF DataSpec
=============================================================================
