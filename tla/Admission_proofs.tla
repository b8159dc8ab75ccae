--------------------------- MODULE Admission_proofs ---------------------------
(***************************************************************************)
(* The safety of the two admission protocols: the writer turn, for any     *)
(* number of threads and any burst, and the source gate, for any number of *)
(* threads and slots and for any debt, yield and batch cost.               *)
(***************************************************************************)
EXTENDS WriterTurn, SourceGate, FiniteSetTheorems, TLAPS

-----------------------------------------------------------------------------
(* The writer turn.                                                        *)

\* The ticket of a thread is registered exactly while the thread waits.
Registered == \A t \in Thread : t \in waiters <=> pc[t] = "waiting"

\* The streak counts at least the overtakings of the oldest waiter.
StreakCounts == passed <= streak

(***************************************************************************)
(* The inductive invariant.  MutualExclusion is not inductive without      *)
(* Registered (a waiter that withdraws must not be the active writer), nor *)
(* BoundedOvertaking without StreakCounts.                                 *)
(***************************************************************************)
TurnInv ==
    /\ TypeOK
    /\ Registered
    /\ MutualExclusion
    /\ NoLostWakeup
    /\ StreakCounts

LEMMA CallTypes ==
    /\ \A t \in Thread : CallsOf(t) \subseteq Calls
    /\ WriteCall(1, TRUE) \in Calls
<1>1. \A t \in Thread : CallsOf(t) \subseteq Calls
    BY Zenon DEF CallsOf, Calls
<1>2. 1 \in Ranks
    BY DEF Ranks, Live, Background
<1>3. WriteCall(1, TRUE) \in WriteCalls
    BY <1>2 DEF WriteCalls, WriteCall
<1> QED
    BY <1>1, <1>3 DEF Calls

LEMMA TurnInitInv == Init => TurnInv
<1> SUFFICES ASSUME Init PROVE TurnInv
    OBVIOUS
<1>1. call \in [Thread -> Calls]
    BY CallTypes DEF Init
<1>2. streak \in 0..Burst
    BY BurstAssumption DEF Init
<1>3. TypeOK
    BY <1>1, <1>2 DEF Init, TypeOK
<1>4. Registered /\ MutualExclusion /\ NoLostWakeup
    BY DEF Init, Registered, MutualExclusion, NoLostWakeup, Writing
<1>5. StreakCounts
    BY DEF Init, StreakCounts
<1> QED
    BY <1>3, <1>4, <1>5 DEF TurnInv

(***************************************************************************)
(* One pass through the loop of _acquire_writer_turn, by a thread whose    *)
(* ticket is in W.  Both a new caller and a woken waiter take such a step. *)
(***************************************************************************)
LEMMA EvaluateInv ==
    ASSUME TurnInv, NEW t \in Thread, NEW W, NEW order, NEW req, NEW over,
           W = waiters \cup {t}, pc[t] # "writing",
           order \in [Thread -> SUBSET Thread], req \in [Thread -> Calls],
           \A u \in waiters : order[u] = ahead[u] /\ req[u] = call[u],
           call' = req,
           Evaluate(t, W, order, req, over)
    PROVE  TurnInv'
<1> USE DEF TurnInv
<1>1. CASE Withdraw(t, W, order)
  <2>1. TypeOK'
      BY <1>1 DEF Withdraw, TypeOK
  <2>2. Registered' /\ StreakCounts'
      BY <1>1 DEF Withdraw, TypeOK, Registered, StreakCounts
  <2>3. MutualExclusion'
      BY <1>1 DEF Withdraw, TypeOK, MutualExclusion, Writing
  <2>4. NoLostWakeup'
      BY <1>1 DEF Withdraw, NoLostWakeup, Admitted
  <2> QED
      BY <2>1, <2>2, <2>3, <2>4
<1>2. CASE Admitted(t, W, order, req) /\ Take(t, W, order)
  <2>1. TypeOK'
      BY <1>2, BurstAssumption DEF Take, TypeOK
  <2>2. Registered'
      BY <1>2 DEF Take, TypeOK, Registered
  <2>3. StreakCounts'
      BY <1>2, BurstAssumption DEF Take, Admitted, IsNext, TypeOK, StreakCounts
  <2>4. MutualExclusion'
      BY <1>2 DEF Take, Admitted, TypeOK, MutualExclusion, Writing
  <2>5. NoLostWakeup'
      BY <1>2 DEF Take, NoLostWakeup, Admitted
  <2> QED
      BY <2>1, <2>2, <2>3, <2>4, <2>5
<1>3. CASE ~Admitted(t, W, order, req) /\ Sleep(t, W, order)
  <2>1. TypeOK'
      BY <1>3 DEF Sleep, TypeOK
  <2>2. Registered' /\ StreakCounts'
      BY <1>3 DEF Sleep, TypeOK, Registered, StreakCounts
  <2>3. MutualExclusion'
      BY <1>3 DEF Sleep, TypeOK, MutualExclusion, Writing
  <2>4. NoLostWakeup'
    <3> SUFFICES ASSUME NEW u \in waiters', Admitted(u, waiters, ahead, call)'
                 PROVE  u \notin asleep'
        BY DEF NoLostWakeup
    <3>1. u # t
        BY <1>3 DEF Sleep, Admitted, IsNext
    <3>2. u \in waiters /\ ahead'[u] = ahead[u] /\ call'[u] = call[u]
        BY <1>3, <3>1 DEF Sleep
    <3>3. \A v \in waiters : v \in waiters' /\ call'[v] = call[v]
        BY <1>3 DEF Sleep
    <3>4. ~active /\ hold' = hold /\ streak' = streak
        BY <1>3 DEF Sleep, Admitted
    <3>5. ASSUME ~hold
          PROVE  IsNext(u, waiters, ahead, call)
      <4>1. IsNext(u, waiters, ahead, call)'
          BY <3>4, <3>5 DEF Admitted
      <4>2. CASE streak >= Burst
          BY <4>1, <4>2, <3>2, <3>4 DEF IsNext
      <4>3. CASE ~(streak >= Burst)
          BY <4>1, <4>3, <3>2, <3>3, <3>4 DEF IsNext
      <4> QED
          BY <4>2, <4>3
    <3>6. Admitted(u, waiters, ahead, call)
        BY <3>2, <3>4, <3>5 DEF Admitted
    <3> QED
        BY <1>3, <3>1, <3>2, <3>6 DEF Sleep, NoLostWakeup
  <2> QED
      BY <2>1, <2>2, <2>3, <2>4
<1> QED
    BY <1>1, <1>2, <1>3 DEF Evaluate

LEMMA NextInv == TurnInv /\ [Next]_turnVars => TurnInv'
<1> SUFFICES ASSUME TurnInv, [Next]_turnVars PROVE TurnInv'
    OBVIOUS
<1> USE DEF TurnInv
<1>1. ASSUME NEW t \in Thread, NEW c \in CallsOf(t), NEW expired \in BOOLEAN,
             Acquire(t, c, expired)
      PROVE  TurnInv'
  <2> DEFINE W == waiters \cup {t}
             order == [ahead EXCEPT ![t] = waiters]
             req == [call EXCEPT ![t] = c]
             over == IF expired THEN {t} ELSE {}
  <2>1. c \in Calls
      BY CallTypes
  <2>2. W = waiters \cup {t} /\ pc[t] # "writing"
      BY <1>1 DEF Acquire
  <2>3. order \in [Thread -> SUBSET Thread] /\ req \in [Thread -> Calls]
      BY <2>1 DEF TypeOK
  <2>4. \A u \in waiters : order[u] = ahead[u] /\ req[u] = call[u]
      BY <1>1 DEF Acquire, TypeOK, Registered
  <2>5. call' = req
      BY <1>1 DEF Acquire
  <2>6. Evaluate(t, W, order, req, over)
      BY <1>1, <2>5 DEF Acquire
  <2> HIDE DEF W, order, req, over
  <2> QED
      BY <2>2, <2>3, <2>4, <2>5, <2>6, EvaluateInv
<1>2. ASSUME NEW t \in Thread, Wake(t)
      PROVE  TurnInv'
  <2>1. waiters = waiters \cup {t} /\ pc[t] # "writing"
      BY <1>2 DEF Wake, Registered
  <2>2. call' = call /\ Evaluate(t, waiters, ahead, call, late)
      BY <1>2 DEF Wake
  <2>3. ahead \in [Thread -> SUBSET Thread] /\ call \in [Thread -> Calls]
      BY DEF TypeOK
  <2> QED
      BY <2>1, <2>2, <2>3, EvaluateInv
<1>3. ASSUME NEW t \in Thread, DeadlinePasses(t)
      PROVE  TurnInv'
  <2>1. TypeOK' /\ Registered' /\ StreakCounts'
      BY <1>3 DEF DeadlinePasses, TypeOK, Registered, StreakCounts
  <2>2. MutualExclusion'
      BY <1>3 DEF DeadlinePasses, MutualExclusion, Writing
  <2>3. NoLostWakeup'
      BY <1>3 DEF DeadlinePasses, NoLostWakeup, Admitted, IsNext
  <2> QED
      BY <2>1, <2>2, <2>3
<1>4. ASSUME NEW t \in Thread, NEW slow \in BOOLEAN, Release(t, slow)
      PROVE  TurnInv'
  <2>1. streak' = streak \/ streak' = Burst
      BY <1>4, Zenon DEF Release
  <2>2. streak' \in 0..Burst /\ passed' <= streak'
      BY <1>4, <2>1, BurstAssumption DEF Release, TypeOK, StreakCounts
  <2>3. TypeOK' /\ Registered' /\ StreakCounts'
      BY <1>4, <2>2 DEF Release, TypeOK, Registered, StreakCounts
  <2>4. MutualExclusion'
      BY <1>4 DEF Release, TypeOK, MutualExclusion, Writing
  <2>5. NoLostWakeup'
      BY <1>4 DEF Release, NoLostWakeup
  <2> QED
      BY <2>3, <2>4, <2>5
<1>5. ASSUME NEW on \in BOOLEAN, HoldWriters(on)
      PROVE  TurnInv'
    BY <1>5 DEF HoldWriters, TypeOK, Registered, StreakCounts, MutualExclusion,
                Writing, NoLostWakeup
<1>6. CASE CloseSet
    BY <1>6 DEF CloseSet, TypeOK, Registered, StreakCounts, MutualExclusion,
                Writing, NoLostWakeup, Admitted, IsNext
<1>7. CASE CloseAnnounce
    BY <1>7 DEF CloseAnnounce, TypeOK, Registered, StreakCounts, MutualExclusion,
                Writing, NoLostWakeup
<1>8. CASE UNCHANGED turnVars
    BY <1>8 DEF turnVars, TypeOK, Registered, StreakCounts, MutualExclusion,
                Writing, NoLostWakeup, Admitted, IsNext
<1> QED
    BY <1>1, <1>2, <1>3, <1>4, <1>5, <1>6, <1>7, <1>8 DEF Next

THEOREM SpecInv == Spec => []TurnInv
    BY TurnInitInv, NextInv, PTL DEF Spec

(***************************************************************************)
(* Type correctness of the writer turn's state.                            *)
(***************************************************************************)
THEOREM TypeCorrect == Spec => []TypeOK
    BY SpecInv, PTL DEF TurnInv

(***************************************************************************)
(* Two threads are never both between _acquire_writer_turn and             *)
(* _release_writer_turn.                                                   *)
(***************************************************************************)
THEOREM OneWriter == Spec => []MutualExclusion
    BY SpecInv, PTL DEF TurnInv

(***************************************************************************)
(* _acquire_writer_turn, _release_writer_turn and hold_writers notify      *)
(* whenever a sleeping waiter may have become admissible.                  *)
(***************************************************************************)
THEOREM WakeupsKept == Spec => []NoLostWakeup
    BY SpecInv, PTL DEF TurnInv

(***************************************************************************)
(* The oldest waiter is overtaken at most Burst times outside WAL holds.   *)
(***************************************************************************)
THEOREM OvertakingBounded == Spec => []BoundedOvertaking
<1>1. TurnInv => BoundedOvertaking
    BY BurstAssumption DEF TurnInv, TypeOK, StreakCounts, BoundedOvertaking
<1> QED
    BY <1>1, SpecInv, PTL

-----------------------------------------------------------------------------
(* The source gate.                                                        *)

\* The code's shared clock bounds the surplus, and admission bounds the clock.
ClockBounds == surplus <= sharedDelay /\ sharedDelay <= Debt + MaxSpend

\* A sleeper's timeout ends no later than the moment its slot, its delay or
\* its age lets it through.
AlarmInTime(t) ==
    /\ stage[t] = "waiting"
    /\ SlotFree(t, priorityWaiting) => 1 <= alarm[t] /\ alarm[t] <= Delay(t)
    /\ ~Urgent(t) => 1 <= alarm[t] /\ alarm[t] <= Yield - waited[t]

AlarmsInTime == \A t \in resting : AlarmInTime(t)

(***************************************************************************)
(* The inductive invariant.  RateKept needs the clock between the surplus  *)
(* and the bound; NoOversleep needs every sleeper's alarm.                 *)
(***************************************************************************)
GateInv ==
    /\ GateTypeOK
    /\ SlotsRespected
    /\ WaitingCounted
    /\ ClockBounds
    /\ AlarmsInTime

LEMMA BackgroundSlotsNat ==
    BackgroundSlots \in Nat /\ 1 <= BackgroundSlots /\ BackgroundSlots <= Concurrency
BY GateAssumption DEF BackgroundSlots, Max2

\* A priority delay grows with each of the two clocks behind it.
LEMMA DelayGrows ==
    ASSUME NEW a \in Int, NEW b \in Int, NEW c \in Int, NEW d \in Int, NEW e \in Int,
           a <= c, b <= d
    PROVE  /\ Max2(a, b - e) \in Int /\ Max2(c, d - e) \in Int
           /\ Max2(a, b - e) <= Max2(c, d - e)
BY DEF Max2

LEMMA GateInitInv == GateInit => GateInv
<1> SUFFICES ASSUME GateInit PROVE GateInv
    OBVIOUS
<1> USE GateAssumption
<1>1. GateTypeOK
    BY DEF GateInit, GateTypeOK, None, Patience
<1>2. Posting = {} /\ Posting \ Priority = {} /\ {t \in Priority : stage[t] = "waiting"} = {}
    BY DEF GateInit, Posting
<1>3. SlotsRespected /\ WaitingCounted
    BY <1>2, FS_EmptySet, BackgroundSlotsNat DEF GateInit, SlotsRespected, WaitingCounted
<1>4. ClockBounds /\ AlarmsInTime
    BY DEF GateInit, ClockBounds, AlarmsInTime
<1> QED
    BY <1>1, <1>3, <1>4 DEF GateInv

-----------------------------------------------------------------------------
(***************************************************************************)
(* Counting the threads in a set that one step enters, leaves or ignores.  *)
(***************************************************************************)
LEMMA Counted ==
    ASSUME NEW A \in SUBSET Caller, NEW t
    PROVE  /\ Cardinality(A) \in Nat
           /\ t \notin A => Cardinality(A \cup {t}) = Cardinality(A) + 1
           /\ t \in A => Cardinality(A \ {t}) = Cardinality(A) - 1
           /\ \A B \in SUBSET A : Cardinality(B) \in Nat /\ Cardinality(B) <= Cardinality(A)
<1>1. IsFiniteSet(A)
    BY GateAssumption, FS_Subset
<1>2. Cardinality(A) \in Nat
    BY <1>1, FS_CardinalityType
<1>3. t \notin A => Cardinality(A \cup {t}) = Cardinality(A) + 1
    BY <1>1, FS_AddElement
<1>4. t \in A => Cardinality(A \ {t}) = Cardinality(A) - 1
    BY <1>1, FS_RemoveElement
<1>5. \A B \in SUBSET A : Cardinality(B) \in Nat /\ Cardinality(B) <= Cardinality(A)
    BY <1>1, FS_Subset, FS_CardinalityType
<1> QED
    BY <1>2, <1>3, <1>4, <1>5

\* What leaving acquire or being put to sleep does to the count of waiters.
LEMMA EnteredCounts ==
    ASSUME GateInv, NEW t \in Caller, Awake(t)
    PROVE  LET W == {u \in Priority : stage[u] = "waiting"} IN
           /\ Entered(t) \in Nat
           /\ priorityWaiting <= Entered(t)
           /\ t \in Priority => Entered(t) = Cardinality(W \cup {t})
           /\ t \notin Priority => Entered(t) = Cardinality(W)
<1> DEFINE W == {u \in Priority : stage[u] = "waiting"}
<1>1. W \in SUBSET Caller
    BY GateAssumption
<1>2. priorityWaiting = Cardinality(W) /\ priorityWaiting \in Nat
    BY DEF GateInv, WaitingCounted, GateTypeOK
<1>3. CASE stage[t] = "called" /\ t \in Priority
    <2>1. t \notin W
        BY <1>3
    <2> QED
        BY <1>1, <1>2, <1>3, <2>1, Counted DEF Entered
<1>4. CASE ~(stage[t] = "called" /\ t \in Priority)
    <2>1. t \in Priority => W \cup {t} = W
        BY <1>4 DEF Awake
    <2>2. Entered(t) = priorityWaiting
        BY <1>4 DEF Entered
    <2>3. t \in Priority => Entered(t) = Cardinality(W \cup {t})
        BY <1>2, <2>1, <2>2
    <2> QED
        BY <1>2, <2>2, <2>3
<1> QED
    BY <1>3, <1>4

LEMMA CallInv ==
    ASSUME GateInv, NEW t \in Caller, NEW cost \in 0..MaxSpend, Call(t, cost)
    PROVE  GateInv'
<1> USE GateAssumption DEF GateInv, Call
<1>1. GateTypeOK'
    BY DEF GateTypeOK, Patience
<1>2. Posting' = Posting /\ {u \in Priority : stage[u] = "waiting"}' = {u \in Priority : stage[u] = "waiting"}
    BY DEF Posting, GateTypeOK
<1>3. SlotsRespected' /\ WaitingCounted'
    BY <1>2 DEF SlotsRespected, WaitingCounted
<1>4. ClockBounds'
    BY DEF ClockBounds
<1>5. ASSUME NEW u \in resting PROVE AlarmInTime(u)'
    <2>1. AlarmInTime(u) /\ u # t
        BY <1>5 DEF AlarmsInTime, AlarmInTime
    <2> QED
        BY <1>5, <2>1 DEF AlarmInTime, SlotFree, Delay, Urgent, Aged, GateTypeOK
<1> QED
    BY <1>1, <1>3, <1>4, <1>5 DEF AlarmsInTime

LEMMA ProceedInv ==
    ASSUME GateInv, NEW t \in Caller, Proceed(t)
    PROVE  GateInv'
<1> DEFINE w == Entered(t)
           W == {u \in Priority : stage[u] = "waiting"}
<1>1. /\ Awake(t) /\ Admissible(t, w) /\ Grant(t, w)
      /\ t \notin resting /\ stage[t] \in {"called", "waiting"}
    BY DEF Proceed, Awake, GateInv, AlarmsInTime, AlarmInTime
<1>2. w \in Nat /\ priorityWaiting <= w
    BY <1>1, EnteredCounts
<1>3. W \in SUBSET Caller /\ Cardinality(W) \in Nat /\ Posting \in SUBSET Caller
    BY GateAssumption, Counted DEF Posting
<1>4. t \in Priority => w \in Nat \ {0}
    <2> SUFFICES ASSUME t \in Priority PROVE w \in Nat \ {0}
        BY <1>2
    <2>1. w = Cardinality(W \cup {t}) /\ W \cup {t} \in SUBSET Caller
        BY <1>1, <1>3, EnteredCounts
    <2>2. Cardinality((W \cup {t}) \ {t}) \in Nat /\ Cardinality((W \cup {t}) \ {t}) = w - 1
        BY <2>1, Counted
    <2> QED
        BY <2>2, <1>2
<1>5. GateTypeOK'
    <2>1. priorityWaiting' \in Nat /\ resting' \in SUBSET Caller /\ alarm' \in [Caller -> Int]
        BY <1>1, <1>2, <1>4 DEF Grant, Leave, NotifyAll, GateInv, GateTypeOK, None
    <2>2. sharedDelay' \in Nat /\ priorityDelay' \in Nat /\ surplus' \in Nat
        BY <1>1 DEF Grant, Charge, GateInv, GateTypeOK
    <2>3. waited' \in [Caller -> 0..Patience] /\ spend' \in [Caller -> 0..MaxSpend]
        BY <1>1, GateAssumption DEF Grant, GateInv, GateTypeOK, Patience
    <2> QED
        BY <1>1, <2>1, <2>2, <2>3 DEF Grant, GateInv, GateTypeOK
<1>6. Posting' = Posting \cup {t} /\ t \notin Posting
    BY <1>1 DEF Grant, Posting, GateInv, GateTypeOK
<1>7. SlotsRespected'
    <2>1. inFlight' = Cardinality(Posting')
        BY <1>1, <1>3, <1>6, Counted DEF Grant, GateInv, SlotsRespected
    <2>2. inFlight' <= Concurrency
        BY <1>1, BackgroundSlotsNat, GateAssumption
        DEF Grant, Admissible, SlotFree, GateInv, GateTypeOK
    <2>3. Cardinality(Posting' \ Priority) <= BackgroundSlots
        <3>1. CASE t \in Priority
            <4>1. Posting' \ Priority = Posting \ Priority
                BY <1>6, <3>1
            <4> QED
                BY <4>1 DEF GateInv, SlotsRespected
        <3>2. CASE t \notin Priority
            <4>1. Posting' \ Priority \in SUBSET Posting' /\ Posting' \in SUBSET Caller
                BY <1>6, <1>3
            <4>2. /\ Cardinality(Posting') \in Nat /\ Cardinality(Posting' \ Priority) \in Nat
                  /\ Cardinality(Posting' \ Priority) <= Cardinality(Posting')
                BY <4>1, Counted
            <4>3. inFlight' <= BackgroundSlots
                BY <1>1, <3>2, BackgroundSlotsNat
                DEF Grant, Admissible, SlotFree, GateInv, GateTypeOK
            <4> QED
                BY <2>1, <4>2, <4>3, BackgroundSlotsNat
        <3> QED
            BY <3>1, <3>2
    <2> QED
        BY <2>1, <2>2, <2>3 DEF SlotsRespected, BackgroundSlots
<1>8. WaitingCounted'
    <2>1. {u \in Priority : stage'[u] = "waiting"} = W \ {t}
        BY <1>1, GateAssumption DEF Grant, GateInv, GateTypeOK
    <2>2. CASE t \in Priority
        <3>1. priorityWaiting' = w - 1
            BY <1>1, <2>2 DEF Grant, Leave
        <3>2. w = Cardinality(W \cup {t}) /\ (W \cup {t}) \ {t} = W \ {t}
            BY <1>1, <2>2, EnteredCounts
        <3>3. Cardinality((W \cup {t}) \ {t}) = Cardinality(W \cup {t}) - 1
            BY <1>3, Counted
        <3> QED
            BY <2>1, <3>1, <3>2, <3>3 DEF WaitingCounted
    <2>3. CASE t \notin Priority
        <3>1. priorityWaiting' = w /\ W \ {t} = W
            BY <1>1, <2>3 DEF Grant, Leave
        <3> QED
            BY <1>1, <2>1, <2>3, <3>1, EnteredCounts DEF WaitingCounted
    <2> QED
        BY <2>2, <2>3
<1>9. ClockBounds'
    <2>1. spend[t] \in Nat /\ spend[t] <= MaxSpend
        BY GateAssumption DEF GateInv, GateTypeOK
    <2>2. sharedDelay <= Debt
        BY <1>1, GateAssumption DEF Admissible, Delay, Max2, GateInv, GateTypeOK
    <2> QED
        BY <1>1, <2>1, <2>2, GateAssumption DEF Grant, Charge, ClockBounds, GateInv, GateTypeOK
<1>10. AlarmsInTime'
    <2>1. CASE t \in Priority
        BY <1>1, <2>1 DEF Grant, Leave, NotifyAll, AlarmsInTime
    <2>2. CASE t \notin Priority
        <3> SUFFICES ASSUME NEW u \in resting PROVE AlarmInTime(u)'
            BY <1>1, <2>2 DEF Grant, Leave, AlarmsInTime
        <3>1. AlarmInTime(u) /\ u # t /\ u \in Caller
            BY <1>1 DEF GateInv, AlarmsInTime, GateTypeOK
        <3>2. /\ stage'[u] = stage[u] /\ alarm'[u] = alarm[u] /\ waited'[u] = waited[u]
              /\ inFlight' = inFlight + 1 /\ priorityWaiting <= priorityWaiting'
            BY <1>1, <1>2, <2>2, <3>1 DEF Grant, Leave, GateInv, GateTypeOK
        <3>3. sharedDelay <= sharedDelay' /\ priorityDelay <= priorityDelay'
            BY <1>1, <1>5, GateAssumption
            DEF Grant, Charge, Admissible, Delay, Max2, GateInv, GateTypeOK
        <3>4. /\ inFlight \in Nat /\ priorityWaiting \in Nat /\ priorityWaiting' \in Nat
              /\ alarm[u] \in Int
            BY <3>1, <1>5 DEF GateInv, GateTypeOK
        <3>5. Urgent(u)' = Urgent(u)
            BY <3>2 DEF Urgent, Aged
        <3>6. Delay(u) <= Delay(u)' /\ Delay(u) \in Int /\ Delay(u)' \in Int
            <4>1. /\ sharedDelay \in Int /\ sharedDelay' \in Int
                  /\ priorityDelay \in Int /\ priorityDelay' \in Int /\ Debt \in Int
                BY <1>5, GateAssumption DEF GateInv, GateTypeOK
            <4>2. /\ Max2(priorityDelay, sharedDelay - Debt) \in Int
                  /\ Max2(priorityDelay', sharedDelay' - Debt) \in Int
                  /\ Max2(priorityDelay, sharedDelay - Debt)
                        <= Max2(priorityDelay', sharedDelay' - Debt)
                BY <3>3, <4>1, DelayGrows
            <4>3. CASE Urgent(u)
                <5>1. /\ Delay(u) = Max2(priorityDelay, sharedDelay - Debt)
                      /\ Delay(u)' = Max2(priorityDelay', sharedDelay' - Debt)
                    BY <4>3, <3>2 DEF Delay, Urgent, Aged, Max2
                <5> QED
                    BY <5>1, <4>2
            <4>4. CASE ~Urgent(u)
                <5>1. Delay(u) = sharedDelay /\ Delay(u)' = sharedDelay'
                    BY <4>4, <3>2 DEF Delay, Urgent, Aged
                <5> QED
                    BY <5>1, <3>3, <4>1
            <4> QED
                BY <4>3, <4>4
        <3>7. SlotFree(u, priorityWaiting)' => SlotFree(u, priorityWaiting)
            BY <3>2, <3>4, BackgroundSlotsNat, GateAssumption DEF SlotFree, Urgent, Aged
        <3> QED
            BY <3>1, <3>2, <3>4, <3>5, <3>6, <3>7 DEF AlarmInTime
    <2> QED
        BY <2>1, <2>2
<1> QED
    BY <1>5, <1>7, <1>8, <1>9, <1>10 DEF GateInv

LEMMA WaitInv ==
    ASSUME GateInv, NEW t \in Caller, Wait(t)
    PROVE  GateInv'
<1> DEFINE w == Entered(t)
           W == {u \in Priority : stage[u] = "waiting"}
<1>1. Awake(t) /\ ~Admissible(t, w) /\ Rest(t, w) /\ stage[t] \in {"called", "waiting"}
    BY DEF Wait, Awake
<1>2. w \in Nat /\ priorityWaiting <= w
    BY <1>1, EnteredCounts
<1>3. /\ Timeout(t, w) \in Int
      /\ SlotFree(t, w) => 1 <= Timeout(t, w) /\ Timeout(t, w) <= Delay(t)
      /\ ~Urgent(t) => 1 <= Timeout(t, w) /\ Timeout(t, w) <= Yield - waited[t]
    <2>1. waited[t] \in Nat /\ Delay(t) \in Int /\ (~Urgent(t) => waited[t] < Yield)
        BY GateAssumption DEF Urgent, Aged, Delay, Max2, GateInv, GateTypeOK, Patience
    <2> QED
        BY <1>1, <2>1, GateAssumption DEF Timeout, Min2, None, Admissible
<1>4. GateTypeOK'
    BY <1>1, <1>2, <1>3 DEF Rest, GateInv, GateTypeOK
<1>5. Posting' = Posting
    BY <1>1 DEF Rest, Posting, GateInv, GateTypeOK
<1>6. SlotsRespected'
    BY <1>1, <1>5 DEF Rest, SlotsRespected, GateInv
<1>7. WaitingCounted'
    <2>1. t \in Priority => {u \in Priority : stage'[u] = "waiting"} = W \cup {t}
        BY <1>1, GateAssumption DEF Rest, GateInv, GateTypeOK
    <2>2. t \notin Priority => {u \in Priority : stage'[u] = "waiting"} = W
        BY <1>1, GateAssumption DEF Rest, GateInv, GateTypeOK
    <2>3. priorityWaiting' = w
        BY <1>1 DEF Rest
    <2> QED
        BY <1>1, <2>1, <2>2, <2>3, EnteredCounts DEF WaitingCounted
<1>8. ClockBounds'
    BY <1>1 DEF Rest, ClockBounds, GateInv
<1>9. AlarmsInTime'
    <2> SUFFICES ASSUME NEW u \in resting' PROVE AlarmInTime(u)'
        BY DEF AlarmsInTime
    <2>1. Urgent(u)' = Urgent(u) /\ Delay(u)' = Delay(u) /\ waited'[u] = waited[u]
        BY <1>1 DEF Rest, Urgent, Aged, Delay
    <2>2. SlotFree(u, priorityWaiting)' = SlotFree(u, w)
        BY <1>1, <2>1 DEF Rest, SlotFree
    <2>3. CASE u = t
        <3>1. stage'[t] = "waiting" /\ alarm'[t] = Timeout(t, w)
            BY <1>1 DEF Rest, GateInv, GateTypeOK
        <3> QED
            BY <1>3, <2>1, <2>2, <2>3, <3>1 DEF AlarmInTime
    <2>4. CASE u # t
        <3>1. AlarmInTime(u) /\ u \in Caller
            BY <1>1, <2>4 DEF Rest, GateInv, AlarmsInTime, GateTypeOK
        <3>2. stage'[u] = stage[u] /\ alarm'[u] = alarm[u]
            BY <1>1, <2>4, <3>1 DEF Rest, GateInv, GateTypeOK
        <3>3. SlotFree(u, w) => SlotFree(u, priorityWaiting)
            BY <1>2 DEF SlotFree, GateInv, GateTypeOK
        <3> QED
            BY <2>1, <2>2, <3>1, <3>2, <3>3 DEF AlarmInTime
    <2> QED
        BY <2>3, <2>4
<1> QED
    BY <1>4, <1>6, <1>7, <1>8, <1>9 DEF GateInv

LEMMA ReleaseInv ==
    ASSUME GateInv, NEW t \in Caller, ReleaseSlot(t)
    PROVE  GateInv'
<1>1. Posting' = Posting \ {t} /\ t \in Posting /\ Posting \in SUBSET Caller
    BY DEF ReleaseSlot, Posting, GateInv, GateTypeOK
<1>2. Cardinality(Posting') = Cardinality(Posting) - 1 /\ Cardinality(Posting') \in Nat
    BY <1>1, Counted
<1>3. Cardinality(Posting' \ Priority) <= Cardinality(Posting \ Priority)
      /\ Cardinality(Posting' \ Priority) \in Nat /\ Cardinality(Posting \ Priority) \in Nat
    <2>1. Posting' \ Priority \in SUBSET (Posting \ Priority) /\ Posting \ Priority \in SUBSET Caller
        BY <1>1
    <2> QED
        BY <2>1, Counted
<1>4. SlotsRespected'
    BY <1>2, <1>3, BackgroundSlotsNat, GateAssumption
    DEF ReleaseSlot, SlotsRespected, GateInv, GateTypeOK, BackgroundSlots
<1>5. GateTypeOK'
    BY <1>2 DEF ReleaseSlot, NotifyAll, SlotsRespected, GateInv, GateTypeOK, None
<1>6. {u \in Priority : stage[u] = "waiting"}' = {u \in Priority : stage[u] = "waiting"}
    BY DEF ReleaseSlot, GateInv, GateTypeOK
<1>7. WaitingCounted' /\ ClockBounds' /\ AlarmsInTime'
    BY <1>6 DEF ReleaseSlot, NotifyAll, GateInv, WaitingCounted, ClockBounds, AlarmsInTime
<1> QED
    BY <1>4, <1>5, <1>7 DEF GateInv

LEMMA TickInv ==
    ASSUME GateInv, GateTick
    PROVE  GateInv'
<1> USE GateAssumption
<1>1. GateTypeOK'
    <2>1. waited' \in [Caller -> 0..Patience] /\ alarm' \in [Caller -> Int]
        BY DEF GateTick, GateInv, GateTypeOK, None, Patience
    <2> QED
        BY <2>1 DEF GateTick, GateInv, GateTypeOK, Max2
<1>2. Posting' = Posting /\ {u \in Priority : stage[u] = "waiting"}' = {u \in Priority : stage[u] = "waiting"}
    BY DEF GateTick, Posting
<1>3. SlotsRespected' /\ WaitingCounted'
    BY <1>2 DEF GateTick, SlotsRespected, WaitingCounted, GateInv
<1>4. ClockBounds'
    BY DEF GateTick, Max2, ClockBounds, GateInv, GateTypeOK
<1>5. AlarmsInTime'
    <2> SUFFICES ASSUME NEW u \in resting' PROVE AlarmInTime(u)'
        BY DEF AlarmsInTime
    <2>1. /\ u \in resting /\ u \in Caller /\ alarm[u] # 1
          /\ AlarmInTime(u) /\ stage[u] = "waiting" /\ stage' = stage
          /\ waited[u] \in Nat /\ alarm[u] \in Int
        BY DEF GateTick, GateInv, AlarmsInTime, AlarmInTime, GateTypeOK, Patience
    <2>2. /\ alarm'[u] = (IF alarm[u] > 1 THEN alarm[u] - 1 ELSE None)
          /\ waited'[u] = (IF waited[u] < Patience THEN waited[u] + 1 ELSE waited[u])
        BY <2>1 DEF GateTick, InAcquire
    <2>3. Urgent(u)' = Urgent(u)
        <3>1. CASE Urgent(u)
            BY <2>1, <2>2, <3>1 DEF Urgent, Aged, Patience
        <3>2. CASE ~Urgent(u)
            BY <2>1, <2>2, <3>2 DEF Urgent, Aged, Patience, AlarmInTime, GateInv, GateTypeOK
        <3> QED
            BY <3>1, <3>2
    <2>4. Delay(u) - 1 <= Delay(u)' /\ Delay(u) \in Int /\ Delay(u)' \in Int
        BY <2>3, <1>1 DEF GateTick, Delay, Max2, GateInv, GateTypeOK
    <2>5. SlotFree(u, priorityWaiting)' = SlotFree(u, priorityWaiting)
        BY <2>3 DEF GateTick, SlotFree
    <2> QED
        BY <2>1, <2>2, <2>3, <2>4, <2>5 DEF AlarmInTime, None, Patience
<1> QED
    BY <1>1, <1>3, <1>4, <1>5 DEF GateInv

LEMMA StepInv == GateInv /\ [GateNext]_gateVars => GateInv'
<1> SUFFICES ASSUME GateInv, [GateNext]_gateVars PROVE GateInv'
    OBVIOUS
<1>1. CASE GateTick
    BY <1>1, TickInv
<1>2. ASSUME NEW t \in Caller, Step(t) PROVE GateInv'
    BY <1>2, CallInv, ProceedInv, WaitInv, ReleaseInv DEF Step
<1>3. CASE UNCHANGED gateVars
    BY <1>3
    DEF gateVars, GateInv, GateTypeOK, SlotsRespected, Posting, WaitingCounted, ClockBounds,
        AlarmsInTime, AlarmInTime, SlotFree, Delay, Urgent, Aged
<1> QED
    BY <1>1, <1>2, <1>3 DEF GateNext

LEMMA InvImplies == GateInv => GateTypeOK /\ SlotsRespected /\ WaitingCounted /\ RateKept /\ NoOversleep
<1> SUFFICES ASSUME GateInv PROVE RateKept /\ NoOversleep
    BY DEF GateInv
<1>1. RateKept
    BY GateAssumption DEF GateInv, GateTypeOK, ClockBounds, RateKept
<1>2. ASSUME NEW t \in resting PROVE ~Admissible(t, priorityWaiting)
    <2>1. AlarmInTime(t) /\ alarm[t] \in Int /\ Delay(t) \in Int
        BY <1>2, GateAssumption DEF GateInv, AlarmsInTime, GateTypeOK, Delay, Max2
    <2> QED
        BY <2>1 DEF AlarmInTime, Admissible
<1> QED
    BY <1>1, <1>2 DEF NoOversleep

LEMMA Invariance == GateSpec => []GateInv
<1> QED
    BY GateInitInv, StepInv, PTL DEF GateSpec

\* The gate's counters and clocks keep their types.
THEOREM GateTypeCorrect == GateSpec => []GateTypeOK
BY Invariance, InvImplies, PTL

\* in_flight counts the requests being posted, never exceeds the endpoint's
\* concurrency, and background requests never take the slot reserved for the
\* head and live lanes.
THEOREM GateSlots == GateSpec => []SlotsRespected
BY Invariance, InvImplies, PTL

\* priority_waiting counts exactly the priority callers blocked in acquire.
THEOREM GateWaiting == GateSpec => []WaitingCounted
BY Invariance, InvImplies, PTL

\* Whatever the mix of callers, no stretch of time is charged more than its
\* length, the priority debt and one batch.
THEOREM GateRate == GateSpec => []RateKept
BY Invariance, InvImplies, PTL

\* No waiter of acquire is still resting when it would be admitted.
THEOREM GateWakes == GateSpec => []NoOversleep
BY Invariance, InvImplies, PTL

=============================================================================
