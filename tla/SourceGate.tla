------------------------------ MODULE SourceGate ------------------------------
(***************************************************************************)
(* _SourceGate (lp_rpc.py): the concurrency slots and the pacing clocks    *)
(* that all lanes using one provider endpoint share.                       *)
(*                                                                         *)
(* The code only ever compares its clocks with time.monotonic(), so the    *)
(* model keeps what is left of them: sharedDelay is next_at - now and      *)
(* priorityDelay is priority_next_at - now, both cut off at zero, alarm is *)
(* the rest of a waiter's timeout and waited is now - started.  One GateTick   *)
(* is one unit of all of them.  A thread in resting is inside ready.wait    *)
(* and has neither been notified nor timed out.                            *)
(***************************************************************************)
EXTENDS Integers, FiniteSets

CONSTANTS
    Caller,      \* the threads that post to this endpoint
    Priority,    \* those that do so through a lane of PRIORITY_LANES
    Concurrency, \* the endpoint's slots: 4, or 16 for a local node
    MaxSpend,    \* the pacing cost of the largest batch
    Debt,        \* _PRIORITY_DEBT_SECONDS
    Yield        \* _BACKGROUND_MAX_YIELD_SECONDS

ASSUME GateAssumption ==
    /\ IsFiniteSet(Caller)
    /\ Priority \subseteq Caller
    /\ Concurrency \in Nat \ {0}
    /\ MaxSpend \in Nat
    /\ Debt \in Nat
    /\ Yield \in Nat

VARIABLES
    stage,             \* "idle", "called", "waiting" or "posting"
    spend,          \* interval * cost of a thread inside acquire
    waited,         \* how long it has been in acquire, up to Patience
    resting,         \* waiters blocked in ready.wait
    alarm,          \* what is left of their timeouts, None without one
    inFlight,       \* in_flight
    sharedDelay,    \* next_at
    priorityDelay,  \* priority_next_at
    priorityWaiting,\* priority_waiting
    surplus         \* history: cost granted beyond the elapsed time, at worst

gateVars == <<stage, spend, waited, resting, alarm, inFlight, sharedDelay,
              priorityDelay, priorityWaiting, surplus>>

None == -1
Max2(a, b) == IF a > b THEN a ELSE b
Min2(a, b) == IF a < b THEN a ELSE b

\* Waiting longer than this is indistinguishable: past the yield and one turn.
Patience == Yield + MaxSpend + 1

\* max(1, self.concurrency - 1): background requests leave one slot.
BackgroundSlots == Max2(1, Concurrency - 1)

GateInit ==
    /\ stage = [t \in Caller |-> "idle"]
    /\ spend = [t \in Caller |-> 0]
    /\ waited = [t \in Caller |-> 0]
    /\ resting = {}
    /\ alarm = [t \in Caller |-> None]
    /\ inFlight = 0
    /\ sharedDelay = 0
    /\ priorityDelay = 0
    /\ priorityWaiting = 0
    /\ surplus = 0

-----------------------------------------------------------------------------
(***************************************************************************)
(* One round of acquire's loop, for a thread that holds ready's lock.      *)
(* w is priority_waiting as that thread sees it, its own entry included.   *)
(***************************************************************************)
Aged(t) == t \notin Priority /\ waited[t] >= Yield

\* Priority callers, and background callers that have yielded long enough.
Urgent(t) == t \in Priority \/ Aged(t)

Mutant_SlotFreeYields(t, w) ==
    IF t \in Priority
    THEN inFlight < Concurrency
    ELSE inFlight < BackgroundSlots /\ w = 0

SlotFree(t, w) ==
    IF Urgent(t)
    THEN inFlight < (IF t \in Priority THEN Concurrency ELSE BackgroundSlots)
    ELSE inFlight < BackgroundSlots /\ w = 0

\* delay, where it is positive.
Delay(t) ==
    IF Urgent(t)
    THEN Max2(priorityDelay, sharedDelay - Debt)
    ELSE sharedDelay

Admissible(t, w) == SlotFree(t, w) /\ Delay(t) <= 0

Mutant_Timeout(t, w) == IF SlotFree(t, w) THEN Delay(t) ELSE None

\* A wait without a slot has no timeout, except that a background caller
\* always looks again when it comes of age.
Timeout(t, w) ==
    IF Urgent(t)
    THEN IF SlotFree(t, w) THEN Delay(t) ELSE None
    ELSE IF SlotFree(t, w) THEN Min2(Delay(t), Yield - waited[t])
                           ELSE Yield - waited[t]

\* ready.notify_all()
NotifyAll ==
    /\ resting' = {}
    /\ alarm' = [u \in Caller |-> None]

\* The finally block: a priority caller ceases to hold the others up.
Leave(t, w) ==
    IF t \in Priority
    THEN priorityWaiting' = w - 1 /\ NotifyAll
    ELSE priorityWaiting' = w /\ UNCHANGED <<resting, alarm>>

Mutant_Charge(t) ==
    /\ sharedDelay' = IF Urgent(t) THEN sharedDelay ELSE sharedDelay + spend[t]
    /\ priorityDelay' = IF Urgent(t) THEN spend[t] ELSE priorityDelay

\* Every grant is charged to the shared clock, urgent ones also to their own.
Charge(t) ==
    /\ sharedDelay' = sharedDelay + spend[t]
    /\ priorityDelay' = IF Urgent(t) THEN spend[t] ELSE priorityDelay

\* The return from acquire.
Grant(t, w) ==
    /\ stage' = [stage EXCEPT ![t] = "posting"]
    /\ inFlight' = inFlight + 1
    /\ Charge(t)
    /\ surplus' = surplus + spend[t]
    /\ spend' = [spend EXCEPT ![t] = 0]
    /\ waited' = [waited EXCEPT ![t] = 0]
    /\ Leave(t, w)

Rest(t, w) ==
    /\ stage' = [stage EXCEPT ![t] = "waiting"]
    /\ resting' = resting \cup {t}
    /\ alarm' = [alarm EXCEPT ![t] = Timeout(t, w)]
    /\ priorityWaiting' = w
    /\ UNCHANGED <<spend, waited, inFlight, sharedDelay, priorityDelay, surplus>>

-----------------------------------------------------------------------------
\* priority_waiting once t has entered acquire's critical section.
Entered(t) == IF stage[t] = "called" /\ t \in Priority
              THEN priorityWaiting + 1 ELSE priorityWaiting

Awake(t) == stage[t] = "called" \/ (stage[t] = "waiting" /\ t \notin resting)

\* _post calls acquire; the clock starts before the lock is taken.
Call(t, cost) ==
    /\ stage[t] = "idle"
    /\ stage' = [stage EXCEPT ![t] = "called"]
    /\ spend' = [spend EXCEPT ![t] = cost]
    /\ waited' = [waited EXCEPT ![t] = 0]
    /\ UNCHANGED <<resting, alarm, inFlight, sharedDelay, priorityDelay,
                   priorityWaiting, surplus>>

Proceed(t) ==
    /\ Awake(t)
    /\ Admissible(t, Entered(t))
    /\ Grant(t, Entered(t))

Wait(t) ==
    /\ Awake(t)
    /\ ~Admissible(t, Entered(t))
    /\ Rest(t, Entered(t))

\* The request has been answered, has failed or has timed out.
ReleaseSlot(t) ==
    /\ stage[t] = "posting"
    /\ stage' = [stage EXCEPT ![t] = "idle"]
    /\ inFlight' = inFlight - 1
    /\ NotifyAll
    /\ UNCHANGED <<spend, waited, sharedDelay, priorityDelay,
                   priorityWaiting, surplus>>

InAcquire(t) == stage[t] \in {"called", "waiting"}

\* time.monotonic() advances, and with it every wait whose timeout is over.
GateTick ==
    /\ waited' = [t \in Caller |-> IF InAcquire(t) /\ waited[t] < Patience
                                   THEN waited[t] + 1 ELSE waited[t]]
    /\ resting' = {t \in resting : alarm[t] # 1}
    /\ alarm' = [t \in Caller |-> IF alarm[t] > 1 THEN alarm[t] - 1 ELSE None]
    /\ sharedDelay' = Max2(0, sharedDelay - 1)
    /\ priorityDelay' = Max2(0, priorityDelay - 1)
    /\ surplus' = Max2(0, surplus - 1)
    /\ UNCHANGED <<stage, spend, inFlight, priorityWaiting>>

Step(t) ==
    \/ \E cost \in 0..MaxSpend : Call(t, cost)
    \/ Proceed(t)
    \/ Wait(t)
    \/ ReleaseSlot(t)

GateNext == GateTick \/ \E t \in Caller : Step(t)

GateSpec == GateInit /\ [][GateNext]_gateVars

(***************************************************************************)
(* Time passes, awake threads get the lock, requests end (each has an HTTP *)
(* timeout), and a waiter that is again and again admissible when it looks *)
(* is not for ever beaten to the lock.                                     *)
(***************************************************************************)
GateFairness ==
    /\ WF_gateVars(GateTick)
    /\ \A t \in Caller :
        /\ WF_gateVars(Wait(t))
        /\ SF_gateVars(Proceed(t))
        /\ WF_gateVars(ReleaseSlot(t))

GateFairSpec == GateSpec /\ GateFairness

-----------------------------------------------------------------------------
Posting == {t \in Caller : stage[t] = "posting"}

GateTypeOK ==
    /\ stage \in [Caller -> {"idle", "called", "waiting", "posting"}]
    /\ spend \in [Caller -> 0..MaxSpend]
    /\ waited \in [Caller -> 0..Patience]
    /\ resting \in SUBSET Caller
    /\ alarm \in [Caller -> Int]
    /\ inFlight \in Nat
    /\ sharedDelay \in Nat
    /\ priorityDelay \in Nat
    /\ priorityWaiting \in Nat
    /\ surplus \in Nat

\* The provider never sees more than Concurrency requests at once, and the
\* background lanes, aged ones included, never take the last slot from head
\* and live ingest (acquire's docstring: "leave one slot to priority callers").
SlotsRespected ==
    /\ inFlight = Cardinality(Posting)
    /\ inFlight <= Concurrency
    /\ Cardinality(Posting \ Priority) <= BackgroundSlots

\* priority_waiting counts exactly the priority callers inside acquire, so a
\* head request that was served never goes on holding the background lanes up.
WaitingCounted ==
    priorityWaiting =
        Cardinality({t \in Priority : stage[t] = "waiting"})

\* Over every stretch of time the cost granted exceeds the time elapsed by at
\* most the permitted debt and one batch: borrowing by the priority lanes is
\* charged, so "the provider's long-run rate is unchanged".
RateKept == surplus <= Debt + MaxSpend

\* Nobody sleeps through its turn: a waiter that would be admitted now has
\* been woken, by a notification or by a timeout that ended in time.  A
\* release, the end of a priority wait, the clocks and coming of age can each
\* make a sleeper admissible.
NoOversleep ==
    \A t \in resting : ~Admissible(t, priorityWaiting)

\* Head demand cannot starve a background request, nor background demand a
\* head request: whoever calls acquire gets to post.
EveryCallerServed ==
    \A t \in Caller : InAcquire(t) ~> (stage[t] = "posting")
=============================================================================
