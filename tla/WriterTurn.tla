------------------------------ MODULE WriterTurn ------------------------------
(***************************************************************************)
(* The writer turn of MarketStore (lp_market_store.py): the prioritised    *)
(* mutual exclusion through which every top-level SQLite write transaction *)
(* and every WAL reset passes.                                             *)
(*                                                                         *)
(* A caller takes a ticket, and then waits on the condition variable       *)
(* _writer_condition until it is admitted.  Ticket numbers are only ever   *)
(* compared, so the model keeps the order they stand for: ahead[t] is the  *)
(* set of waiters whose ticket is smaller than t's.  A waiter in asleep is *)
(* inside condition.wait and has not been notified.                        *)
(***************************************************************************)
EXTENDS Naturals

CONSTANTS
    Thread,     \* the threads that write to the store
    Maintenance,\* the thread that runs storage maintenance, and its resets
    Burst       \* _WRITER_MAX_FOREGROUND_BURST

ASSUME BurstAssumption == Burst \in Nat \ {0}
ASSUME MaintenanceAssumption == Maintenance \in Thread

VARIABLES
    pc,         \* "idle", "waiting" (inside _acquire_writer_turn), "writing"
    call,       \* the arguments of each thread's latest _acquire_writer_turn
    waiters,    \* the keys of _writer_waiters
    ahead,      \* the order of the tickets
    asleep,     \* waiters blocked in condition.wait
    late,       \* waiters whose deadline has passed
    active,     \* _writer_active
    hold,       \* _writer_hold is not None
    streak,     \* _writer_foreground_streak, saturated at Burst
    closed,     \* _closed: "no", "set", and "announced" once waiters are told
    passed      \* history: younger callers admitted past the oldest waiter

turnVars == <<pc, call, waiters, ahead, asleep, late, active, hold, streak,
              closed, passed>>

(***************************************************************************)
(* The calls the code makes: transaction(priority, blocking) for ordinary  *)
(* writes, and checkpoint's reset, which is either a live turn bounded by  *)
(* the reader drain's deadline or a background attempt that never waits.   *)
(***************************************************************************)
Live == 0
Background == 2
Ranks == Live..Background

WriteCall(rank, blocking) ==
    [rank |-> rank, blocking |-> blocking, timed |-> FALSE, bypass |-> FALSE]

ResetCalls ==
    { [rank |-> Live, blocking |-> TRUE, timed |-> TRUE, bypass |-> TRUE],
      [rank |-> Background, blocking |-> FALSE, timed |-> FALSE, bypass |-> TRUE] }

WriteCalls ==
    [rank : Ranks, blocking : BOOLEAN, timed : {FALSE}, bypass : {FALSE}]

Calls == WriteCalls \cup ResetCalls

CallsOf(t) == IF t = Maintenance THEN Calls ELSE WriteCalls

Init ==
    /\ pc = [t \in Thread |-> "idle"]
    /\ call = [t \in Thread |-> WriteCall(1, TRUE)]
    /\ waiters = {}
    /\ ahead = [t \in Thread |-> {}]
    /\ asleep = {}
    /\ late = {}
    /\ active = FALSE
    /\ hold = FALSE
    /\ streak = 0
    /\ closed = "no"
    /\ passed = 0

-----------------------------------------------------------------------------
(***************************************************************************)
(* Admission.  W and order are the waiters and the ticket order seen by    *)
(* the evaluating thread, whose own ticket is already registered.          *)
(***************************************************************************)
Mutant_NextByRank(t, W, order, req) ==
    \A u \in W : \/ req[t].rank < req[u].rank
                 \/ req[t].rank = req[u].rank /\ u \notin order[t]

Mutant_BackgroundOnly(t, W, order, req) ==
    IF streak >= Burst
    THEN order[t] = {} /\ req[t].rank = Background
    ELSE \A u \in W : \/ req[t].rank < req[u].rank
                      \/ req[t].rank = req[u].rank /\ u \notin order[t]

\* _next_writer_locked() = t: the oldest ticket once the burst is spent, else
\* the oldest ticket of the most urgent rank.
IsNext(t, W, order, req) ==
    IF streak >= Burst
    THEN order[t] = {}
    ELSE \A u \in W : \/ req[t].rank < req[u].rank
                      \/ req[t].rank = req[u].rank /\ u \notin order[t]

Mutant_AdmittedWhileActive(t, W, order, req) ==
    IF hold THEN req[t].bypass ELSE ~active /\ IsNext(t, W, order, req)

Admitted(t, W, order, req) ==
    /\ ~active
    /\ IF hold THEN req[t].bypass ELSE IsNext(t, W, order, req)

Expired(t, req, over) == req[t].timed /\ t \in over

-----------------------------------------------------------------------------
Mutant_Withdraw(t, W, order) ==
    /\ pc' = [pc EXCEPT ![t] = "idle"]
    /\ waiters' = W \ {t}
    /\ ahead' = [u \in Thread |-> IF u = t THEN {} ELSE order[u] \ {t}]
    /\ asleep' = asleep \ {t}
    /\ late' = late \ {t}
    /\ passed' = IF order[t] = {} THEN 0 ELSE passed
    /\ UNCHANGED <<active, hold, streak, closed>>

\* Leaving without a turn: return False, or raise because the store closed.
\* The finally block pops the ticket and, unless a writer is active, notifies.
Withdraw(t, W, order) ==
    /\ pc' = [pc EXCEPT ![t] = "idle"]
    /\ waiters' = W \ {t}
    /\ ahead' = [u \in Thread |-> IF u = t THEN {} ELSE order[u] \ {t}]
    /\ asleep' = IF active THEN asleep \ {t} ELSE {}
    /\ late' = late \ {t}
    /\ passed' = IF order[t] = {} THEN 0 ELSE passed
    /\ UNCHANGED <<active, hold, streak, closed>>

\* Taking the turn.  Only an admission past an older ticket lengthens the
\* foreground streak; admitting the oldest ticket ends it.
Take(t, W, order) ==
    /\ pc' = [pc EXCEPT ![t] = "writing"]
    /\ active' = TRUE
    /\ waiters' = W \ {t}
    /\ ahead' = [u \in Thread |-> IF u = t THEN {} ELSE order[u] \ {t}]
    /\ asleep' = asleep \ {t}
    /\ late' = late \ {t}
    /\ streak' = IF order[t] = {} THEN 0
                 ELSE IF streak < Burst THEN streak + 1 ELSE Burst
    /\ passed' = IF order[t] = {} THEN 0
                 ELSE IF hold THEN passed ELSE passed + 1
    /\ UNCHANGED <<hold, closed>>

\* condition.wait: the lock is given up until the next notification.
Sleep(t, W, order) ==
    /\ pc' = [pc EXCEPT ![t] = "waiting"]
    /\ waiters' = W
    /\ ahead' = order
    /\ asleep' = asleep \cup {t}
    /\ UNCHANGED <<late, active, hold, streak, closed, passed>>

\* One pass through the loop of _acquire_writer_turn, under the condition's
\* lock.
Evaluate(t, W, order, req, over) ==
    \/ /\ closed # "no"
       /\ Withdraw(t, W, order)
    \/ /\ closed = "no"
       /\ Admitted(t, W, order, req)
       /\ ~Expired(t, req, over)
       /\ Take(t, W, order)
    \/ /\ closed = "no"
       /\ \/ Expired(t, req, over)
          \/ ~Admitted(t, W, order, req) /\ ~req[t].blocking
       /\ Withdraw(t, W, order)
    \/ /\ closed = "no"
       /\ ~Admitted(t, W, order, req)
       /\ req[t].blocking
       /\ ~Expired(t, req, over)
       /\ Sleep(t, W, order)

\* A thread enters _acquire_writer_turn: it registers its ticket behind every
\* current waiter and evaluates its admission before giving up the lock.
Acquire(t, c, expired) ==
    /\ pc[t] = "idle"
    /\ closed = "no"
    /\ call' = [call EXCEPT ![t] = c]
    /\ Evaluate(t, waiters \cup {t}, [ahead EXCEPT ![t] = waiters], call',
                IF expired THEN {t} ELSE {})

\* A notified or timed-out waiter gets the lock again and re-evaluates.
Wake(t) ==
    /\ t \in waiters \ asleep
    /\ Evaluate(t, waiters, ahead, call, late)
    /\ UNCHANGED call

\* The deadline of a sleeping waiter passes: condition.wait(remaining) returns.
DeadlinePasses(t) ==
    /\ t \in waiters
    /\ t \notin late
    /\ call[t].timed
    /\ late' = late \cup {t}
    /\ asleep' = asleep \ {t}
    /\ UNCHANGED <<pc, call, waiters, ahead, active, hold, streak, closed, passed>>

\* _release_writer_turn.  slow: the streak has lasted at least
\* _WRITER_MAX_FOREGROUND_SECONDS, and its burst counts as spent.
Release(t, slow) ==
    /\ pc[t] = "writing"
    /\ pc' = [pc EXCEPT ![t] = "idle"]
    /\ active' = FALSE
    /\ streak' = IF streak # 0 /\ slow THEN Burst ELSE streak
    /\ asleep' = {}
    /\ UNCHANGED <<call, waiters, ahead, late, hold, closed, passed>>

\* hold_writers(reason) and hold_writers(None).
HoldWriters(on) ==
    /\ hold' = on
    /\ asleep' = {}
    /\ UNCHANGED <<pc, call, waiters, ahead, late, active, streak, closed, passed>>

\* close(), first under the reader condition and then under the writer one.
CloseSet ==
    /\ closed = "no"
    /\ closed' = "set"
    /\ UNCHANGED <<pc, call, waiters, ahead, asleep, late, active, hold, streak, passed>>

CloseAnnounce ==
    /\ closed = "set"
    /\ closed' = "announced"
    /\ hold' = FALSE
    /\ asleep' = {}
    /\ UNCHANGED <<pc, call, waiters, ahead, late, active, streak, passed>>

Next ==
    \/ \E t \in Thread :
          \/ \E c \in CallsOf(t), expired \in BOOLEAN :
                (expired => c.timed) /\ Acquire(t, c, expired)
          \/ Wake(t)
          \/ DeadlinePasses(t)
          \/ \E slow \in BOOLEAN : Release(t, slow)
    \/ \E on \in BOOLEAN : hold # on /\ HoldWriters(on)
    \/ CloseSet
    \/ CloseAnnounce

\* A runnable waiter re-acquires the condition's lock, a transaction ends and
\* close() runs to its end.  Nothing makes a thread write, lifts a WAL hold or
\* closes the store.
Fairness ==
    /\ \A t \in Thread : WF_turnVars(Wake(t))
    /\ \A t \in Thread : WF_turnVars(\E slow \in BOOLEAN : Release(t, slow))
    /\ WF_turnVars(CloseAnnounce)

Spec == Init /\ [][Next]_turnVars

FairSpec == Spec /\ Fairness

-----------------------------------------------------------------------------
TypeOK ==
    /\ pc \in [Thread -> {"idle", "waiting", "writing"}]
    /\ call \in [Thread -> Calls]
    /\ waiters \subseteq Thread
    /\ ahead \in [Thread -> SUBSET Thread]
    /\ asleep \subseteq waiters
    /\ late \subseteq waiters
    /\ active \in BOOLEAN
    /\ hold \in BOOLEAN
    /\ streak \in 0..Burst
    /\ closed \in {"no", "set", "announced"}
    /\ passed \in Nat

Writing == { t \in Thread : pc[t] = "writing" }

(***************************************************************************)
(* At most one thread is between _acquire_writer_turn and                  *)
(* _release_writer_turn, whatever mixture of priorities, non-blocking      *)
(* attempts and WAL resets that bypass a hold is under way, and            *)
(* _writer_active says whether there is one.                               *)
(***************************************************************************)
MutualExclusion ==
    /\ \A t, u \in Writing : t = u
    /\ active <=> Writing # {}

(***************************************************************************)
(* No lost wakeup: a waiter that the code would admit now is never left    *)
(* inside condition.wait.  The notification may come from a release, a     *)
(* hold, or another waiter that gave up.                                   *)
(***************************************************************************)
NoLostWakeup ==
    \A t \in waiters : Admitted(t, waiters, ahead, call) => t \notin asleep

(***************************************************************************)
(* Bounded overtaking: outside WAL holds, at most Burst younger callers    *)
(* are admitted past the oldest waiter before it gets its own turn,        *)
(* however many of them have a higher priority.                            *)
(***************************************************************************)
BoundedOvertaking == passed <= Burst

(***************************************************************************)
(* Every blocking write is eventually served (or refused because the store *)
(* closes), unless WAL holds never cease: the background lanes are not     *)
(* starved by the live lane.                                               *)
(***************************************************************************)
EveryWriterServed ==
    <>[]~hold => \A t \in Thread : (pc[t] = "waiting") ~> (pc[t] # "waiting")
=============================================================================
