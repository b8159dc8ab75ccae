---------------------------- MODULE WalMaintenance ----------------------------
(***************************************************************************)
(* The write-ahead log and its maintenance (lp_market_store.py,            *)
(* lp_market_index.py): analytics snapshots pin frames of the log, a       *)
(* maintenance thread backfills it, drains the snapshots to reset it and,  *)
(* past a ceiling, holds every writer until a reset succeeds.              *)
(*                                                                         *)
(* Time is a countdown in ticks.  A tick waits for whatever is overdue: a  *)
(* snapshot past its deadline or interrupted, a writer at the end of its   *)
(* transaction, a due maintenance round, a woken reader.                   *)
(* That is the timing assumption the liveness property rests on.           *)
(***************************************************************************)
EXTENDS Integers, FiniteSets, FiniteSetsExt, Absent

CONSTANTS
    Readers,         \* threads that take analytics snapshots
    MaxWal,          \* transactions in the log, and room for those in flight
    ResetAt,         \* wal_reset_bytes
    PauseAt,         \* wal_backlog_pause_bytes
    HoldAt,          \* wal_hold_bytes
    DrainTicks,      \* _READER_DRAIN_SECONDS
    CoolTicks,       \* _READER_DRAIN_COOLDOWN_SECONDS and WAL_RESET_RETRY_S
    SnapshotTicks,   \* the longest deadline of a snapshot
    MaxErrors        \* rounds that fail with an exception

ASSUME WalAssumption ==
    /\ 0 < ResetAt /\ ResetAt <= HoldAt /\ HoldAt < MaxWal /\ PauseAt > 0
    /\ DrainTicks > 1 /\ CoolTicks > 0 /\ SnapshotTicks > 0

VARIABLES
    wal,        \* committed frames in the log
    backfilled, \* frames a checkpoint has copied to the database
    snaps,      \* per reader: NULL, or its snapshot [mark, left, old]
    waits,      \* per reader: NULL, or the ticks a drain has kept it waiting
    drain,      \* _reader_drain_deadline, as the ticks left
    grace,      \* _reader_drain_interrupt_after, as the ticks left
    cool,       \* _reader_drain_retry_after, as the ticks left
    retry,      \* _wal_reset_after, as the ticks left
    held,       \* _wal_held_since and the store's writer hold
    writer,     \* NULL, or the ticks its transaction still takes
    round,      \* the maintenance thread: "rest", "reset", "turn"
    due,        \* ticks to its next round
    managed,    \* whether this reset attempt drains the readers
    walErrors

drainVars == <<drain, grace, cool>>
walVars == <<wal, backfilled, snaps, waits, drainVars, retry, held, writer, round, due, managed,
             walErrors>>

Active == {r \in Readers : snaps[r] # NULL}
Left(n) == IF n = NULL \/ n = 0 THEN n ELSE n - 1

----------------------------------------------------------------------------
(* Snapshots *)

\* reader_snapshot: admission waits for a drain; the first attempt starts the wait.
AskSnapshot(r) ==
    /\ snaps[r] = NULL /\ waits[r] = NULL
    /\ waits' = [waits EXCEPT ![r] = 0]
    /\ UNCHANGED <<wal, backfilled, snaps, drainVars, retry, held, writer, round, due, managed, walErrors>>

\* Mutant: a drain does not keep new snapshots out.
Mutant_SnapshotAdmitted(r) == waits[r] # NULL

SnapshotAdmitted(r) == waits[r] # NULL /\ drain = NULL
OpenSnapshot(r, ticks) ==
    /\ SnapshotAdmitted(r)
    /\ snaps' = [snaps EXCEPT ![r] = [mark |-> wal, left |-> ticks, old |-> FALSE]]
    /\ waits' = [waits EXCEPT ![r] = NULL]
    /\ UNCHANGED <<wal, backfilled, drainVars, retry, held, writer, round, due, managed, walErrors>>

\* interrupt_read: the snapshot's own deadline, or the grace of a drain that
\* started after it.
Overdue(r) == snaps[r] # NULL /\ (snaps[r].left = 0 \/ (snaps[r].old /\ grace = 0))
CloseSnapshot(r) ==
    /\ snaps[r] # NULL
    /\ snaps' = [snaps EXCEPT ![r] = NULL]
    /\ UNCHANGED <<wal, backfilled, waits, drainVars, retry, held, writer, round, due, managed, walErrors>>

\* _expire_reader_drain_locked: admission fails open, old snapshots stay marked.
ExpireDrain ==
    /\ drain = 0
    /\ drain' = NULL
    /\ cool' = Max({cool, CoolTicks})
    /\ UNCHANGED <<wal, backfilled, snaps, waits, grace, retry, held, writer, round, due, managed, walErrors>>

----------------------------------------------------------------------------
(* Writers: WriterTurn models the admission, here it is one turn *)

BeginWrite(ticks) ==
    /\ writer = NULL /\ ~held /\ round # "turn" /\ wal < MaxWal
    /\ writer' = ticks
    /\ UNCHANGED <<wal, backfilled, snaps, waits, drainVars, retry, held, round, due, managed, walErrors>>

Commit ==
    /\ writer # NULL
    /\ writer' = NULL
    /\ wal' = wal + 1
    /\ UNCHANGED <<backfilled, snaps, waits, drainVars, retry, held, round, due, managed, walErrors>>

----------------------------------------------------------------------------
(* _storage_maintenance_once *)

\* _engage_wal_hold, before and after the passive pass.
Engaged == held \/ wal >= HoldAt

\* SQLite backfills up to the oldest snapshot.
PassiveFrames == Min({wal} \cup {snaps[r].mark : r \in Active})

DrainNeeded(h, frames) == h \/ drain # NULL \/ wal - frames >= PauseAt

\* The passive checkpoint and the decision whether to reset.
Passive ==
    /\ round = "rest" /\ due = 0
    /\ held' = Engaged
    /\ backfilled' = PassiveFrames
    /\ LET needed == DrainNeeded(held', PassiveFrames)
           wanted == held' \/ ((wal >= ResetAt \/ needed) /\ (retry = 0 \/ needed))
       IN  /\ round' = IF wanted THEN "reset" ELSE "rest"
           /\ due' = IF wanted THEN 0 ELSE 1
           /\ managed' = (needed \/ wal >= 2 * ResetAt)
    /\ UNCHANGED <<wal, snaps, waits, drainVars, retry, writer, walErrors>>

\* checkpoint(TRUNCATE), before the writer turn: a managed attempt starts a
\* drain unless one is running or cooling down, and defers to the snapshots.
StartReset ==
    /\ round = "reset"
    /\ LET expired == drain = 0
           d == IF expired THEN NULL ELSE drain
           c == IF expired THEN Max({cool, CoolTicks}) ELSE cool
           starts == managed /\ d = NULL /\ c = 0
           running == managed /\ (starts \/ d # NULL)
       IN  /\ drain' = IF starts THEN DrainTicks ELSE IF managed THEN d ELSE drain
           /\ cool' = IF managed THEN c ELSE cool
           /\ grace' = IF starts THEN 1 ELSE grace
           /\ snaps' = [r \in Readers |-> IF starts /\ snaps[r] # NULL
                                          THEN [snaps[r] EXCEPT !.old = TRUE] ELSE snaps[r]]
           /\ managed' = running
           /\ retry' = CoolTicks
           /\ round' = IF running /\ Active # {} THEN "rest"
                       ELSE IF ~running /\ writer # NULL THEN "rest" ELSE "turn"
           /\ due' = IF round' = "rest" THEN 1 ELSE 0
    /\ UNCHANGED <<wal, backfilled, waits, held, writer, walErrors>>

\* The writer turn is waited for until the drain's deadline.
TurnMissed ==
    /\ round = "turn" /\ writer # NULL /\ drain \in {NULL, 0}
    /\ round' = "rest" /\ due' = 1
    /\ UNCHANGED <<wal, backfilled, snaps, waits, drainVars, retry, held, writer, managed, walErrors>>

\* With writers excluded SQLite resets the log unless a snapshot is open; the
\* drain ends, and with it a hold whose ceiling is no longer reached.
Truncate ==
    /\ round = "turn" /\ writer = NULL
    /\ round' = "rest" /\ due' = 1
    /\ IF Active # {} THEN UNCHANGED <<wal, backfilled, drain, grace>>
       ELSE wal' = 0 /\ backfilled' = 0 /\ drain' = NULL /\ grace' = NULL
    /\ held' = (held /\ wal' >= HoldAt)
    /\ UNCHANGED <<snaps, waits, cool, retry, writer, managed, walErrors>>

\* An exception anywhere in the round: _maintenance_run cancels the drain.
RoundFails ==
    /\ round # "rest" \/ due = 0
    /\ walErrors < MaxErrors /\ walErrors' = walErrors + 1
    /\ drain' = NULL /\ grace' = NULL
    /\ round' = "rest" /\ due' = 2
    /\ UNCHANGED <<wal, backfilled, snaps, waits, cool, retry, held, writer, managed>>

WalTick ==
    /\ \A r \in Readers : ~Overdue(r) /\ ~(SnapshotAdmitted(r) /\ waits[r] > 0)
    /\ writer # 0 /\ drain # 0
    /\ round = "rest" => due > 0
    /\ round = "reset" => FALSE
    /\ round = "turn" => writer # NULL
    /\ snaps' = [r \in Readers |-> IF snaps[r] = NULL THEN NULL ELSE [snaps[r] EXCEPT !.left = Left(@)]]
    /\ waits' = [r \in Readers |-> IF waits[r] = NULL \/ drain = NULL THEN waits[r] ELSE waits[r] + 1]
    /\ drain' = Left(drain) /\ grace' = Left(grace) /\ cool' = Left(cool) /\ retry' = Left(retry)
    /\ writer' = Left(writer) /\ due' = Left(due)
    /\ UNCHANGED <<wal, backfilled, held, round, managed, walErrors>>

WalInit ==
    /\ wal = 0 /\ backfilled = 0
    /\ snaps = [r \in Readers |-> NULL] /\ waits = [r \in Readers |-> NULL]
    /\ drain = NULL /\ grace = NULL /\ cool = 0 /\ retry = 0
    /\ held = FALSE /\ writer = NULL /\ round = "rest" /\ due = 1 /\ managed = FALSE
    /\ walErrors = 0

MaintenanceRound == Passive \/ StartReset \/ TurnMissed \/ Truncate

WalNext ==
    \/ \E r \in Readers : AskSnapshot(r) \/ CloseSnapshot(r)
                          \/ \E t \in 1..SnapshotTicks : OpenSnapshot(r, t)
    \/ \E t \in 1..2 : BeginWrite(t)
    \/ Commit \/ ExpireDrain \/ MaintenanceRound \/ RoundFails \/ WalTick

\* Threads that can run do run, and time passes.
WalFairness ==
    /\ WF_walVars(MaintenanceRound) /\ SF_walVars(WalTick)
    /\ WF_walVars(ExpireDrain)
    /\ WF_walVars(writer = 0 /\ Commit)
    /\ \A r \in Readers :
        /\ WF_walVars(Overdue(r) /\ CloseSnapshot(r))
        /\ WF_walVars(\E t \in 1..SnapshotTicks : OpenSnapshot(r, t))

WalSpec == WalInit /\ [][WalNext]_walVars /\ WalFairness

----------------------------------------------------------------------------
\* A hold on every writer is always lifted: whatever snapshots keep arriving,
\* a drain closes admission long enough for the old ones to be interrupted and
\* the log to be reset before it fails open.
HoldLifted == held ~> ~held
=============================================================================
