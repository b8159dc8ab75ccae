------------------------------ MODULE Watchdog ------------------------------
(***************************************************************************)
(* The health watchdog (lp_healthcheck.py), started every minute by a      *)
(* systemd timer.  One invocation probes the origin and the public site,   *)
(* counts consecutive failures in a state file, and restarts the           *)
(* application or the tunnel when the counts, the rate limits and the      *)
(* unit's own state allow it.  An invocation may be killed at any point    *)
(* (TimeoutStartSec) and any save of the state file may fail.              *)
(***************************************************************************)
EXTENDS Naturals, FiniteSets, Sequences, Absent

CONSTANTS
  Threshold,      \* FAILURE_THRESHOLD
  Cooldown,       \* RECOVERY_COOLDOWN_SECONDS
  Window,         \* RECOVERY_WINDOW_SECONDS
  MaxRecoveries,  \* MAX_RECOVERIES_PER_WINDOW
  StallTime,      \* --startup-stall-seconds
  WorkCounters,   \* what the startup page may report of its work
  MaxWdTime

\* The recoveries the window bounds are further apart than the cooldown.
ASSUME WdAssumption ==
  /\ Threshold \in Nat \ {0} /\ MaxRecoveries \in Nat \ {0} /\ StallTime \in Nat
  /\ Cooldown \in Nat \ {0} /\ Window \in Nat /\ Cooldown <= Window

VARIABLES
  wdTime,    \* the wall clock
  disk,      \* the state file
  check,     \* the invocation that holds the lock, or NULL
  restarts   \* history: [unit, at] of every restart issued

wdVars == <<wdTime, disk, check, restarts>>

Units == {"app", "tunnel"}

EmptyState == [origin |-> 0, public |-> 0,
               attempts |-> [u \in Units |-> {}], signature |-> NULL, progressAt |-> NULL]

(* What a probe of the origin finds: healthy, failing, or starting with the *)
(* work counters of its startup page (NULL: it reports none).               *)
Origins == [kind: {"ok", "bad"}, work: {NULL}] \cup [kind: {"starting"}, work: WorkCounters \cup {NULL}]

WdInit ==
  /\ wdTime = 0 /\ disk = EmptyState /\ check = NULL /\ restarts = <<>>

WdTick ==
  /\ wdTime < MaxWdTime
  /\ wdTime' = wdTime + 1
  /\ UNCHANGED <<disk, check, restarts>>

(* main up to the probes: the clock is read, then the lock is taken without *)
(* waiting; an invocation that does not get it changes nothing.             *)
Probe(origin, publicOk) ==
  /\ check = NULL
  /\ check' = [pc |-> "probed", at |-> wdTime, origin |-> origin, publicOk |-> publicOk]
  /\ UNCHANGED <<wdTime, disk, restarts>>

(* _startup_diagnostic: any change of the counters is progress. *)
ProgressAt(state, origin, at) ==
  IF state.signature = origin /\ state.progressAt # NULL THEN state.progressAt ELSE at

Alive(state, origin, at) ==
  \/ origin.kind = "ok"
  \/ /\ origin.kind = "starting" /\ origin.work # NULL
     /\ at < ProgressAt(state, origin, at) + StallTime

Pruned(times, at) == {t \in times : at < t + Window}

(* min(failures + 1, 1_000_000): nothing distinguishes counts past Threshold. *)
OneMore(failures) == IF failures < Threshold THEN failures + 1 ELSE failures

(* The state after this invocation's observations. *)
HealthAfter(state, c) ==
  [state EXCEPT
     !.origin = IF Alive(state, c.origin, c.at) THEN 0 ELSE OneMore(@),
     !.public = IF c.publicOk THEN 0 ELSE OneMore(@),
     !.attempts = [u \in Units |-> Pruned(@[u], c.at)],
     !.signature = CASE c.origin.kind = "starting" -> c.origin
                     [] c.origin.kind = "ok" -> NULL
                     [] OTHER -> @,
     !.progressAt = CASE c.origin.kind = "starting" -> ProgressAt(state, c.origin, c.at)
                      [] c.origin.kind = "ok" -> NULL
                      [] OTHER -> @]

(* _save_state: written beside the file and renamed over it.  A failure    *)
(* before the rename leaves the old file, one after it (the directory's    *)
(* fsync) leaves the new one; both report failure.                         *)
Saves(state, saved) ==
  \/ disk' = state /\ saved
  \/ disk' = state /\ ~saved
  \/ disk' = disk /\ ~saved

(* The observations are saved; what may be recovered depends on the origin. *)
ObserveHealth(saved) ==
  LET state == HealthAfter(disk, check)
      alive == Alive(disk, check.origin, check.at)
      next  == CASE check.origin.kind = "ok" -> "tunnel"
                 [] check.origin.kind # "ok" /\ ~alive -> "app"
                 [] OTHER -> "end"
  IN
  /\ check # NULL /\ check.pc = "probed"
  /\ Saves(state, saved)
  /\ check' = IF saved /\ next # "end" THEN [pc |-> next, at |-> check.at, state |-> state] ELSE NULL
  /\ UNCHANGED <<wdTime, restarts>>

Failures(unit) == IF unit = "app" THEN check.state.origin ELSE check.state.public

(* _rate_limit_reason is None. *)
RateAllows(unit) ==
  LET times == Pruned(check.state.attempts[unit], check.at)
  IN  /\ \A t \in times : check.at >= t + Cooldown
      /\ Cardinality(times) < MaxRecoveries

(* The unit states in which each recovery goes on: an active application    *)
(* only past its startup grace, the tunnel only when it is not running.     *)
Restartable(unit, status) ==
  status = "down" \/ (unit = "app" /\ status = "active_past_grace")

(* _app_recovery and _tunnel_recovery up to the saved attempt. *)
RecordAttempt(unit, status, saved) ==
  /\ check # NULL /\ check.pc = unit
  /\ Failures(unit) >= Threshold /\ RateAllows(unit) /\ Restartable(unit, status)
  /\ Saves([check.state EXCEPT !.attempts[unit] = Pruned(@, check.at) \cup {check.at}], saved)
  /\ check' = IF saved THEN [pc |-> "restart", at |-> check.at, unit |-> unit] ELSE NULL
  /\ UNCHANGED <<wdTime, restarts>>

NoRecovery(unit, status) ==
  /\ check # NULL /\ check.pc = unit
  /\ ~(Failures(unit) >= Threshold /\ RateAllows(unit) /\ Restartable(unit, status))
  /\ check' = NULL
  /\ UNCHANGED <<wdTime, disk, restarts>>

(* Mutant: the attempt is not yet on disk when the unit is restarted. *)
Mutant_RecordAfter(unit, status, saved) ==
  /\ check # NULL /\ check.pc = unit
  /\ Failures(unit) >= Threshold /\ RateAllows(unit) /\ Restartable(unit, status)
  /\ check' = [pc |-> "restart", at |-> check.at, unit |-> unit]
  /\ UNCHANGED <<wdTime, disk, restarts>>

(* The attempt is on disk before systemctl is called. *)
Attempt(unit, status, saved) == RecordAttempt(unit, status, saved)

(* _restart_unit, whatever systemctl answers. *)
RestartUnit ==
  /\ check # NULL /\ check.pc = "restart"
  /\ restarts' = Append(restarts, [unit |-> check.unit, at |-> check.at])
  /\ check' = NULL
  /\ UNCHANGED <<wdTime, disk>>

(* TimeoutStartSec ends the invocation; the lock goes with the process. *)
Killed ==
  /\ check # NULL
  /\ check' = NULL
  /\ UNCHANGED <<wdTime, disk, restarts>>

UnitStates == {"down", "active_past_grace", "other"}

WdNext ==
  \/ WdTick \/ RestartUnit \/ Killed
  \/ \E o \in Origins, p \in BOOLEAN : Probe(o, p)
  \/ \E saved \in BOOLEAN : ObserveHealth(saved)
  \/ \E u \in Units, s \in UnitStates :
       NoRecovery(u, s) \/ \E saved \in BOOLEAN : Attempt(u, s, saved)

WdSpec == WdInit /\ [][WdNext]_wdVars

-----------------------------------------------------------------------------
(* However invocations are killed and saves fail, a unit is restarted at   *)
(* most MaxRecoveries times in any Window, and never twice within Cooldown *)
(* of each other (by the time the invocations started).                    *)
RestartsBounded == \A u \in Units :
  LET mine == {i \in DOMAIN restarts : restarts[i].unit = u} IN
  /\ \A i, j \in mine : i < j => restarts[i].at + Cooldown <= restarts[j].at
  /\ \A j \in mine :
       Cardinality({i \in mine : i <= j /\ restarts[j].at < restarts[i].at + Window}) <= MaxRecoveries
=============================================================================
