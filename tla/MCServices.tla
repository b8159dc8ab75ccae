------------------------------ MODULE MCServices ------------------------------
(***************************************************************************)
(* Two services every lane shares, side by side: the source gate and the   *)
(* maintenance of the write-ahead log.  They share no state, so a          *)
(* behaviour exercises the one chosen at the start while the other stays   *)
(* where it began.                                                         *)
(***************************************************************************)
EXTENDS SourceGate, WalMaintenance

VARIABLE service    \* "gate" or "wal"

ServicesInit == service \in {"gate", "wal"} /\ GateInit /\ WalInit

ServicesNext ==
    /\ UNCHANGED service
    /\ IF service = "gate" THEN GateNext ELSE UNCHANGED gateVars
    /\ IF service = "wal" THEN WalNext ELSE UNCHANGED walVars

\* WalFairness, in the behaviours that exercise it: its clock never rests.
WalRuns == service = "wal"
FairMaintenance ==
    /\ WF_walVars(WalRuns /\ MaintenanceRound) /\ SF_walVars(WalRuns /\ WalTick)
    /\ WF_walVars(WalRuns /\ ExpireDrain)
    /\ WF_walVars(WalRuns /\ writer = 0 /\ Commit)
    /\ \A r \in Readers :
        /\ WF_walVars(WalRuns /\ Overdue(r) /\ CloseSnapshot(r))
        /\ WF_walVars(WalRuns /\ \E t \in 1..SnapshotTicks : OpenSnapshot(r, t))

ServicesSpec ==
    /\ ServicesInit /\ [][ServicesNext]_<<service, gateVars, walVars>>
    /\ GateFairness /\ FairMaintenance
=============================================================================
