----------------------------- MODULE MCHolderGate -----------------------------
(***************************************************************************)
(* A policy on one token is stored; a second version, on another token, may *)
(* follow.                                                                 *)
(***************************************************************************)
EXTENDS HolderGate

CONSTANTS tA, tB

MCStored == {[version |-> 1, token |-> tA, need |-> 1]}
MCPolicies == MCStored \cup {[version |-> 2, token |-> tB, need |-> 1]}
=============================================================================
