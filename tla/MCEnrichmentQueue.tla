-------------------------- MODULE MCEnrichmentQueue --------------------------
(***************************************************************************)
(* Two transactions, a V4 pool, a pool that needs factory proof and an     *)
(* emitter that is no pool.                                                *)
(***************************************************************************)
EXTENDS EnrichmentQueue

CONSTANTS vPool, fPool, gPool

\* Liquidity in the V4 pool, then in both.
MCTouchLate == [t \in Tx |-> IF t = 1 THEN {vPool} ELSE {vPool, fPool}]

\* Liquidity in the one, then in the other.
MCTouchEach == [t \in Tx |-> IF t = 1 THEN {vPool} ELSE {fPool}]

\* Liquidity in both, then a swap in the second and in an emitter that is no pool.
MCTouchFake == [t \in Tx |-> IF t = 1 THEN {vPool, fPool} ELSE {fPool, gPool}]

MCLpFirst == [t \in Tx |-> IF t = 1 THEN {vPool, fPool} ELSE {}]

=============================================================================
