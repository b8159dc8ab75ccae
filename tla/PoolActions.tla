----------------------------- MODULE PoolActions -----------------------------
(***************************************************************************)
(* Removing and collecting one position directly on a concentrated pool    *)
(* (workbench_actions.py), and the fee claim both it and the accounting    *)
(* read model compute from the pool's accumulators (lp_math.fee_claim).    *)
(*                                                                         *)
(* The pool is external: growth counters wrap at their width, a tick's     *)
(* outside counter is flipped whenever the price crosses it, and a burn,   *)
(* even of nothing, credits what the position earned.  One token stands    *)
(* for two, and one unit of growth for 2^128.                              *)
(***************************************************************************)
EXTENDS Integers, FiniteSets

CONSTANTS
    Wrap,          \* the counters' modulus (2^256)
    LowerTick, UpperTick, MaxPoolTick,
    MaxLiquidity,        \* liquidity the position may hold
    MaxEarned,     \* fees earned in a behaviour
    SimTtl,        \* QUOTE_TTL_S
    MaxSims,       \* MAX_QUOTES
    MaxSimulated,  \* simulations in a behaviour
    MaxClock

ASSUME PoolAssumption ==
    /\ LowerTick \in Nat /\ UpperTick \in Nat /\ MaxPoolTick \in Nat
    /\ LowerTick < UpperTick /\ UpperTick <= MaxPoolTick
    /\ MaxLiquidity \in Nat \ {0} /\ MaxEarned \in Nat
    /\ Wrap \in Nat /\ MaxEarned < Wrap
    /\ SimTtl \in Nat /\ MaxSims \in Nat \ {0} /\ MaxSimulated \in Nat /\ MaxClock \in Nat

VARIABLES
    tick,        \* slot0.tick
    growth,      \* feeGrowthGlobal
    outside,     \* outside[t]: a tick's counter
    pos,         \* the owner's position: [liq, last, owed]
    earned,      \* fees the range earned for the position, ever
    paid,        \* fees collected, ever
    simulated,   \* ActionService._quotes; an id is a record's place in insertion order
    simCount,
    clock

poolVars == <<tick, growth, outside, pos, earned, paid>>
actionVars == <<poolVars, simulated, simCount, clock>>

Ticks == {LowerTick, UpperTick}
Masked(n) == n % Wrap
InRange == tick >= LowerTick /\ tick < UpperTick

----------------------------------------------------------------------------
(* lp_math *)

BelowGrowth(t, g, out) == IF t >= LowerTick THEN out[LowerTick] ELSE Masked(g - out[LowerTick])
\* Mutant: the upper tick counts as inside the range.
Mutant_AboveGrowth(t, g, out) == IF t <= UpperTick THEN out[UpperTick] ELSE Masked(g - out[UpperTick])

AboveGrowth(t, g, out) == IF t < UpperTick THEN out[UpperTick] ELSE Masked(g - out[UpperTick])
InsideGrowth(t, g, out) == Masked(g - BelowGrowth(t, g, out) - AboveGrowth(t, g, out))

FeeGrowthAmount(liq, current, previous) == liq * Masked(current - previous)

\* fee_claim, _uncollected_fees: credited and still lazy fees.
UncollectedFees ==
    IF pos.liq = 0 THEN pos.owed
    ELSE pos.owed + FeeGrowthAmount(pos.liq, InsideGrowth(tick, growth, outside), pos.last)

----------------------------------------------------------------------------
(* External: the pool *)

Accrue ==
    /\ earned < MaxEarned
    /\ growth' = Masked(growth + 1)
    /\ earned' = IF InRange THEN earned + pos.liq ELSE earned
    /\ UNCHANGED <<tick, outside, pos, paid, simulated, simCount, clock>>

CrossTick(t) ==
    /\ t \in 0..MaxPoolTick /\ t \in {tick - 1, tick + 1}
    /\ tick' = t
    /\ LET crossed == {x \in Ticks : (tick < x) # (t < x)}
       IN  outside' = [x \in Ticks |-> IF x \in crossed THEN Masked(growth - outside[x]) ELSE outside[x]]
    /\ UNCHANGED <<growth, pos, earned, paid, simulated, simCount, clock>>

Credited(liq) ==
    [liq |-> liq, last |-> InsideGrowth(tick, growth, outside), owed |-> UncollectedFees]

MintLiquidity ==
    /\ pos.liq < MaxLiquidity
    /\ pos' = Credited(pos.liq + 1)
    /\ UNCHANGED <<tick, growth, outside, earned, paid, simulated, simCount, clock>>

WallClock ==
    /\ clock < MaxClock
    /\ clock' = clock + 1
    /\ UNCHANGED <<poolVars, simulated, simCount>>

----------------------------------------------------------------------------
(* simulate: a record of the steps quoted, the oldest record making room *)

Remember(ss, s) ==
    LET live == {x \in ss : x.expires > clock}
        newer(x) == {y \in live : y.id > x.id}
    IN  {x \in live : Cardinality(newer(x)) < MaxSims - 1} \cup {s}

Quoted(action, liq, steps) ==
    /\ simCount < MaxSimulated
    /\ simCount' = simCount + 1
    /\ simulated' = Remember(simulated,
          [id |-> simCount + 1, action |-> action, liq |-> liq, steps |-> steps,
           fees |-> UncollectedFees, price |-> tick, expires |-> clock + SimTtl])
    /\ UNCHANGED <<poolVars, clock>>

SimulateRemove(liq) == liq \in 1..pos.liq /\ Quoted("remove", liq, {"burn", "collect"})
SimulateCollect ==
    /\ UncollectedFees > 0
    /\ Quoted("collect", 0, IF pos.liq > 0 THEN {"poke", "collect"} ELSE {"collect"})

----------------------------------------------------------------------------
(* prepare: the record, the chain and the stored transaction are checked     *)
(* again; the wallet then submits what it was given, and it is mined         *)

Live(s) == clock < s.expires

PrepareBurn(s) ==
    /\ Live(s) /\ "burn" \in s.steps
    /\ s.price = tick /\ pos.liq >= s.liq
    /\ pos' = Credited(pos.liq - s.liq)
    /\ UNCHANGED <<tick, growth, outside, earned, paid, simulated, simCount, clock>>

PreparePoke(s) ==
    /\ Live(s) /\ "poke" \in s.steps /\ pos.liq > 0
    /\ pos' = Credited(pos.liq)
    /\ UNCHANGED <<tick, growth, outside, earned, paid, simulated, simCount, clock>>

PrepareCollect(s) ==
    /\ Live(s) /\ "collect" \in s.steps
    /\ paid' = paid + pos.owed
    /\ pos' = [pos EXCEPT !.owed = 0]
    /\ UNCHANGED <<tick, growth, outside, earned, simulated, simCount, clock>>

DropExpired(s) ==
    /\ ~Live(s)
    /\ simulated' = simulated \ {s}
    /\ UNCHANGED <<poolVars, simCount, clock>>

----------------------------------------------------------------------------
\* Counters are inherited from the pool's past: any start, near the wrap too.
ActionInit ==
    /\ tick \in 0..MaxPoolTick
    /\ growth \in 0..(Wrap - 1)
    /\ outside \in [Ticks -> {0, growth}]
    /\ pos = [liq |-> 1, last |-> InsideGrowth(tick, growth, outside), owed |-> 0]
    /\ earned = 0 /\ paid = 0 /\ simulated = {} /\ simCount = 0 /\ clock = 0

ActionNext ==
    \/ Accrue \/ MintLiquidity \/ WallClock \/ SimulateCollect
    \/ \E t \in 0..MaxPoolTick : CrossTick(t)
    \/ \E l \in 1..MaxLiquidity : SimulateRemove(l)
    \/ \E s \in simulated :
         PrepareBurn(s) \/ PreparePoke(s) \/ PrepareCollect(s) \/ DropExpired(s)

ActionSpec == ActionInit /\ [][ActionNext]_actionVars

----------------------------------------------------------------------------
\* The fees shown, quoted and claimed are exactly those the position earned and
\* has not been paid, wherever the price went, however often the range was
\* crossed or the position changed, and across a counter's wrap.
FeesExact == UncollectedFees = earned - paid
=============================================================================
