------------------------------- MODULE SwapPlan -------------------------------
(***************************************************************************)
(* Planning a swap (tx_routes.py, tx_plan.py, the swap half of tx_core.py):*)
(* candidate routes, the router program each compiles to, its simulation,  *)
(* the reconciliation of the simulated logs, the choice and the split, the *)
(* bounds put in before signing, and reading the mined call back.          *)
(*                                                                         *)
(* Amounts are small integers and an address is a name.  The two routers   *)
(* and the pools are external: a pool answers along a curve whose level    *)
(* moves between quote, preflight and block.                               *)
(***************************************************************************)
EXTENDS Integers, Sequences, FiniteSets, SequencesExt, Absent

CONSTANTS
    Books,        \* sequences of a token's pools, deepest first
    BridgePools,  \* sequence of the pools between quote currencies
    Orders,       \* SwapIntent records
    Levels,       \* price levels of a pool
    PoolDepth,    \* bends a pool's curve
    FeeBps,       \* the service's fee
    SplitSteps,   \* SPLIT_STEPS
    SplitGas,     \* extra gas of a split, in the output currency
    MaxImpact,    \* policy.max_impact_bps
    MaxMoves      \* price changes while an order is open

ASSUME SwapAssumption ==
    /\ PoolDepth \in Nat \ {0} /\ FeeBps \in 0..9999 /\ SplitSteps \in Nat \ {0}
    /\ SplitGas \in Nat /\ MaxImpact \in Nat /\ MaxMoves \in Nat

VARIABLES
    order,    \* the intent
    book,     \* the token's pools
    levels,   \* the pools' price levels
    deal,     \* NULL, or the stored quote
    signed,   \* NULL, or the finalised plan the wallet signs
    filled,   \* NULL, or what the mined call did
    moves

swapVars == <<order, book, levels, deal, signed, filled, moves>>

Currencies == {"eth", "weth", "usdg", "tok"}
QuoteCurrencies == {"eth", "weth", "usdg"}
OwnRouter == {"giga"}           \* factories reached through their own router
EntireBalance == -1             \* CONTRACT_BALANCE and OPEN_DELTA
MaxCandidates == 6
MaxLegs == 3
OffMarketBps == 300

SumSeq(s) == FoldLeft(LAMBDA a, b : a + b, 0, s)
Bps(amount, bps) == (amount * bps) \div 10000
SameAsset(a, b) == a = b \/ {a, b} = {"eth", "weth"}
OtherSide(p, c) == IF c = p.c0 THEN p.c1 ELSE p.c0
Swappable(p) == p.factory # "other"

CurrencyIn(o) == IF o.side = "buy" THEN o.quote ELSE "tok"
CurrencyOut(o) == IF o.side = "buy" THEN "tok" ELSE o.quote
FeeLeg(o) == IF o.side = "buy" THEN "input" ELSE "output"

----------------------------------------------------------------------------
(* RouteBook.candidates *)

HopOf(p, from, to) == [pool |-> p, cin |-> from, cout |-> to]
EndLike(p, c) == IF SameAsset(p.c0, c) THEN p.c0 ELSE IF SameAsset(p.c1, c) THEN p.c1 ELSE NULL

Bridged(p, other, quote, bridge) ==
    /\ EndLike(bridge, other) # NULL /\ EndLike(bridge, quote) # NULL
    /\ EndLike(bridge, other) # EndLike(bridge, quote)
    /\ p.factory \in OwnRouter => bridge.venue = "v3" /\ bridge.factory = p.factory
    /\ bridge.factory \in OwnRouter => p.factory = bridge.factory

RoutesOf(p, o) ==
    LET other == OtherSide(p, "tok")
        hop == IF o.side = "buy" THEN HopOf(p, other, "tok") ELSE HopOf(p, "tok", other)
        bridges == SelectSeq(BridgePools, LAMBDA b : Bridged(p, other, o.quote, b))
        Via(b) == LET near == EndLike(b, other)
                      far == EndLike(b, o.quote)
                  IN  IF o.side = "buy" THEN <<HopOf(b, far, near), hop>> ELSE <<hop, HopOf(b, near, far)>>
    IN  IF ~Swappable(p) THEN <<>>
        ELSE IF SameAsset(other, o.quote) THEN <<<<hop>>>>
        ELSE IF other \notin QuoteCurrencies THEN <<>>
        ELSE [i \in 1..Len(bridges) |-> Via(bridges[i])]

\* The best route of every venue first, then the others.
VenuesFirst(ranked) ==
    LET Venue(i) == LET r == ranked[i]
                    IN  IF "tok" \in {r[1].cin, r[1].cout} THEN r[1].pool.venue ELSE r[Len(r)].pool.venue
        First(i) == \A j \in 1..(i - 1) : Venue(j) # Venue(i)
        ids == [i \in 1..Len(ranked) |-> i]
        chosen == SelectSeq(ids, First) \o SelectSeq(ids, LAMBDA i : ~First(i))
    IN  [i \in 1..(IF Len(chosen) < MaxCandidates THEN Len(chosen) ELSE MaxCandidates) |-> ranked[chosen[i]]]

RouteCandidates(o) == VenuesFirst(FlattenSeq([i \in 1..Len(book) |-> RoutesOf(book[i], o)]))

----------------------------------------------------------------------------
(* SwapPlanner: the router program *)

Command(op, c, to, amount, min, hop) ==
    [op |-> op, c |-> c, to |-> to, amount |-> amount, min |-> min, hop |-> hop]
WrapEth(amount) == Command("wrap", "eth", "router", amount, 0, NULL)
UnwrapWeth(to, min) == Command("unwrap", "weth", to, EntireBalance, min, NULL)
PayPortion(c) == Command("fee", c, "recipient", EntireBalance, 0, NULL)
SweepTo(c, min) == Command("sweep", c, "wallet", EntireBalance, min, NULL)
TransferFrom(c, amount) == Command("pull", c, "router", amount, 0, NULL)
HopCommand(hop, to, amount) == Command("swap", hop.cin, to, amount, 0, hop)

\* A currency change inside the router, before a hop that takes the other one.
Rewrap(held, wanted, amount) ==
    IF held = wanted THEN <<>>
    ELSE IF held = "eth" THEN <<WrapEth(amount)>> ELSE <<UnwrapWeth("router", 0)>>

Pull(o) == IF CurrencyIn(o) = "eth" THEN <<>> ELSE <<TransferFrom(CurrencyIn(o), o.amount)>>
FeeFirst(o) == IF FeeLeg(o) = "input" THEN <<PayPortion(CurrencyIn(o))>> ELSE <<>>

ViaOwnRouter(route) ==
    /\ route[1].pool.factory \in OwnRouter
    /\ \A k \in DOMAIN route : route[k].pool.venue = "v3" /\ route[k].pool.factory = route[1].pool.factory

Shape(o, route, leg, feeIn) ==
    [route |-> route, cin |-> CurrencyIn(o), cout |-> CurrencyOut(o), amount |-> o.amount,
     feeLeg |-> leg, feeIn |-> feeIn]

\* SwapPlanner.plan, the hops: slot is the command that carries the bound.
PathOf(o, route) ==
    LET OneHop(acc, k) ==
            LET hop == route[k]
                direct == k = Len(route) /\ FeeLeg(o) = "input" /\ hop.cout = CurrencyOut(o)
                to == IF direct THEN "wallet" ELSE "router"
                next == acc.cmds \o Rewrap(acc.held, hop.cin, EntireBalance) \o <<HopCommand(hop, to, EntireBalance)>>
            IN  [cmds |-> next, held |-> hop.cout, slot |-> IF direct THEN Len(next) ELSE acc.slot]
    IN  FoldLeft(OneHop, [cmds |-> Pull(o) \o FeeFirst(o), held |-> CurrencyIn(o), slot |-> 0],
                 [k \in 1..Len(route) |-> k])

\* SwapPlanner.plan, the end: an output fee is paid from what the path left.
UniversalPlan(o, route, run) ==
    LET cout == CurrencyOut(o)
        wrapped == IF cout = "weth" /\ run.held = "eth" THEN <<WrapEth(EntireBalance)>> ELSE <<>>
        held == IF wrapped = <<>> THEN run.held ELSE "weth"
        exit == IF cout = "eth" /\ held = "weth" THEN UnwrapWeth("wallet", 0) ELSE SweepTo(held, 0)
        full == IF FeeLeg(o) = "output" THEN run.cmds \o wrapped \o <<PayPortion(held), exit>> ELSE run.cmds
    IN  [to |-> "universal", cmds |-> full, legs |-> <<>>, gross |-> 0,
         slot |-> IF FeeLeg(o) = "output" THEN Len(full) ELSE run.slot,
         shape |-> Shape(o, route, FeeLeg(o), IF FeeLeg(o) = "output" THEN held ELSE CurrencyIn(o))]

\* SwapPlanner.plan
SinglePlan(o, route) ==
    IF ViaOwnRouter(route)
    THEN [to |-> "own", cmds |-> <<>>, slot |-> 0, legs |-> <<>>, gross |-> 0,
          shape |-> Shape(o, route, "output", CurrencyOut(o))]
    ELSE UniversalPlan(o, route, PathOf(o, route))

NetInput(o) == o.amount - (IF FeeLeg(o) = "input" THEN Bps(o.amount, FeeBps) ELSE 0)

\* A leg's share of the input after the fee; the last leg takes the rest.
ShareOf(o, legs, i) ==
    LET part(j) == (legs[j].amount * NetInput(o)) \div o.amount
    IN  IF i = Len(legs) THEN NetInput(o) - SumSeq([j \in 1..(i - 1) |-> part(j)]) ELSE part(i)

\* SwapPlanner.plan_split
SplitPlan(o, legs) ==
    LET base == SinglePlan(o, legs[1].route)
        cout == CurrencyOut(o)
        output == IF cout = "eth" THEN "weth" ELSE cout
        LegCmds(i) ==
            LET route == legs[i].route
                share == ShareOf(o, legs, i)
                held(k) == IF k = 1 THEN CurrencyIn(o) ELSE route[k - 1].cout
                last == route[Len(route)].cout
            IN  FlattenSeq([k \in 1..Len(route) |->
                    Rewrap(held(k), route[k].cin, IF k = 1 THEN share ELSE EntireBalance)
                    \o <<HopCommand(route[k], "router", IF k = 1 THEN share ELSE EntireBalance)>>])
                \o (IF last = "eth" /\ cout = "eth" THEN <<WrapEth(EntireBalance)>>
                    ELSE IF cout = "eth" /\ last = "weth" THEN <<UnwrapWeth("router", 0)>>
                    ELSE Rewrap(last, cout, EntireBalance))
        cmds == Pull(o) \o FeeFirst(o)
                \o FlattenSeq([i \in 1..Len(legs) |-> LegCmds(i)])
                \o (IF FeeLeg(o) = "output" THEN <<PayPortion(output)>> ELSE <<>>)
                \o <<IF cout = "eth" THEN UnwrapWeth("wallet", 0) ELSE SweepTo(output, 0)>>
    IN  [base EXCEPT !.cmds = cmds, !.slot = Len(cmds), !.legs = legs,
                     !.shape.feeIn = IF FeeLeg(o) = "output" THEN output ELSE @]

\* Mutant: a split's commands keep the bounds they were planned with.
Mutant_Finalize(plan, min) ==
    IF plan.to = "own" THEN [plan EXCEPT !.gross = min]
    ELSE IF Len(plan.legs) > 1 THEN plan
    ELSE [plan EXCEPT !.cmds[plan.slot].min = min]

\* SwapPlanner.finalize: the bound, shared out over the legs of a split.
Finalize(plan, min) ==
    LET n == Len(plan.legs)
        total == SumSeq([i \in 1..n |-> plan.legs[i].out])
        part(i) == (min * plan.legs[i].out) \div total
        bound(i) == IF i = n THEN min - SumSeq([j \in 1..(n - 1) |-> part(j)]) ELSE part(i)
        swaps == SelectSeq([k \in 1..Len(plan.cmds) |-> k], LAMBDA k : plan.cmds[k].op = "swap")
        lastSwap(i) == swaps[SumSeq([j \in 1..i |-> Len(plan.legs[j].route)])]
        slotted == [plan.cmds EXCEPT ![plan.slot].min = min]
        keep == 10000 - FeeBps
    IN  IF plan.to = "own" THEN [plan EXCEPT !.gross = (min * 10000 + keep - 1) \div keep]
        ELSE IF n < 2 \/ total = 0 THEN [plan EXCEPT !.cmds = slotted]
        ELSE [plan EXCEPT !.cmds = [k \in 1..Len(slotted) |->
                 IF \E i \in 1..n : lastSwap(i) = k
                 THEN [slotted[k] EXCEPT !.min = bound(CHOOSE i \in 1..n : lastSwap(i) = k)]
                 ELSE slotted[k]]]

----------------------------------------------------------------------------
(* External: the pools and the routers *)

\* What a pool reports, and what leaves it: a hook keeps its fees, and a token
\* that taxes transfers delivers less than the log says.
PoolOut(p, amount) == (amount * levels[p.id] * PoolDepth) \div (PoolDepth + amount)
Delivered(p, out) == out - Bps(out, p.hook) - Bps(out, p.tax) - p.skim

NoFlow == [c \in Currencies |-> 0]
Funded(o) ==
    [ok |-> TRUE, logs |-> <<>>, fee |-> NoFlow,
     router |-> [NoFlow EXCEPT !["eth"] = IF CurrencyIn(o) = "eth" THEN o.amount ELSE 0],
     wallet |-> [NoFlow EXCEPT !["eth"] = IF CurrencyIn(o) = "eth" THEN -o.amount ELSE 0]]

Reverted(s) == [s EXCEPT !.ok = FALSE]

RunCommand(s, cmd) ==
    LET amount == IF cmd.amount = EntireBalance THEN s.router[cmd.c] ELSE cmd.amount
        out == PoolOut(cmd.hop.pool, amount)
        got == Delivered(cmd.hop.pool, out)
        Give(t, c, n) == IF cmd.to = "wallet" THEN [t EXCEPT !.wallet[c] = @ + n] ELSE [t EXCEPT !.router[c] = @ + n]
        taken == [s EXCEPT !.router[cmd.c] = @ - amount]
    IN  CASE ~s.ok -> s
          [] cmd.op = "pull" -> [s EXCEPT !.wallet[cmd.c] = @ - amount, !.router[cmd.c] = @ + amount]
          [] cmd.op = "fee" -> [s EXCEPT !.router[cmd.c] = @ - Bps(amount, FeeBps), !.fee[cmd.c] = @ + Bps(amount, FeeBps)]
          [] s.router[cmd.c] < amount \/ (cmd.op # "swap" /\ amount < cmd.min) -> Reverted(s)
          [] cmd.op = "wrap" -> Give(taken, "weth", amount)
          [] cmd.op = "unwrap" -> Give(taken, "eth", amount)
          [] cmd.op = "sweep" -> Give(taken, cmd.c, amount)
          [] OTHER -> IF out = 0 \/ got < cmd.min THEN Reverted(s)
                      ELSE Give([taken EXCEPT !.logs = Append(@, [pool |-> cmd.hop.pool.id, in |-> amount, out |-> out])],
                                cmd.hop.cout, got)

\* A factory's own router: the path, then one call that pays the fee and the rest.
OwnCommands(o, route) ==
    Pull(o) \o Rewrap(CurrencyIn(o), route[1].cin, EntireBalance)
    \o [k \in 1..Len(route) |-> HopCommand(route[k], "router", EntireBalance)]

OwnPayout(o, plan, swapped) ==
    LET last == plan.shape.route[Len(plan.shape.route)].cout
        gross == swapped.router[last]
    IN  IF ~swapped.ok \/ gross < plan.gross THEN Reverted(swapped)
        ELSE [swapped EXCEPT !.router[last] = 0,
                             !.fee[CurrencyOut(o)] = @ + Bps(gross, FeeBps),
                             !.wallet[CurrencyOut(o)] = @ + gross - Bps(gross, FeeBps)]

RunOwnRouter(o, plan) ==
    OwnPayout(o, plan, FoldLeft(RunCommand, Funded(o), OwnCommands(o, plan.shape.route)))

Simulate(o, plan) ==
    IF plan.to = "own" THEN RunOwnRouter(o, plan) ELSE FoldLeft(RunCommand, Funded(o), plan.cmds)

----------------------------------------------------------------------------
(* Ledger, swap_amounts, split_amounts: reconcile the plan with the logs *)

Unreconciled == [ok |-> FALSE, net |-> 0, outs |-> <<>>]

\* The n-th log of a pool answers its n-th hop in the order of the program.
HopLog(run, flat, n) ==
    LET id == flat[n].pool.id
        nth == Cardinality({m \in 1..n : flat[m].pool.id = id})
        logs == SelectSeq(run.logs, LAMBDA l : l.pool = id)
    IN  IF nth > Len(logs) THEN NULL ELSE logs[nth]

LegOut(run, flat, first, route, share) ==
    LET OneHop(acc, k) ==
            LET log == HopLog(run, flat, first + k)
                p == route[k].pool
            IN  IF ~acc.ok \/ log = NULL THEN [acc EXCEPT !.ok = FALSE]
                ELSE IF log.in # acc.carry THEN [acc EXCEPT !.ok = FALSE]
                ELSE [acc EXCEPT !.carry = log.out - Bps(log.out, p.hook) - Bps(log.out, p.tax)]
    IN  FoldLeft(OneHop, [ok |-> TRUE, carry |-> share], [k \in 1..Len(route) |-> k])

LegOuts(legs, run) ==
    LET flat == FlattenSeq([i \in 1..Len(legs) |-> legs[i].route])
        before(i) == SumSeq([j \in 1..(i - 1) |-> Len(legs[j].route)])
    IN  [i \in 1..Len(legs) |-> LegOut(run, flat, before(i), legs[i].route, legs[i].share)]

ReconcileLegs(shape, legs, run, traced, leg) ==
    LET feeInput == IF shape.feeLeg = "input" THEN Bps(shape.amount, FeeBps) ELSE 0
        gross == SumSeq([i \in 1..Len(legs) |-> leg[i].carry])
        fee == IF shape.feeLeg = "input" THEN feeInput ELSE Bps(gross, FeeBps)
        net == IF shape.feeLeg = "input" THEN gross ELSE gross - fee
        seen(c) == c # "eth" \/ traced
        agrees == /\ SumSeq([i \in 1..Len(legs) |-> legs[i].share]) = shape.amount - feeInput
                  /\ \A i \in 1..Len(legs) : leg[i].ok
                  /\ seen(shape.feeIn) => run.fee[shape.feeIn] = fee
                  /\ seen(shape.cout) => run.wallet[shape.cout] = net
                  /\ shape.cin # "eth" => run.wallet[shape.cin] = -shape.amount
    IN  IF run.ok /\ agrees
        THEN [ok |-> TRUE, net |-> net, outs |-> [i \in 1..Len(legs) |-> leg[i].carry]]
        ELSE Unreconciled

Reconcile(shape, legs, run, traced) == ReconcileLegs(shape, legs, run, traced, LegOuts(legs, run))

OneLeg(o, plan) ==
    <<[route |-> plan.shape.route,
       share |-> o.amount - (IF plan.shape.feeLeg = "input" THEN Bps(o.amount, FeeBps) ELSE 0)]>>
Shares(o, legs) == [i \in 1..Len(legs) |-> [route |-> legs[i].route, share |-> ShareOf(o, legs, i)]]

Measured(o, plan, legs) == Reconcile(plan.shape, legs, Simulate(o, plan), TRUE)
MeasuredAlone(o, plan) == Measured(o, plan, OneLeg(o, plan))
SimulateSwap(o, route) == MeasuredAlone(o, SinglePlan(o, route))
SimulateAll(o, routes) == [i \in 1..Len(routes) |-> SimulateSwap(o, routes[i])]

\* _simulate_split: an allocation whose simulation disagrees is not offered.
MinOut(net, slippage) == (net * (10000 - slippage)) \div 10000

\* An output fee is spread over the legs before the bounds are.
NetOuts(o, legs, amounts) ==
    LET gross == SumSeq(amounts.outs)
        part(i) == (amounts.outs[i] * amounts.net) \div gross
        n == Len(legs)
    IN  [i \in 1..n |-> [legs[i] EXCEPT !.out =
            IF FeeLeg(o) = "input" \/ gross = 0 THEN amounts.outs[i]
            ELSE IF i = n THEN amounts.net - SumSeq([j \in 1..(n - 1) |-> part(j)]) ELSE part(i)]]

SameNet(again, amounts) == again.ok /\ again.net = amounts.net
SimulatedAgain(o, legs, plan, amounts) ==
    [ok |-> SameNet(Measured(o, Finalize(plan, MinOut(amounts.net, o.slippage)), Shares(o, legs)), amounts),
     net |-> amounts.net, plan |-> plan]

WithOuts(o, legs, plan, amounts) ==
    IF amounts.ok THEN SimulatedAgain(o, legs, [plan EXCEPT !.legs = NetOuts(o, legs, amounts)], amounts)
    ELSE [ok |-> FALSE]

SplitWith(o, legs, plan) == WithOuts(o, legs, plan, Measured(o, plan, Shares(o, legs)))
SimulateSplit(o, legs) ==
    IF Len(legs) < 2 THEN [ok |-> FALSE] ELSE SplitWith(o, legs, SplitPlan(o, legs))

----------------------------------------------------------------------------
(* _quote_swap *)

\* allocate_split: one step of the input at a time to the steepest curve.
AllocateSplit(routes, curve, amount) ==
    LET n == Len(routes)
        Used(counts) == Cardinality({i \in 1..n : counts[i] > 0})
        Open(counts, i) == /\ counts[i] < SplitSteps
                           /\ curve[i][counts[i]] # NULL /\ curve[i][counts[i] + 1] # NULL
                           /\ counts[i] > 0 \/ Used(counts) < MaxLegs
        Gain(counts, i) == curve[i][counts[i] + 1] - curve[i][counts[i]]
        Better(counts, i, j) == \/ Gain(counts, i) > Gain(counts, j)
                                \/ Gain(counts, i) = Gain(counts, j) /\ i >= j
        Step(counts, s) ==
            LET open == IF counts = NULL THEN {} ELSE {i \in 1..n : Open(counts, i)}
            IN  IF open = {} THEN NULL
                ELSE [counts EXCEPT ![CHOOSE i \in open : \A j \in open : Better(counts, i, j)] = @ + 1]
        counts == FoldLeft(Step, [i \in 1..n |-> 0], [s \in 1..SplitSteps |-> s])
        used == SelectSeq([i \in 1..n |-> i], LAMBDA i : counts[i] > 0)
        part(i) == (amount * counts[used[i]]) \div SplitSteps
    IN  IF counts = NULL THEN <<>>
        ELSE [i \in 1..Len(used) |->
                [route |-> routes[used[i]], out |-> curve[used[i]][counts[used[i]]],
                 amount |-> IF i = Len(used) THEN amount - SumSeq([j \in 1..(i - 1) |-> part(j)]) ELSE part(i)]]

\* The measured amount of a part of the order on a route.
NetOf(amounts) == IF amounts.ok THEN amounts.net ELSE NULL
Sample(o, route, k) == NetOf(SimulateSwap([o EXCEPT !.amount = (@ * k) \div SplitSteps], route))

SplitOver(o, top) ==
    LET curve == [i \in 1..Len(top) |->
                    [k \in 0..SplitSteps |-> IF k = 0 THEN 0 ELSE Sample(o, top[i], k)]]
    IN  SimulateSplit(o, AllocateSplit(top, curve, o.amount))

\* The three best routes of the universal router, sampled at every step.
SplitChoice(o, routes, full) ==
    LET ur == SelectSeq([i \in 1..Len(routes) |-> i], LAMBDA i : full[i].ok /\ ~ViaOwnRouter(routes[i]))
        rank(i) == Cardinality({j \in 1..Len(ur) : \/ full[ur[j]].net > full[ur[i]].net
                                                   \/ full[ur[j]].net = full[ur[i]].net /\ j < i})
        m == IF Len(ur) < MaxLegs THEN Len(ur) ELSE MaxLegs
        top == [k \in 1..m |-> routes[ur[CHOOSE i \in 1..Len(ur) : rank(i) = k - 1]]]
    IN  IF Len(ur) < 2 \/ o.amount < SplitSteps THEN [ok |-> FALSE] ELSE SplitOver(o, top)

ImpactBps(amount, net, smallAmount, smallNet) ==
    LET ratio == (10000 * net * smallAmount) \div (amount * smallNet)
    IN  IF ratio > 10000 THEN 0 ELSE 10000 - ratio

\* _require_sellable: half of what is bought must sell again on some route.
Sellable(o, bought) ==
    LET back == [o EXCEPT !.side = "sell", !.amount = IF bought < 2 THEN 1 ELSE bought \div 2]
        routes == RouteCandidates(back)
    IN  \E i \in 1..Len(routes) : SimulateSwap(back, routes[i]).ok

\* The first best route, unless a split gains more than it costs; NULL refuses.
Offered(o, pick) ==
    IF pick = NULL THEN NULL
    ELSE IF o.side = "buy" /\ ~Sellable(o, pick.net) THEN NULL
    ELSE [plan |-> pick.plan, net |-> pick.net, min |-> MinOut(pick.net, o.slippage)]

\* A single route must keep its price at size, and near the deepest pool's.
KeepsPrice(o, net, first, one, deepest) ==
    /\ one.ok /\ one.net # 0 => ImpactBps(o.amount, net, 1, one.net) <= MaxImpact
    /\ ~first /\ deepest.ok /\ one.ok =>
           one.net * 10000 >= deepest.net * (10000 - OffMarketBps)

SplitGains(o, split, net) ==
    /\ split.ok
    /\ split.net - net > IF {"eth", "weth"} \cap {CurrencyIn(o), CurrencyOut(o)} # {}
                         THEN SplitGas ELSE net \div 1000

SingleOrSplit(o, routes, net, best, split, small) ==
    IF SplitGains(o, split, net) THEN [plan |-> split.plan, net |-> split.net]
    ELSE IF KeepsPrice(o, net, best = 1, small[best], small[1])
         THEN [plan |-> SinglePlan(o, routes[best]), net |-> net] ELSE NULL

QuoteAmong(o, routes, full) ==
    LET good == {i \in 1..Len(routes) : full[i].ok}
        best == CHOOSE i \in good :
                   \A j \in good : \/ full[j].net < full[i].net
                                   \/ full[j].net = full[i].net /\ i <= j
    IN  IF good = {} THEN NULL
        ELSE Offered(o, SingleOrSplit(o, routes, full[best].net, best, SplitChoice(o, routes, full),
                                      SimulateAll([o EXCEPT !.amount = 1], routes)))

QuoteOver(o, routes) == QuoteAmong(o, routes, SimulateAll(o, routes))
QuoteSwap(o) == QuoteOver(o, RouteCandidates(o))

----------------------------------------------------------------------------
(* _swap_shape, _router_swap_shape: the mined call read back *)

DecodedLegs(o, plan) ==
    LET hops == SelectSeq(plan.cmds, LAMBDA c : c.op = "swap")
        starts == SelectSeq([k \in 1..Len(hops) |-> k], LAMBDA k : hops[k].amount # EntireBalance)
        until(i) == IF i = Len(starts) THEN Len(hops) ELSE starts[i + 1] - 1
        Route(a, b) == [k \in 1..(b - a + 1) |-> hops[a + k - 1].hop]
    IN  IF Len(starts) > 1
        THEN [i \in 1..Len(starts) |-> [route |-> Route(starts[i], until(i)), share |-> hops[starts[i]].amount]]
        ELSE <<[route |-> Route(1, Len(hops)), share |-> NULL]>>

DecodedShape(o, plan) ==
    LET pulls == SelectSeq(plan.cmds, LAMBDA c : c.op = "pull")
        fees == SelectSeq([k \in 1..Len(plan.cmds) |-> k], LAMBDA k : plan.cmds[k].op = "fee")
        exits == SelectSeq(plan.cmds, LAMBDA c : c.op \in {"sweep", "unwrap"} /\ c.to = "wallet")
        legs == DecodedLegs(o, plan)
        route == legs[1].route
        value == IF CurrencyIn(o) = "eth" THEN o.amount ELSE 0
        k == fees[Len(fees)]
    IN  [route |-> route,
         cin |-> IF pulls = <<>> THEN "eth" ELSE pulls[Len(pulls)].c,
         amount |-> IF pulls = <<>> THEN value ELSE pulls[Len(pulls)].amount,
         cout |-> IF exits = <<>> THEN route[Len(route)].cout
                  ELSE IF exits[Len(exits)].op = "unwrap" THEN "eth" ELSE exits[Len(exits)].c,
         feeLeg |-> IF \E j \in 1..(k - 1) : plan.cmds[j].op = "swap" THEN "output" ELSE "input",
         feeIn |-> plan.cmds[k].c]

ReceiptShape(o, plan) == IF plan.to = "own" THEN plan.shape ELSE DecodedShape(o, plan)
ReceiptLegs(o, plan) ==
    IF plan.to = "own" \/ Len(DecodedLegs(o, plan)) = 1 THEN OneLeg(o, plan) ELSE DecodedLegs(o, plan)

\* receipt: native moves are not in a mined call's logs.
ReceiptAmounts(o, plan, run) == Reconcile(ReceiptShape(o, plan), ReceiptLegs(o, plan), run, FALSE)

----------------------------------------------------------------------------
BookPools == {book[i] : i \in DOMAIN book} \cup {BridgePools[i] : i \in DOMAIN BridgePools}

SwapInit ==
    /\ order \in Orders /\ book \in Books
    /\ levels \in [{p.id : p \in BookPools} -> Levels]
    /\ deal = NULL /\ signed = NULL /\ filled = NULL /\ moves = 0

TakeQuote ==
    /\ deal = NULL
    /\ \E quote \in {QuoteSwap(order)} : quote # NULL /\ deal' = quote
    /\ UNCHANGED <<order, book, levels, signed, filled, moves>>

MovePrice(p, level) ==
    /\ deal # NULL /\ filled = NULL /\ moves < MaxMoves /\ levels[p] # level
    /\ levels' = [levels EXCEPT ![p] = level] /\ moves' = moves + 1
    /\ UNCHANGED <<order, book, deal, signed, filled>>

\* prepare: the bounds go in, and the final call must still simulate.
PrepareSwap ==
    LET final == Finalize(deal.plan, deal.min)
    IN  /\ deal # NULL /\ signed = NULL
        /\ Simulate(order, final).ok
        /\ signed' = final
        /\ UNCHANGED <<order, book, levels, deal, filled, moves>>

MineSwap ==
    /\ signed # NULL /\ filled = NULL
    /\ filled' = Simulate(order, signed)
    /\ UNCHANGED <<order, book, levels, deal, signed, moves>>

SwapNext ==
    \/ TakeQuote \/ PrepareSwap \/ MineSwap
    \/ \E p \in {q.id : q \in BookPools}, l \in Levels : MovePrice(p, l)

SwapSpec == SwapInit /\ [][SwapNext]_swapVars

----------------------------------------------------------------------------
\* However prices moved since the quote, a mined swap that does not revert gave
\* the wallet at least the quoted bound, took exactly the quoted input, and left
\* nothing in the router, whatever mixture of ETH, WETH, hops and legs it used.
SwapHonoured ==
    filled # NULL => \/ ~filled.ok
                     \/ /\ filled.wallet[CurrencyOut(order)] >= deal.min
                        /\ filled.wallet[CurrencyIn(order)] = -order.amount
                        /\ filled.router = NoFlow

\* A signed call read back from the chain has the shape that was planned, and its
\* logs reconcile at the prices it met: our own fills are always accounted for.
ReceiptReadsBack ==
    /\ signed # NULL => ReceiptShape(order, signed) = signed.shape
    /\ filled # NULL => (filled.ok => ReceiptAmounts(order, signed, filled).ok)

\* A trade is what was quoted, on the chain and in the journal: a mined swap
\* keeps the quote's terms and its receipt is read back as what was planned.
TradeKept == SwapHonoured /\ ReceiptReadsBack
=============================================================================
