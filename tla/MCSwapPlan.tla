------------------------------ MODULE MCSwapPlan ------------------------------
(***************************************************************************)
(* Pools of a token on the three venues: two router pools, one with a hook *)
(* fee, a pool of a factory the router does not serve, one whose token     *)
(* keeps a part of what it moves, and two bridges between the quotes.      *)
(***************************************************************************)
EXTENDS SwapPlan

PoolRec(id, venue, factory, c0, c1, hook, skim) ==
    [id |-> id, venue |-> venue, factory |-> factory, c0 |-> c0, c1 |-> c1, hook |-> hook,
     tax |-> 0, skim |-> skim]

Weth3 == PoolRec("a", "v3", "ur", "tok", "weth", 0, 0)
Eth4 == PoolRec("b", "v4", "pm", "eth", "tok", 1000, 0)
Usdg2 == PoolRec("c", "v2", "ur2", "tok", "usdg", 0, 0)
GigaPool == PoolRec("g", "v3", "giga", "tok", "weth", 0, 0)
Taxed == PoolRec("t", "v3", "ur", "tok", "weth", 0, 1)
Bridge3 == PoolRec("x", "v3", "ur", "usdg", "weth", 0, 0)
Bridge4 == PoolRec("y", "v4", "pm", "eth", "usdg", 0, 0)

MCBooks ==
    {<<Weth3, Eth4>>, <<Eth4, Weth3>>, <<Usdg2, Weth3>>, <<GigaPool, Eth4>>, <<Taxed, Usdg2>>}
MCBridges == <<Bridge3, Bridge4>>
MCOrders ==
    [side : {"buy", "sell"}, quote : {"eth", "weth", "usdg"}, amount : {12}, slippage : {1000}]
=============================================================================
