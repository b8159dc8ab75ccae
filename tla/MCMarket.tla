------------------------------- MODULE MCMarket -------------------------------
(***************************************************************************)
(* Market data side by side: the lanes that keep the canonical tables, and *)
(* what is derived from them (prices and their repair, price samples and   *)
(* their pruning, the bucket sums, the owners' rollup).  A behaviour       *)
(* exercises the part chosen at the start while the others stay where they *)
(* began.                                                                  *)
(***************************************************************************)
EXTENDS MCChainIndex, MCPriceRepair, PriceBuckets, SamplePruning, OwnerRollup

CONSTANT MaxUpsets      \* bound: reorganisations and restarts together

VARIABLE part

\* Three blocks of one day: two of them in one hour.
MCMinutes == <<0, 1, 2>>

\* Two positions of an owner; the first one's episode is closed at some time.
Image(proto, tier, open, gross) ==
    [owner |-> "A", proto |-> proto, pos |-> "p", tier |-> tier, open |-> open, gross |-> gross]
MCVersions ==
    [e \in Episodes |->
        IF e = "e1" THEN {Image("v3", 0, TRUE, NULL), Image("v3", 1, FALSE, 3)}
        ELSE {Image("v4", 2, TRUE, 5)}]

Parts == {"index", "prices", "buckets", "samples", "rollup"}

MarketInit ==
    /\ part \in Parts
    /\ IndexInit /\ PriceInit /\ BucketInit /\ RollupInit /\ SampleInit
    /\ part # "samples" => topBlock = 0

MarketNext ==
    /\ UNCHANGED part
    /\ \/ /\ part = "index" /\ IndexNext
          /\ forks' + crashes' <= MaxUpsets
          /\ UNCHANGED <<priceVars, bucketVars, sampleVars, rollupVars>>
       \/ /\ part = "prices" /\ PriceNext
          /\ UNCHANGED <<vars, bucketVars, sampleVars, rollupVars>>
       \/ /\ part = "buckets" /\ BucketNext
          /\ UNCHANGED <<vars, priceVars, sampleVars, rollupVars>>
       \/ /\ part = "samples" /\ SampleNext
          /\ UNCHANGED <<vars, priceVars, bucketVars, rollupVars>>
       \/ /\ part = "rollup" /\ RollupNext
          /\ UNCHANGED <<vars, priceVars, bucketVars, sampleVars>>

MarketSpec ==
    MarketInit /\ [][MarketNext]_<<part, vars, priceVars, bucketVars, sampleVars, rollupVars>>
=============================================================================
