---------------------------- MODULE SamplePruning ----------------------------
(***************************************************************************)
(* Retention of raw price samples (lp_market_store.py) against the lookups *)
(* that use them (lp_market_service.py).  A sweep deletes samples in small *)
(* batches between other writers' transactions: live ingestion, the        *)
(* history lane's older blocks, late logs, and rollbacks of recent blocks. *)
(*                                                                         *)
(* A pool has at most one event per block here and every event carries a   *)
(* sample; the two sample tables are swept alike and are one.              *)
(***************************************************************************)
EXTENDS Integers, FiniteSets, FiniteSetsExt, Absent

CONSTANTS
    PricePools,      \* a set of naturals: pools in index order
    MaxSampleHeight,       \* blocks
    BatchRows        \* rows one batch may delete

ASSUME SampleAssumption ==
    /\ PricePools \subseteq Nat \ {0} /\ MaxSampleHeight \in Nat /\ BatchRows \in Nat \ {0}

VARIABLES
    sampled,      \* sampled[p]: the blocks of the pool's events
    kept,         \* kept[p]: those whose sample row is stored
    floorBlock,   \* the lowest block the index covers so far
    topBlock,     \* the highest one
    sweep,        \* 'sample_prune_cursor': NULL or [pool, block]
    pruneBlock,   \* 'sample_prune_block'
    aged          \* blocks up to here are older than the retention

sampleVars == <<sampled, kept, floorBlock, topBlock, sweep, pruneBlock, aged>>

Newest(S) == IF S = {} THEN NULL ELSE Max(S)
Oldest(S) == IF S = {} THEN NULL ELSE Min(S)

----------------------------------------------------------------------------
(* Ingestion: PriceProjection stores an event's sample with the event *)

StoreEvent(p, b) ==
    /\ sampled' = [sampled EXCEPT ![p] = @ \cup {b}]
    /\ kept' = [kept EXCEPT ![p] = @ \cup {b}]

LiveBlock(P) ==
    /\ topBlock < MaxSampleHeight
    /\ topBlock' = topBlock + 1
    /\ sampled' = [p \in PricePools |-> IF p \in P THEN sampled[p] \cup {topBlock + 1} ELSE sampled[p]]
    /\ kept' = [p \in PricePools |-> IF p \in P THEN kept[p] \cup {topBlock + 1} ELSE kept[p]]
    /\ UNCHANGED <<floorBlock, sweep, pruneBlock, aged>>

HistoryBlock(p) ==
    /\ floorBlock > 1
    /\ floorBlock' = floorBlock - 1
    /\ StoreEvent(p, floorBlock - 1)
    /\ UNCHANGED <<topBlock, sweep, pruneBlock, aged>>

\* A log whose pool was unknown is decoded after its block was stored.
LateLog(p, b) ==
    /\ b \in floorBlock..topBlock /\ b \notin sampled[p]
    /\ StoreEvent(p, b)
    /\ UNCHANGED <<floorBlock, topBlock, sweep, pruneBlock, aged>>

\* A reorganisation is far shallower than the retention, so it reaches neither
\* aged blocks nor the boundary of a past sweep.
RollbackSamples(a) ==
    /\ a < topBlock /\ a >= aged /\ a >= floorBlock /\ a >= pruneBlock
    /\ topBlock' = a
    /\ sampled' = [p \in PricePools |-> {b \in sampled[p] : b <= a}]
    /\ kept' = [p \in PricePools |-> {b \in kept[p] : b <= a}]
    /\ UNCHANGED <<floorBlock, sweep, pruneBlock, aged>>

TimePasses ==
    /\ aged < topBlock
    /\ aged' = aged + 1
    /\ UNCHANGED <<sampled, kept, floorBlock, topBlock, sweep, pruneBlock>>

----------------------------------------------------------------------------
(* _prune_sample_rows *)

\* A sweep starts at the first event inside the retention, and the lookups'
\* boundary is raised in the transaction of its first delete.
Boundary == Oldest({b \in UNION {sampled[p] : p \in PricePools} : b > aged})
SweepStart == [pool |-> 0, block |-> Boundary]
\* Mutant: the lookups go on reading the table below the boundary.
Mutant_RaisedBlock(block) == pruneBlock

RaisedBlock(block) == Max({block, pruneBlock})

\* Between a pool's first sample and its newest one below the sweep's block.
Doomed(p, block) ==
    LET first == Oldest(kept[p])
        newest == Newest({b \in kept[p] : b < block})
    IN  IF newest = NULL \/ newest <= first THEN {}
        ELSE {b \in kept[p] : b > first /\ b < newest}

\* One batch visits one pool and stays on it while it may hold more.
PruneSamples ==
    /\ sweep # NULL \/ Boundary # NULL
    /\ LET cur == IF sweep = NULL THEN SweepStart ELSE sweep
           rest == {p \in PricePools : p > cur.pool /\ kept[p] # {}}
           p == Min(rest)
           doomed == Doomed(p, cur.block)
           batch == {b \in doomed : Cardinality({x \in doomed : x < b}) < BatchRows}
       IN  /\ pruneBlock' = IF sweep = NULL THEN RaisedBlock(cur.block) ELSE pruneBlock
           /\ IF rest = {} THEN sweep' = NULL /\ UNCHANGED kept
              ELSE /\ kept' = [kept EXCEPT ![p] = @ \ batch]
                   /\ sweep' = IF Cardinality(batch) >= BatchRows THEN cur
                               ELSE [cur EXCEPT !.pool = p]
    /\ UNCHANGED <<sampled, floorBlock, topBlock, aged>>

----------------------------------------------------------------------------
(* The lookups *)

\* sample_at_or_before: from the table at or above the boundary, else from the
\* canonical events.
SampleAtOrBefore(p, n) ==
    Newest({b \in (IF n >= pruneBlock THEN kept[p] ELSE sampled[p]) : b <= n})

\* _sample_after
SampleAfter(p, n) ==
    Oldest({b \in (IF n >= pruneBlock THEN kept[p] ELSE sampled[p]) : b > n})

----------------------------------------------------------------------------
SampleInit ==
    /\ sampled = [p \in PricePools |-> {}] /\ kept = sampled
    /\ \E start \in 0..(MaxSampleHeight - 1) : floorBlock = start + 1 /\ topBlock = start /\ aged = start
    /\ sweep = NULL /\ pruneBlock = 0

SampleNext ==
    \/ \E P \in SUBSET PricePools : LiveBlock(P)
    \/ \E p \in PricePools : HistoryBlock(p) \/ \E b \in 1..MaxSampleHeight : LateLog(p, b)
    \/ \E a \in 0..MaxSampleHeight : RollbackSamples(a)
    \/ TimePasses
    \/ PruneSamples

SampleSpec == SampleInit /\ [][SampleNext]_sampleVars

----------------------------------------------------------------------------
\* Pruning is invisible: at every point of every sweep, whatever was ingested
\* or rolled back meanwhile, the price a pool had at a block, the next change
\* after it and its all-time first price are those of the canonical events.
SamplesExact ==
    \A p \in PricePools :
        /\ \A n \in 0..MaxSampleHeight :
             /\ SampleAtOrBefore(p, n) = Newest({b \in sampled[p] : b <= n})
             /\ SampleAfter(p, n) = Oldest({b \in sampled[p] : b > n})
        /\ Oldest(kept[p]) = Oldest(sampled[p])
=============================================================================
