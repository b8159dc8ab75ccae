---------------------------- MODULE Queues_proofs ----------------------------
(***************************************************************************)
(* Safety of the store's two work queues, the enrichment queue and the     *)
(* deferred accounting, for every value of their constants.                *)
(***************************************************************************)
EXTENDS EnrichmentQueue, AccountingQueue, FiniteSetTheorems, WellFoundedInduction, TLAPS

-----------------------------------------------------------------------------
\* Receipt evidence.

EvidenceInv ==
    /\ at \in [Tx -> Nat] /\ forks \in Nat
    /\ held \in [Tx -> Nat]
    /\ EvidenceOfStoredBlock

LEMMA EvidenceInit == Init => EvidenceInv
BY DEF Init, EvidenceInv, EvidenceOfStoredBlock, NoReceipt

\* A rollback takes the evidence with the transactions it removes.
LEMMA RollbackKeepsEvidence ==
    ASSUME EvidenceInv, NEW p, Rollback(p), UNCHANGED <<at, forks>>
    PROVE  EvidenceInv'
BY DEF EvidenceInv, EvidenceOfStoredBlock, Rollback, KeptReceipts, NoReceipt

LEMMA RecoveryKeepsEvidence ==
    ASSUME EvidenceInv, NEW t, RecoverAnchor(t), UNCHANGED <<at, forks>>
    PROVE  EvidenceInv'
<1>1. CASE UNCHANGED <<storeVars, memoryVars>>
    BY <1>1 DEF EvidenceInv, EvidenceOfStoredBlock, storeVars
<1>2. ASSUME NEW p, Rollback(p) PROVE EvidenceInv'
    BY <1>2, RollbackKeepsEvidence
<1> QED
    BY <1>1, <1>2 DEF RecoverAnchor

LEMMA EvidenceNext == EvidenceInv /\ [Next]_vars => EvidenceInv'
<1> SUFFICES ASSUME EvidenceInv, [Next]_vars PROVE EvidenceInv'
    OBVIOUS
<1> DEFINE same == UNCHANGED <<at, forks, held, receipts>>
<1>1. ASSUME same PROVE EvidenceInv'
    BY <1>1 DEF EvidenceInv, EvidenceOfStoredBlock
<1>2. ASSUME NEW p \in Tx, Reorg(p) PROVE EvidenceInv'
    BY <1>2 DEF Reorg, storeVars, EvidenceInv, EvidenceOfStoredBlock
<1>3. ASSUME NEW p \in Pool, LearnPool(p) PROVE same
    BY <1>3 DEF LearnPool
<1>4. CASE LaneStep
  <2>1. ASSUME NEW t \in Tx, IngestInterval(t) PROVE EvidenceInv'
      BY <2>1 DEF IngestInterval, EvidenceInv, EvidenceOfStoredBlock
  <2>2. CASE RecoverLive
      BY <2>2, RollbackKeepsEvidence DEF RecoverLive
  <2>3. ASSUME ClearCaches PROVE same
      BY <2>3 DEF ClearCaches, storeVars
  <2> QED
      BY <1>1, <1>4, <2>1, <2>2, <2>3 DEF LaneStep
<1>5. CASE EnrichStep
  <2>1. ASSUME NEW chosen \in SUBSET Tx, FillJobs(chosen) PROVE same
      BY <2>1 DEF FillJobs, storeVars
  <2>2. ASSUME NEW t \in Tx, FetchEvidence(t) PROVE same
      BY <2>2 DEF FetchEvidence, storeVars
  <2>3. ASSUME NEW done \in SUBSET Tx, CollectOrphan(done) PROVE EvidenceInv'
      BY <2>3, RecoveryKeepsEvidence DEF CollectOrphan
  <2>4. ASSUME NEW done, Collect(done) PROVE same
      BY <2>4 DEF Collect, storeVars
  <2>5. ASSUME MarkFailures PROVE same
      BY <2>5 DEF MarkFailures
  <2>6. CASE Publish
    <3>1. \A t \in Publishable : held[t] = job[t].block
        BY <2>6 DEF Publish, Orphaned
    <3> QED
        BY <2>6, <3>1 DEF Publish, EvidenceInv, EvidenceOfStoredBlock
  <2>7. CASE PublishConflict
      BY <2>7, RecoveryKeepsEvidence DEF PublishConflict, Publishable
  <2>8. Completed \subseteq Tx
      BY DEF Completed
  <2> QED
      BY <1>1, <1>5, <2>1, <2>2, <2>3, <2>4, <2>5, <2>6, <2>7, <2>8 DEF EnrichStep
<1>6. ASSUME NEW t \in Tx, FetchFails(t) PROVE same
    BY <1>6 DEF FetchFails, storeVars
<1>7. ASSUME PublishFails PROVE same
    BY <1>7 DEF PublishFails
<1>8. ASSUME ReplayStep PROVE same
  <2>1. ASSUME NEW chosen, ReplaySelect(chosen) PROVE same
      BY <2>1 DEF ReplaySelect, storeVars
  <2>2. ASSUME NEW t \in Tx, ReplayOrphaned(t) \/ ReplayMismatch(t) \/ ReplayPrepare(t) PROVE same
      BY <2>2 DEF ReplayOrphaned, ReplayMismatch, ReplayPrepare, storeVars
  <2>3. ASSUME ReplayResolve PROVE same
      BY <2>3 DEF ReplayResolve, storeVars
  <2>4. ASSUME NEW t \in Tx, ReplayDecode(t) \/ ReplayPublish(t) \/ ReplayFails(t) \/ ReplaySkip(t)
        PROVE same
      BY <2>4 DEF ReplayDecode, ReplayPublish, ReplayFails, ReplaySkip, storeVars
  <2> QED
      BY <1>8, <2>1, <2>2, <2>3, <2>4 DEF ReplayStep
<1>9. ASSUME SeedStep PROVE same
    BY <1>9 DEF SeedStep, SeedRead, SeedQueue, storeVars
<1>10. ASSUME Restart PROVE same
    BY <1>10 DEF Restart, storeVars
<1>11. ASSUME UNCHANGED vars PROVE same
    BY <1>11 DEF vars, storeVars
<1> QED
    BY <1>1, <1>2, <1>3, <1>4, <1>5, <1>6, <1>7, <1>8, <1>9, <1>10, <1>11 DEF Next

\* store.enrich raises CanonicalConflict when the stored header is another one, and
\* store.rollback deletes the transaction rows with the headers: for any transactions,
\* pools, waves, reorganisations and restarts, receipt evidence is only ever kept of
\* the block its transaction is stored in.
THEOREM EvidenceStaysCanonical == Spec => []EvidenceOfStoredBlock
<1>1. EvidenceInv => EvidenceOfStoredBlock
    BY DEF EvidenceInv
<1> QED
    BY <1>1, EvidenceInit, EvidenceNext, PTL DEF Spec

-----------------------------------------------------------------------------
\* Logs and receipts, up to the first reorganisation.

Errors == {"none", "error", "terminal"}
Logs == SUBSET (Pool \X {1})
StillRow == [block : {0, 1}, gen : Nat, attempts : Nat, error : Errors, deferred : Logs]
StillJob == [block : {0, 1}, gen : Nat, attempts : Nat, covers : SUBSET Pool, pools : SUBSET Pool,
             out : {"none", "running", "ok", "decode", "transient"}]
StillReplay == [stage : {"none", "read", "prepared", "resolved", "decoded"}, block : {0, 1},
                gen : Nat, logs : Logs, error : Errors, net : SUBSET Pool,
                done : SUBSET Pool, found : SUBSET Pool, pools : SUBSET Pool, failed : BOOLEAN]

StoreTypes ==
    /\ at \in [Tx -> {1}] /\ held \in [Tx -> {0, 1}]
    /\ events \in [Tx -> SUBSET Pool] /\ replayed \in [Tx -> SUBSET Pool]
    /\ DOMAIN receipts = Tx
    /\ known \subseteq Pool /\ cached \subseteq Pool /\ checked \subseteq Pool /\ clearing = FALSE
    /\ row \in [Tx -> StillRow]

WorkTypes ==
    /\ job \in [Tx -> StillJob] /\ replay \in [Tx -> StillReplay]
    /\ coord \in [pc : {"idle", "mark", "publish"}, failed : SUBSET Tx, ready : SUBSET Tx]
    /\ verdict \in [transient : SUBSET Pool, anchor : BOOLEAN, keys : SUBSET Pool]
    /\ seed \in [Tx -> [stage : {"new", "read", "done"}, logs : Logs]]

\* The liquidity events of a transaction, which enrichment owes evidence of.
Liquidity(t) == events[t] \cap Lp[t]

\* A row is a stored transaction's; events and replays are of verified pools.
RowKept(t) ==
    /\ Pending(t) => held[t] = 1
    /\ ~Pending(t) => row[t] = NoRow
    /\ held[t] = 0 => events[t] = {}
    /\ events[t] \subseteq V4 \cup known /\ replayed[t] \subseteq known

\* A job's row is no older than the job, or is gone with nothing owed; evidence
\* that may still be published covers what is stored.
JobKept(t) ==
    job[t] # NoJob =>
        /\ job[t].block = 1 /\ held[t] = 1 /\ job[t].out # "none"
        /\ job[t].covers \subseteq V4 \cup job[t].pools
        /\ Pending(t) => job[t].gen <= row[t].gen
        /\ ~Pending(t) => Liquidity(t) = {}
        /\ job[t].out = "ok" /\ Current(t) =>
              Liquidity(t) \subseteq job[t].covers /\ replayed[t] \cap Lp[t] \subseteq job[t].pools

CoordKept ==
    /\ coord.pc = "publish" => coord.failed = {}
    /\ \A t \in coord.failed : job[t].out \in {"decode", "transient"}
    /\ \A t \in coord.ready : job[t].out = "ok"

\* The logs of a confirmed pool are found: what the network confirms is verified
\* in memory, or travels with the pass.
ReplayKept(t) ==
    LET ids == PoolsOf(replay[t].logs) IN
    /\ replay[t].stage = "none" => replay[t] = NoReplay
    /\ replay[t].stage # "none" => replay[t].block = 1 /\ held[t] = 1
    /\ replay[t].stage = "prepared" => ids \cap Real \subseteq Verified \cup replay[t].net
    /\ replay[t].stage = "resolved" =>
          \/ verdict.anchor /\ replay[t].net # {}
          \/ (ids \cap Real) \ (V4 \cup verdict.transient) \subseteq Verified
    /\ replay[t].stage = "decoded" =>
          /\ replay[t].done \cap Real \subseteq replay[t].found
          /\ replay[t].found \subseteq V4 \cup replay[t].pools

SeedKept(t) == seed[t].stage = "read" => held[t] = 1 /\ Liquidity(t) # {}

RowsKept == \A t \in Tx : RowKept(t)
JobsKept == \A t \in Tx : JobKept(t)
ReplaysKept == \A t \in Tx : ReplayKept(t)
SeedsKept == \A t \in Tx : SeedKept(t)
CheckedKept == checked \cap Real \subseteq Verified

Still ==
    /\ StoreTypes /\ WorkTypes
    /\ CheckedKept /\ CoordKept /\ RowsKept /\ JobsKept /\ ReplaysKept /\ SeedsKept
    /\ EvidenceOwed /\ NoLogLost

StillInv == forks \in Nat /\ (forks = 0 => Still)

LEMMA StillInit == Init => Still
<1> SUFFICES ASSUME Init PROVE Still
    OBVIOUS
<1>1. StoreTypes /\ WorkTypes
    BY QueueAssumption DEF Init, StoreTypes, WorkTypes, StillRow, StillJob, StillReplay, Errors, Logs,
       NoRow, NoJob, Idle, NoReplay, NoVerdict, Unseeded
<1>2. RowsKept /\ JobsKept /\ CoordKept /\ CheckedKept
    BY DEF Init, RowsKept, RowKept, JobsKept, JobKept, CoordKept, CheckedKept, Pending, NoRow, NoJob, Idle
<1>3. ReplaysKept /\ SeedsKept
    BY DEF Init, ReplaysKept, ReplayKept, SeedsKept, SeedKept, NoReplay, Unseeded
<1>4. EvidenceOwed /\ NoLogLost
    BY DEF Init, EvidenceOwed, NoLogLost
<1> QED
    BY <1>1, <1>2, <1>3, <1>4 DEF Still

LEMMA PoolsOfAt ==
    ASSUME NEW ids, NEW b
    PROVE  PoolsOf(ids \X {b}) = ids
<1>1. ASSUME NEW i \in ids PROVE i \in PoolsOf(ids \X {b})
  <2>1. <<i, b>> \in ids \X {b} /\ <<i, b>>[1] = i
      OBVIOUS
  <2> QED
      BY <2>1 DEF PoolsOf
<1>2. \A l \in ids \X {b} : l[1] \in ids
    OBVIOUS
<1> QED
    BY <1>1, <1>2 DEF PoolsOf

LEMMA StillTx ==
    ASSUME Still, NEW t \in Tx
    PROVE  /\ at[t] = 1 /\ held[t] \in {0, 1} /\ events[t] \subseteq Pool /\ replayed[t] \subseteq Pool
           /\ row[t] \in StillRow /\ job[t] \in StillJob /\ replay[t] \in StillReplay
           /\ RowKept(t) /\ JobKept(t) /\ ReplayKept(t) /\ SeedKept(t)
BY DEF Still, StoreTypes, WorkTypes, RowsKept, JobsKept, ReplaysKept, SeedsKept

-----------------------------------------------------------------------------
\* What leaves a part of it alone.

\* The tables of a transaction are as they were, and no pool is forgotten.
SameTables(t) ==
    /\ held'[t] = held[t] /\ events'[t] = events[t] /\ replayed'[t] = replayed[t]
    /\ receipts'[t] = receipts[t] /\ row'[t] = row[t]
    /\ known \subseteq known'

LEMMA SameTablesKeeps ==
    ASSUME Still, NEW t \in Tx, SameTables(t)
    PROVE  /\ RowKept(t)'
           /\ job'[t] = job[t] => JobKept(t)'
           /\ seed'[t] = seed[t] => SeedKept(t)'
           /\ cached \subseteq cached' /\ verdict' = verdict /\ replay'[t] = replay[t] => ReplayKept(t)'
<1> USE StillTx DEF SameTables
<1>1. RowKept(t)'
    BY DEF RowKept, Pending
<1>2. ASSUME job'[t] = job[t] PROVE JobKept(t)'
    BY <1>2 DEF JobKept, Pending, Liquidity, Current
<1>3. ASSUME seed'[t] = seed[t] PROVE SeedKept(t)'
    BY <1>3 DEF SeedKept, Liquidity
<1>4. ASSUME cached \subseteq cached', verdict' = verdict, replay'[t] = replay[t] PROVE ReplayKept(t)'
    BY <1>4 DEF ReplayKept, Verified
<1> QED
    BY <1>1, <1>2, <1>3, <1>4

LEMMA SameTablesSettled ==
    ASSUME Still, \A t \in Tx : SameTables(t)
    PROVE  EvidenceOwed' /\ NoLogLost'
<1>1. EvidenceOwed'
    BY DEF Still, EvidenceOwed, SameTables, Pending
<1>2. NoLogLost'
    BY DEF Still, NoLogLost, SameTables
<1> QED
    BY <1>1, <1>2

\* The tables and the caches stand, or more pools are known.
Steady ==
    /\ UNCHANGED <<at, held, events, receipts, replayed, row, memoryVars>>
    /\ known \subseteq known' /\ known' \subseteq Pool

LEMMA SteadyKeeps ==
    ASSUME Still, Steady
    PROVE  /\ StoreTypes' /\ CheckedKept' /\ RowsKept' /\ EvidenceOwed' /\ NoLogLost'
           /\ job' = job => JobsKept'
           /\ seed' = seed => SeedsKept'
           /\ replay' = replay /\ verdict' = verdict => ReplaysKept'
           /\ job' = job /\ coord' = coord => CoordKept'
<1>1. \A t \in Tx : SameTables(t)
    BY DEF Steady, SameTables
<1>2. StoreTypes'
    BY DEF Still, Steady, StoreTypes, memoryVars
<1>3. CheckedKept'
    BY DEF Still, Steady, CheckedKept, Verified, memoryVars
<1>4. RowsKept'
    BY <1>1, SameTablesKeeps DEF RowsKept
<1>5. EvidenceOwed' /\ NoLogLost'
    BY <1>1, SameTablesSettled
<1>6. ASSUME job' = job PROVE JobsKept'
    BY <1>1, <1>6, SameTablesKeeps DEF JobsKept
<1>7. ASSUME seed' = seed PROVE SeedsKept'
    BY <1>1, <1>7, SameTablesKeeps DEF SeedsKept
<1>8. ASSUME replay' = replay, verdict' = verdict PROVE ReplaysKept'
  <2>1. cached' = cached
      BY DEF Steady, memoryVars
  <2> QED
      BY <1>1, <1>8, <2>1, SameTablesKeeps DEF ReplaysKept
<1>9. ASSUME job' = job, coord' = coord PROVE CoordKept'
    BY <1>9 DEF Still, CoordKept
<1> QED
    BY <1>2, <1>3, <1>4, <1>5, <1>6, <1>7, <1>8, <1>9

LEMMA LearnPoolStill == Still /\ (\E p \in Pool : LearnPool(p)) => Still'
<1> SUFFICES ASSUME Still, NEW p \in Pool, LearnPool(p) PROVE Still'
    OBVIOUS
<1>1. Steady /\ UNCHANGED <<enrichVars, replayVars, seed>>
    BY DEF LearnPool, Steady, Still, StoreTypes
<1>2. WorkTypes'
    BY <1>1 DEF Still, WorkTypes, enrichVars, replayVars
<1> QED
    BY <1>1, <1>2, SteadyKeeps DEF Still, enrichVars, replayVars

-----------------------------------------------------------------------------
\* Receipts.

LEMMA FillJobsStill == Still /\ (\E chosen \in SUBSET Tx : FillJobs(chosen)) => Still'
<1> SUFFICES ASSUME Still, NEW chosen \in SUBSET Tx, FillJobs(chosen) PROVE Still'
    OBVIOUS
<1>1. Steady /\ UNCHANGED <<coord, replayVars, seed>>
    BY DEF FillJobs, storeVars, Steady, Still, StoreTypes
<1>2. \A t \in Tx : \/ job'[t] = job[t]
                    \/ /\ t \in chosen /\ Pending(t) /\ job[t] = NoJob
                       /\ job'[t] = [block |-> row[t].block, gen |-> row[t].gen, attempts |-> row[t].attempts,
                                     out |-> "running", covers |-> {}, pools |-> {}]
    BY DEF FillJobs, Eligible, NoJob
<1>3. WorkTypes'
  <2>1. job' \in [Tx -> StillJob]
    <3>1. job' = [t \in Tx |-> job'[t]]
        BY DEF FillJobs
    <3>2. ASSUME NEW t \in Tx PROVE job'[t] \in StillJob
      <4>1. row[t].block \in {0, 1} /\ row[t].gen \in Nat /\ row[t].attempts \in Nat
          BY StillTx DEF StillRow
      <4>2. [block |-> row[t].block, gen |-> row[t].gen, attempts |-> row[t].attempts,
             out |-> "running", covers |-> {}, pools |-> {}] \in StillJob
          BY <4>1 DEF StillJob
      <4>3. job[t] \in StillJob
          BY StillTx
      <4> QED
          BY <1>2, <4>2, <4>3
    <3> QED
        BY <3>1, <3>2
  <2> QED
      BY <1>1, <2>1 DEF Still, WorkTypes, replayVars
<1>4. JobsKept'
  <2> SUFFICES ASSUME NEW t \in Tx PROVE JobKept(t)'
      BY DEF JobsKept
  <2>1. CASE job'[t] = job[t]
    <3>1. SameTables(t)
        BY <1>1 DEF Steady, SameTables
    <3> QED
        BY <2>1, <3>1, SameTablesKeeps
  <2>2. CASE job'[t] # job[t]
    <3>1. /\ Pending(t) /\ row[t].block \in {0, 1} /\ row[t].gen \in Nat
          /\ job'[t] = [block |-> row[t].block, gen |-> row[t].gen, attempts |-> row[t].attempts,
                        out |-> "running", covers |-> {}, pools |-> {}]
        BY <1>2, <2>2, StillTx DEF StillRow
    <3>2. row' = row /\ held' = held /\ held[t] = 1 /\ row[t].block = 1
        BY <1>1, <3>1, StillTx DEF Steady, RowKept, Pending
    <3> QED
        BY <3>1, <3>2 DEF JobKept, Pending
  <2> QED
      BY <2>1, <2>2
<1>5. CoordKept'
  <2>1. \A t \in coord.failed \cup coord.ready : job'[t] = job[t]
    <3>1. \A t \in coord.failed \cup coord.ready : t \in Tx /\ job[t] # NoJob
        BY DEF Still, CoordKept, WorkTypes, NoJob
    <3> QED
        BY <1>2, <3>1
  <2> QED
      BY <1>1, <2>1 DEF Still, CoordKept
<1> QED
    BY <1>1, <1>3, <1>4, <1>5, SteadyKeeps DEF Still, replayVars

\* A running job takes an answer.
LEMMA AnswerStill ==
    ASSUME Still, NEW t \in Tx, job[t].out = "running",
           job' \in [Tx -> StillJob], \A s \in Tx : s # t => job'[s] = job[s],
           UNCHANGED <<at, storeVars, memoryVars, coord, replayVars, seed>>,
           JobKept(t)'
    PROVE  Still'
<1>1. Steady
    BY DEF storeVars, Steady, Still, StoreTypes
<1>2. WorkTypes'
    BY DEF Still, WorkTypes, replayVars
<1>3. JobsKept'
  <2> SUFFICES ASSUME NEW s \in Tx, s # t PROVE JobKept(s)'
      BY DEF JobsKept
  <2>1. SameTables(s) /\ job'[s] = job[s]
      BY <1>1 DEF Steady, SameTables
  <2> QED
      BY <2>1, SameTablesKeeps
<1>4. CoordKept'
  <2>1. t \notin coord.failed \cup coord.ready
      BY DEF Still, CoordKept
  <2>2. \A s \in coord.failed \cup coord.ready : job'[s] = job[s]
      BY <2>1 DEF Still, WorkTypes
  <2> QED
      BY <2>2 DEF Still, CoordKept
<1> QED
    BY <1>1, <1>2, <1>3, <1>4, SteadyKeeps DEF Still, replayVars

LEMMA FetchEvidenceStill == Still /\ (\E t \in Tx : FetchEvidence(t)) => Still'
<1> SUFFICES ASSUME Still, NEW t \in Tx, FetchEvidence(t) PROVE Still'
    OBVIOUS
<1> DEFINE covers == Touch[t] \cap (Verified \cup V4)
           found == Evidence(t)
           new == [block |-> job[t].block, gen |-> job[t].gen, attempts |-> job[t].attempts,
                   out |-> found.out, covers |-> found.covers, pools |-> found.covers \cap Verified]
<1>1. job[t].out = "running" /\ job[t] \in StillJob /\ job[t] # NoJob /\ job[t].block = 1
    BY StillTx DEF FetchEvidence, JobKept, NoJob
<1>2. Evidence(t) \in {[out |-> "decode", covers |-> {}], [out |-> "ok", covers |-> covers]}
    BY <1>1, StillTx DEF Evidence
<1>3. covers \subseteq Pool
    BY QueueAssumption
<1>4. new \in StillJob
  <2>1. job[t].block \in {0, 1} /\ job[t].gen \in Nat /\ job[t].attempts \in Nat
      BY <1>1 DEF StillJob
  <2>2. found.out \in {"ok", "decode"} /\ found.covers \subseteq Pool
      BY <1>2, <1>3
  <2> HIDE DEF found
  <2> QED
      BY <2>1, <2>2 DEF StillJob
<1>5. job' \in [Tx -> StillJob] /\ job'[t] = new /\ \A s \in Tx : s # t => job'[s] = job[s]
  <2>1. job'[t] = new
    <3> HIDE DEF found
    <3>1. job' = [job EXCEPT ![t].out = found.out, ![t].covers = found.covers,
                             ![t].pools = found.covers \cap Verified]
        BY DEF FetchEvidence, found
    <3> QED
        BY <1>1, <3>1 DEF Still, WorkTypes, StillJob
  <2>2. job' = [s \in Tx |-> job'[s]] /\ \A s \in Tx : s # t => job'[s] = job[s]
      BY DEF FetchEvidence, Still, WorkTypes
  <2> QED
      BY <1>4, <2>1, <2>2, StillTx
<1>6. JobKept(t)'
  <2> HIDE DEF covers
  <2>1. /\ row' = row /\ held' = held /\ events' = events /\ replayed' = replayed
        /\ job'[t] = new
      BY <1>5 DEF FetchEvidence, storeVars
  <2>2. /\ new.block = 1 /\ new.gen = job[t].gen /\ new.out # "none"
        /\ new.covers \subseteq V4 \cup new.pools
        /\ new.out = "ok" => new.covers = covers /\ new.pools = covers \cap Verified
    <3>1. /\ new.block = 1 /\ new.gen = job[t].gen /\ new.out = found.out
          /\ new.covers = found.covers /\ new.pools = found.covers \cap Verified
      <4> HIDE DEF found
      <4> QED
          BY <1>1
    <3>2. covers \subseteq Verified \cup V4
        BY DEF covers
    <3> QED
        BY <1>2, <3>1, <3>2
  <2>3. Liquidity(t) \subseteq covers /\ replayed[t] \cap Lp[t] \subseteq covers \cap Verified
      BY StillTx, QueueAssumption DEF RowKept, Liquidity, covers, Verified
  <2> HIDE DEF new
  <2> QED
      BY <1>1, <2>1, <2>2, <2>3, StillTx DEF JobKept, Pending, Liquidity, Current
<1> QED
    BY <1>1, <1>5, <1>6, AnswerStill DEF FetchEvidence

LEMMA FetchFailsStill == Still /\ (\E t \in Tx : FetchFails(t)) => Still'
<1> SUFFICES ASSUME Still, NEW t \in Tx, FetchFails(t) PROVE Still'
    OBVIOUS
<1>1. job[t].out = "running" /\ job[t] \in StillJob /\ job[t] # NoJob
    BY StillTx DEF FetchFails, NoJob
<1>2. job' = [job EXCEPT ![t].out = "transient"]
    BY DEF FetchFails
<1>3. job' \in [Tx -> StillJob] /\ \A s \in Tx : s # t => job'[s] = job[s]
    BY <1>1, <1>2 DEF Still, WorkTypes, StillJob
<1>4. /\ job'[t].block = job[t].block /\ job'[t].gen = job[t].gen /\ job'[t].out = "transient"
      /\ job'[t].covers = job[t].covers /\ job'[t].pools = job[t].pools
    BY <1>1, <1>2 DEF Still, WorkTypes, StillJob
<1>5. row' = row /\ held' = held /\ events' = events /\ replayed' = replayed
    BY DEF FetchFails, storeVars
<1>6. JobKept(t)'
    BY <1>1, <1>4, <1>5, StillTx DEF JobKept, Pending, Liquidity
<1> QED
    BY <1>1, <1>3, <1>6, AnswerStill DEF FetchFails

\* Nothing is on another block.
LEMMA NothingOrphaned ==
    ASSUME Still
    PROVE  /\ Stale = {}
           /\ \A t \in Tx : job[t].out # "orphan"
           /\ \A t \in coord.ready : t \in Tx /\ job[t] # NoJob /\ ~Orphaned(t)
<1>1. Stale = {}
    BY StillTx DEF Stale
<1>2. \A t \in Tx : job[t].out # "orphan"
    BY StillTx DEF StillJob
<1>3. ASSUME NEW t \in coord.ready PROVE t \in Tx /\ job[t] # NoJob /\ ~Orphaned(t)
  <2>1. t \in Tx /\ job[t].out = "ok"
      BY DEF Still, CoordKept, WorkTypes
  <2>2. job[t] # NoJob
      BY <2>1 DEF NoJob
  <2> QED
      BY <2>1, <2>2, StillTx DEF JobKept, Orphaned
<1> QED
    BY <1>1, <1>2, <1>3

LEMMA CollectStill == Still /\ (\E done \in (SUBSET Completed) \ {{}} : Collect(done)) => Still'
<1> SUFFICES ASSUME Still, NEW done \in SUBSET Completed, Collect(done) PROVE Still'
    OBVIOUS
<1>1. Steady /\ UNCHANGED <<job, replayVars, seed>>
    BY DEF Collect, storeVars, Steady, Still, StoreTypes
<1>2. \A t \in done : t \in Tx /\ job[t].out \in {"ok", "decode", "transient"}
    BY DEF Completed, Collect
<1>3. /\ coord'.pc = "mark"
      /\ coord'.failed = {t \in done : job[t].out # "ok"}
      /\ coord'.ready = {t \in done : job[t].out = "ok"}
    BY DEF Collect
<1>4. WorkTypes'
  <2>1. coord' \in [pc : {"idle", "mark", "publish"}, failed : SUBSET Tx, ready : SUBSET Tx]
      BY <1>2 DEF Collect
  <2> QED
      BY <1>1, <2>1 DEF Still, WorkTypes, replayVars
<1>5. CoordKept'
    BY <1>1, <1>2, <1>3 DEF CoordKept
<1> QED
    BY <1>1, <1>4, <1>5, SteadyKeeps DEF Still, replayVars

\* What an edit of a row leaves alone.
LEMMA FailedRow ==
    ASSUME NEW r \in StillRow, NEW err \in Errors
    PROVE  [r EXCEPT !.attempts = r.attempts + 1, !.gen = r.gen + 1, !.error = err]
             \in [block : {r.block}, gen : {r.gen + 1}, attempts : Nat, error : Errors, deferred : {r.deferred}]
<1>1. r.attempts + 1 \in Nat
    BY DEF StillRow
<1> QED
    BY <1>1 DEF StillRow

\* A batch of jobs leaves, and some of its rows count a failure.
LEMMA FailuresStill ==
    ASSUME Still, NEW batch \in SUBSET Tx, NEW failing \in SUBSET batch,
           job' = Dropped(batch),
           \A t \in failing : Current(t) /\ job[t] # NoJob,
           NEW limit, row' = [t \in Tx |-> IF t \in failing THEN Failed(t, limit[t]) ELSE row[t]],
           UNCHANGED <<at, held, events, receipts, replayed, known, memoryVars, replayVars, seed>>,
           coord' \in [pc : {"idle", "mark", "publish"}, failed : SUBSET Tx, ready : SUBSET Tx],
           coord'.failed = {}, coord'.ready \subseteq coord.ready \ batch
    PROVE  Still'
<1>1. \A t \in Tx : t \notin failing => row'[t] = row[t]
    OBVIOUS
<1>2. ASSUME NEW t \in failing
      PROVE  /\ row[t].block = 1 /\ row'[t] \in StillRow
             /\ row'[t].block = 1 /\ row'[t].deferred = row[t].deferred
  <2>1. t \in Tx /\ row[t] \in StillRow
      BY StillTx
  <2>2. row[t].block = 1
      BY <2>1, StillTx DEF Current, JobKept
  <2> DEFINE err == IF job[t].attempts + 1 >= limit[t] THEN "terminal" ELSE "error"
  <2>3. row'[t] = [row[t] EXCEPT !.attempts = row[t].attempts + 1, !.gen = row[t].gen + 1, !.error = err]
      BY <2>1 DEF Failed
  <2>4. err \in Errors
      BY DEF Errors
  <2> HIDE DEF err
  <2>5. row'[t] \in [block : {row[t].block}, gen : {row[t].gen + 1}, attempts : Nat, error : Errors,
                    deferred : {row[t].deferred}]
      BY <2>1, <2>3, <2>4, FailedRow
  <2>6. row[t].block \in {0, 1} /\ row[t].gen + 1 \in Nat /\ row[t].deferred \in Logs
      BY <2>1 DEF StillRow
  <2> QED
      BY <2>2, <2>5, <2>6 DEF StillRow
<1>3. StoreTypes'
  <2>1. \A t \in Tx : row'[t] \in StillRow
      BY <1>1, <1>2, StillTx
  <2>2. row' = [t \in Tx |-> row'[t]]
      OBVIOUS
  <2>3. row' \in [Tx -> StillRow]
      BY <2>1, <2>2
  <2> QED
      BY <2>3 DEF Still, StoreTypes, memoryVars
<1>4. \A t \in Tx : \/ t \in batch /\ job'[t] = NoJob
                    \/ t \notin batch /\ job'[t] = job[t]
    BY DEF Dropped
<1>5. WorkTypes'
  <2>1. NoJob \in StillJob
      BY DEF NoJob, StillJob
  <2>2. job' = [t \in Tx |-> job'[t]]
      BY DEF Dropped
  <2>3. \A t \in Tx : job'[t] \in StillJob
      BY <1>4, <2>1, StillTx
  <2>4. job' \in [Tx -> StillJob]
      BY <2>2, <2>3
  <2> QED
      BY <2>4 DEF Still, WorkTypes, replayVars
<1>6. CheckedKept'
    BY DEF Still, CheckedKept, Verified, memoryVars
<1>7. CoordKept'
  <2>1. \A t \in coord'.ready : job[t].out = "ok" /\ t \notin batch /\ t \in Tx
      BY DEF Still, CoordKept, WorkTypes
  <2> QED
      BY <1>4, <2>1 DEF CoordKept
<1>8. \A t \in Tx : t \notin failing => SameTables(t)
    BY <1>1 DEF SameTables
<1>9. RowsKept'
  <2>1. ASSUME NEW t \in failing PROVE RowKept(t)'
      BY <1>2, StillTx DEF RowKept, Pending
  <2> QED
      BY <1>8, <2>1, SameTablesKeeps DEF RowsKept
<1>10. JobsKept'
  <2>1. ASSUME NEW t \in Tx, job'[t] = NoJob PROVE JobKept(t)'
      BY <2>1 DEF JobKept
  <2> QED
      BY <1>4, <1>8, <2>1, SameTablesKeeps DEF JobsKept
<1>11. ReplaysKept' /\ SeedsKept'
    BY DEF Still, ReplaysKept, ReplayKept, Verified, SeedsKept, SeedKept, Liquidity, replayVars, memoryVars
<1>12. EvidenceOwed'
  <2>1. \A t \in Tx : Pending(t)' <=> Pending(t)
      BY <1>1, <1>2 DEF Pending
  <2> QED
      BY <2>1 DEF Still, EvidenceOwed
<1>13. NoLogLost'
  <2>1. \A t \in Tx : row'[t].deferred = row[t].deferred
      BY <1>1, <1>2
  <2> QED
      BY <2>1 DEF Still, NoLogLost
<1> QED
    BY <1>3, <1>5, <1>6, <1>7, <1>9, <1>10, <1>11, <1>12, <1>13 DEF Still

LEMMA MarkFailuresStill == Still /\ MarkFailures => Still'
<1> SUFFICES ASSUME Still, MarkFailures PROVE Still'
    OBVIOUS
<1> DEFINE batch == coord.failed
           failing == {t \in coord.failed : Current(t)}
           limit == [t \in Tx |-> Limit(t)]
<1>1. batch \in SUBSET Tx /\ failing \in SUBSET batch
    BY DEF Still, WorkTypes
<1>2. \A t \in batch : job[t].out \in {"decode", "transient"} /\ job[t] # NoJob
    BY DEF Still, CoordKept, NoJob
<1>3. row' = [t \in Tx |-> IF t \in failing THEN Failed(t, limit[t]) ELSE row[t]]
  <2>1. \A t \in Tx : t \in coord.failed /\ Current(t) <=> t \in failing
      OBVIOUS
  <2> HIDE DEF failing
  <2> QED
      BY <2>1 DEF MarkFailures
<1>4. coord' \in [pc : {"idle", "mark", "publish"}, failed : SUBSET Tx, ready : SUBSET Tx]
      /\ coord'.failed = {} /\ coord'.ready = coord.ready
    BY DEF MarkFailures, Idle, Still, WorkTypes
<1>5. coord.ready \cap batch = {}
    BY DEF Still, CoordKept
<1>6. \A t \in failing : Current(t) /\ job[t] # NoJob
    BY <1>2
<1>7. job' = Dropped(batch) /\ coord'.ready \subseteq coord.ready \ batch
    BY <1>4, <1>5 DEF MarkFailures
<1>8. UNCHANGED <<at, held, events, receipts, replayed, known, memoryVars, replayVars, seed>>
    BY DEF MarkFailures
<1> HIDE DEF failing, limit, batch
<1> QED
    BY <1>1, <1>3, <1>4, <1>6, <1>7, <1>8, FailuresStill

LEMMA PublishFailsStill == Still /\ PublishFails => Still'
<1> SUFFICES ASSUME Still, PublishFails PROVE Still'
    OBVIOUS
<1>1. coord.ready \in SUBSET Tx /\ Publishable \in SUBSET coord.ready
    BY DEF Still, WorkTypes, Publishable
<1>2. \A t \in Publishable : Current(t) /\ job[t] # NoJob
    BY NothingOrphaned DEF Publishable
<1>3. coord' \in [pc : {"idle", "mark", "publish"}, failed : SUBSET Tx, ready : SUBSET Tx]
      /\ coord'.failed = {} /\ coord'.ready = {}
    BY DEF PublishFails, Idle
<1> DEFINE limit == [t \in Tx |-> MaxAttempts]
<1>4. row' = [t \in Tx |-> IF t \in Publishable THEN Failed(t, limit[t]) ELSE row[t]]
    BY DEF PublishFails
<1>5. job' = Dropped(coord.ready) /\ coord'.ready \subseteq coord.ready \ coord.ready
    BY <1>3 DEF PublishFails
<1>6. UNCHANGED <<at, held, events, receipts, replayed, known, memoryVars, replayVars, seed>>
    BY DEF PublishFails
<1> HIDE DEF limit
<1> QED
    BY <1>1, <1>2, <1>3, <1>4, <1>5, <1>6, FailuresStill

LEMMA PublishStill == Still /\ Publish => Still'
<1> SUFFICES ASSUME Still, Publish PROVE Still'
    OBVIOUS
<1>1. ASSUME NEW t \in Publishable
      PROVE  /\ t \in coord.ready /\ t \in Tx /\ held[t] = 1 /\ row[t].deferred = {}
             /\ job[t].block = 1 /\ job[t].covers \subseteq V4 \cup job[t].pools
             /\ job[t].covers \subseteq Pool /\ job[t].pools \subseteq Pool
             /\ Liquidity(t) \subseteq job[t].covers /\ replayed[t] \cap Lp[t] \subseteq job[t].pools
  <2>1. t \in coord.ready /\ Current(t) /\ job[t].out = "ok"
      BY DEF Publishable, Still, CoordKept
  <2>2. t \in Tx /\ job[t] # NoJob
      BY <2>1, NothingOrphaned
  <2>3. job[t] \in StillJob
      BY <2>2, StillTx
  <2> QED
      BY <2>1, <2>2, <2>3, StillTx DEF JobKept, Current, StillJob
<1>2. \A t \in Tx : t \notin Publishable => SameTables(t)
    BY DEF Publish, SameTables
<1>3. ASSUME NEW t \in Publishable
      PROVE  /\ row'[t] = NoRow /\ events'[t] = events[t] \cup job[t].covers
             /\ receipts'[t] = [block |-> job[t].block, covers |-> job[t].covers, pools |-> job[t].pools]
             /\ job'[t] = NoJob /\ job[t].pools \subseteq known' /\ held' = held /\ replayed' = replayed
    BY <1>1 DEF Publish, Dropped
<1>4. known \subseteq known' /\ known' \subseteq Pool
  <2>1. \A t \in Publishable : job[t].pools \subseteq Pool
      BY <1>1
  <2> QED
      BY <2>1 DEF Publish, Still, StoreTypes
<1>5. StoreTypes'
  <2>1. \A t \in Tx : row'[t] \in StillRow
    <3>1. NoRow \in StillRow
        BY DEF NoRow, StillRow, Errors, Logs
    <3> QED
        BY <1>2, <1>3, <3>1, StillTx DEF SameTables
  <2>2. \A t \in Tx : events'[t] \subseteq Pool
      BY <1>1, <1>2, <1>3, StillTx DEF SameTables
  <2>3. /\ row' = [t \in Tx |-> row'[t]] /\ events' = [t \in Tx |-> events'[t]]
        /\ DOMAIN receipts' = Tx
      BY DEF Publish
  <2>4. row' \in [Tx -> StillRow] /\ events' \in [Tx -> SUBSET Pool]
      BY <2>1, <2>2, <2>3
  <2>5. UNCHANGED <<at, held, replayed, cached, checked, clearing>>
      BY DEF Publish, memoryVars
  <2> QED
      BY <1>4, <2>3, <2>4, <2>5 DEF Still, StoreTypes
<1>6. \A t \in Tx : \/ t \in coord.ready /\ job'[t] = NoJob
                    \/ t \notin coord.ready /\ job'[t] = job[t]
    BY DEF Publish, Dropped
<1>7. WorkTypes'
  <2>1. NoJob \in StillJob
      BY DEF NoJob, StillJob
  <2>2. job' = [t \in Tx |-> job'[t]]
      BY DEF Publish, Dropped
  <2>3. \A t \in Tx : job'[t] \in StillJob
      BY <1>6, <2>1, StillTx
  <2>4. job' \in [Tx -> StillJob]
      BY <2>2, <2>3
  <2>5. coord' \in [pc : {"idle", "mark", "publish"}, failed : SUBSET Tx, ready : SUBSET Tx]
      BY DEF Publish, Idle
  <2> QED
      BY <2>4, <2>5 DEF Publish, Still, WorkTypes, replayVars
<1>8. CheckedKept' /\ CoordKept'
  <2>1. CheckedKept'
      BY <1>4 DEF Publish, Still, CheckedKept, Verified, memoryVars
  <2> QED
      BY <2>1 DEF Publish, CoordKept, Idle
<1>9. ASSUME NEW t \in Tx
      PROVE  /\ RowKept(t)' /\ JobKept(t)' /\ ReplayKept(t)' /\ SeedKept(t)'
  <2>1. replay'[t] = replay[t] /\ seed'[t] = seed[t] /\ cached' = cached /\ verdict' = verdict
      BY DEF Publish, replayVars, memoryVars
  <2>2. CASE t \notin Publishable
    <3>1. RowKept(t)' /\ ReplayKept(t)' /\ SeedKept(t)'
        BY <1>2, <2>1, <2>2, SameTablesKeeps
    <3>2. job'[t] = NoJob => JobKept(t)'
        BY DEF JobKept
    <3>3. job'[t] = job[t] => JobKept(t)'
        BY <1>2, <2>2, SameTablesKeeps
    <3> QED
        BY <1>6, <3>1, <3>2, <3>3
  <2>3. CASE t \in Publishable
    <3>1. RowKept(t)'
      <4>1. row'[t] = NoRow /\ events'[t] = events[t] \cup job[t].covers /\ job[t].pools \subseteq known'
            /\ held' = held /\ replayed' = replayed
          BY <1>3, <2>3
      <4>2. held[t] = 1 /\ job[t].covers \subseteq V4 \cup job[t].pools
          BY <1>1, <2>3
      <4>3. events[t] \subseteq V4 \cup known /\ replayed[t] \subseteq known
          BY StillTx DEF RowKept
      <4> QED
          BY <1>4, <4>1, <4>2, <4>3 DEF RowKept, Pending, NoRow
    <3>2. JobKept(t)'
        BY <1>3, <2>3 DEF JobKept
    <3>3. ReplayKept(t)'
        BY <1>3, <1>4, <2>1, <2>3, StillTx DEF ReplayKept, Verified
    <3>4. SeedKept(t)'
        BY <1>3, <2>1, <2>3, StillTx DEF SeedKept, Liquidity
    <3> QED
        BY <3>1, <3>2, <3>3, <3>4
  <2> QED
      BY <2>2, <2>3
<1>10. RowsKept' /\ JobsKept' /\ ReplaysKept' /\ SeedsKept'
    BY <1>9 DEF RowsKept, JobsKept, ReplaysKept, SeedsKept
<1>11. EvidenceOwed'
  <2> SUFFICES ASSUME NEW t \in Tx, ~Pending(t)', (events[t] \cap Lp[t])' # {}
               PROVE  (/\ receipts[t].block = held[t]
                       /\ events[t] \cap Lp[t] \subseteq receipts[t].covers
                       /\ replayed[t] \cap Lp[t] \subseteq receipts[t].pools)'
      BY DEF EvidenceOwed
  <2>1. CASE t \notin Publishable
    <3>1. SameTables(t)
        BY <1>2, <2>1
    <3> QED
        BY <3>1 DEF SameTables, Still, EvidenceOwed, Pending
  <2>2. CASE t \in Publishable
    <3>1. /\ receipts'[t].block = 1 /\ receipts'[t].covers = job[t].covers
          /\ receipts'[t].pools = job[t].pools /\ held'[t] = 1
      <4>1. receipts'[t] = [block |-> job[t].block, covers |-> job[t].covers, pools |-> job[t].pools]
          BY <1>3, <2>2
      <4>2. job[t].block = 1
          BY <1>1, <2>2
      <4>3. held'[t] = 1
          BY <1>1, <1>3, <2>2
      <4> QED
          BY <4>1, <4>2, <4>3
    <3>2. /\ events'[t] = events[t] \cup job[t].covers /\ replayed'[t] = replayed[t]
          /\ Liquidity(t) \subseteq job[t].covers /\ replayed[t] \cap Lp[t] \subseteq job[t].pools
        BY <1>1, <1>3, <2>2
    <3> QED
        BY <3>1, <3>2 DEF Liquidity
  <2> QED
      BY <2>1, <2>2
<1>12. NoLogLost'
  <2> SUFFICES ASSUME NEW t \in Tx \ Overflow, held'[t] # 0
               PROVE  Touch[t] \cap Real \subseteq events'[t] \cup PoolsOf(row'[t].deferred)
      BY DEF NoLogLost
  <2>1. CASE t \notin Publishable
    <3>1. SameTables(t)
        BY <1>2, <2>1
    <3> QED
        BY <3>1 DEF SameTables, Still, NoLogLost
  <2>2. CASE t \in Publishable
    <3>1. /\ row[t].deferred = {} /\ row'[t].deferred = {} /\ held[t] = 1
          /\ events'[t] = events[t] \cup job[t].covers
      <4>1. row[t].deferred = {} /\ held[t] = 1
          BY <1>1, <2>2
      <4>2. row'[t] = NoRow /\ events'[t] = events[t] \cup job[t].covers
          BY <1>3, <2>2
      <4> QED
          BY <4>1, <4>2 DEF NoRow
    <3>2. Touch[t] \cap Real \subseteq events[t] \cup PoolsOf(row[t].deferred)
      <4>1. held[t] # 0
          BY <1>1, <2>2
      <4> QED
          BY <4>1 DEF Still, NoLogLost
    <3> QED
        BY <3>1, <3>2 DEF PoolsOf
  <2> QED
      BY <2>1, <2>2
<1> QED
    BY <1>5, <1>7, <1>8, <1>10, <1>11, <1>12 DEF Still

-----------------------------------------------------------------------------
\* A step of one transaction.

OwedAt(t) ==
    ~Pending(t) /\ Liquidity(t) # {} =>
        /\ receipts[t].block = held[t]
        /\ Liquidity(t) \subseteq receipts[t].covers
        /\ replayed[t] \cap Lp[t] \subseteq receipts[t].pools

LoggedAt(t) ==
    t \notin Overflow /\ held[t] # 0 => Touch[t] \cap Real \subseteq events[t] \cup PoolsOf(row[t].deferred)

KeptAt(t) ==
    /\ RowKept(t) /\ JobKept(t) /\ ReplayKept(t) /\ SeedKept(t) /\ OwedAt(t) /\ LoggedAt(t)

LEMMA KeptAtIs ==
    ASSUME Still, NEW t \in Tx
    PROVE  KeptAt(t)
BY StillTx DEF KeptAt, OwedAt, LoggedAt, Still, EvidenceOwed, NoLogLost, Liquidity

LEMMA OneStill ==
    ASSUME Still, NEW t \in Tx, StoreTypes', WorkTypes',
           \A s \in Tx : s # t => SameTables(s) /\ replay'[s] = replay[s] /\ seed'[s] = seed[s],
           known \subseteq known', UNCHANGED <<memoryVars, enrichVars, verdict>>, KeptAt(t)'
    PROVE  Still'
<1>1. job' = job /\ coord' = coord /\ cached' = cached /\ checked' = checked
    BY DEF enrichVars, memoryVars
<1>2. CheckedKept' /\ CoordKept'
    BY <1>1 DEF Still, CheckedKept, Verified, CoordKept
<1>3. ASSUME NEW s \in Tx PROVE KeptAt(s)'
  <2>1. CASE s = t
      BY <2>1
  <2>2. CASE s # t
    <3>1. RowKept(s)' /\ JobKept(s)' /\ ReplayKept(s)' /\ SeedKept(s)'
        BY <1>1, <2>2, SameTablesKeeps
    <3>2. OwedAt(s)' /\ LoggedAt(s)'
        BY <2>2, KeptAtIs DEF KeptAt, OwedAt, LoggedAt, SameTables, Pending, Liquidity
    <3> QED
        BY <3>1, <3>2 DEF KeptAt
  <2> QED
      BY <2>1, <2>2
<1>4. RowsKept' /\ JobsKept' /\ ReplaysKept' /\ SeedsKept'
    BY <1>3 DEF KeptAt, RowsKept, JobsKept, ReplaysKept, SeedsKept
<1>5. EvidenceOwed' /\ NoLogLost'
    BY <1>3 DEF KeptAt, OwedAt, LoggedAt, EvidenceOwed, NoLogLost, Liquidity
<1> QED
    BY <1>2, <1>4, <1>5 DEF Still

-----------------------------------------------------------------------------
\* Replays.

LEMMA ReplayAnswerStill ==
    ASSUME Still, NEW t \in Tx, replay' = [replay EXCEPT ![t] = replay'[t]],
           replay'[t] \in StillReplay, verdict' = verdict,
           UNCHANGED <<at, storeVars, memoryVars, enrichVars, seed>>,
           ReplayKept(t)'
    PROVE  Still'
<1>1. Steady
    BY DEF storeVars, Steady, Still, StoreTypes
<1>2. WorkTypes'
    BY DEF Still, WorkTypes, enrichVars
<1>3. ReplaysKept'
  <2> SUFFICES ASSUME NEW s \in Tx, s # t PROVE ReplayKept(s)'
      BY DEF ReplaysKept
  <2>1. SameTables(s) /\ cached' = cached /\ replay'[s] = replay[s]
      BY <1>1 DEF Steady, SameTables, memoryVars, Still, WorkTypes
  <2> QED
      BY <2>1, SameTablesKeeps
<1> QED
    BY <1>1, <1>2, <1>3, SteadyKeeps DEF Still, enrichVars

LEMMA ReplaySelectStill == Still /\ (\E chosen \in SUBSET Tx : ReplaySelect(chosen)) => Still'
<1> SUFFICES ASSUME Still, NEW chosen \in SUBSET Tx, ReplaySelect(chosen) PROVE Still'
    OBVIOUS
<1>1. Steady /\ UNCHANGED <<enrichVars, seed>>
    BY DEF ReplaySelect, storeVars, Steady, Still, StoreTypes
<1> DEFINE new(t) == [NoReplay EXCEPT !.stage = "read", !.block = row[t].block, !.gen = row[t].gen,
                                      !.logs = row[t].deferred, !.error = row[t].error]
<1>2. \A t \in Tx : replay'[t] = (IF t \in chosen THEN new(t) ELSE NoReplay)
    BY DEF ReplaySelect
<1>3. ASSUME NEW t \in chosen
      PROVE  /\ held[t] = 1 /\ new(t) \in StillReplay
             /\ new(t).stage = "read" /\ new(t).block = 1
  <2>1. t \in Tx /\ row[t].deferred # {}
      BY DEF ReplaySelect
  <2>2. Pending(t)
      BY <2>1, StillTx DEF RowKept, NoRow
  <2>3. row[t].block \in {0, 1} /\ row[t].gen \in Nat /\ row[t].deferred \in Logs /\ row[t].error \in Errors
      BY <2>1, StillTx DEF StillRow
  <2>4. row[t].block = 1 /\ held[t] = 1
      BY <2>1, <2>2, <2>3, StillTx DEF RowKept, Pending
  <2>5. NoReplay \in StillReplay
      BY DEF NoReplay, StillReplay, Logs, Errors
  <2>6. new(t) \in StillReplay /\ new(t).stage = "read" /\ new(t).block = row[t].block
      BY <2>3, <2>5 DEF StillReplay
  <2> QED
      BY <2>4, <2>6
<1>4. WorkTypes'
  <2>1. NoReplay \in StillReplay
      BY DEF NoReplay, StillReplay, Logs, Errors
  <2>2. \A t \in Tx : replay'[t] \in StillReplay
    <3> HIDE DEF new
    <3> QED
        BY <1>2, <1>3, <2>1
  <2>3. replay' = [t \in Tx |-> replay'[t]]
      BY DEF ReplaySelect
  <2>4. replay' \in [Tx -> StillReplay]
      BY <2>2, <2>3
  <2>5. verdict' \in [transient : SUBSET Pool, anchor : BOOLEAN, keys : SUBSET Pool]
      BY DEF ReplaySelect, NoVerdict
  <2> QED
      BY <1>1, <2>4, <2>5 DEF Still, WorkTypes, enrichVars
<1>5. ReplaysKept'
  <2> SUFFICES ASSUME NEW t \in Tx PROVE ReplayKept(t)'
      BY DEF ReplaysKept
  <2>1. held' = held
      BY <1>1 DEF Steady
  <2>2. CASE t \notin chosen
    <3>1. replay'[t] = NoReplay
        BY <1>2, <2>2
    <3> QED
        BY <3>1 DEF ReplayKept, NoReplay
  <2>3. CASE t \in chosen
    <3>1. replay'[t].stage = "read" /\ replay'[t].block = 1 /\ held'[t] = 1
      <4>1. replay'[t] = new(t)
          BY <1>2, <2>3
      <4>2. new(t).stage = "read" /\ new(t).block = 1 /\ held[t] = 1
          BY <1>3, <2>3
      <4> HIDE DEF new
      <4> QED
          BY <2>1, <4>1, <4>2
    <3> QED
        BY <3>1 DEF ReplayKept
  <2> QED
      BY <2>2, <2>3
<1> QED
    BY <1>1, <1>4, <1>5, SteadyKeeps DEF Still, enrichVars

LEMMA ReplayPrepareStill == Still /\ (\E t \in Tx : ReplayPrepare(t)) => Still'
<1> SUFFICES ASSUME Still, NEW t \in Tx, ReplayPrepare(t) PROVE Still'
    OBVIOUS
<1> DEFINE asked == PoolsOf(replay[t].logs) \ (Verified \cup checked)
<1>1. replay[t] \in StillReplay /\ replay[t].logs \in Logs /\ replay[t].stage = "read"
    BY StillTx DEF StillReplay, ReplayPrepare
<1>2. asked \subseteq Pool
    BY <1>1 DEF PoolsOf, Logs
<1>3. PoolsOf(replay[t].logs) \cap Real \subseteq Verified \cup asked
    BY DEF Still, CheckedKept
<1> HIDE DEF asked
<1>4. replay' = [replay EXCEPT ![t].stage = "prepared", ![t].net = asked]
    BY DEF ReplayPrepare, asked
<1>5. replay'[t] = [replay[t] EXCEPT !.stage = "prepared", !.net = asked]
    BY <1>4 DEF Still, WorkTypes
<1>6. replay'[t] \in StillReplay /\ replay' = [replay EXCEPT ![t] = replay'[t]]
    BY <1>1, <1>2, <1>4, <1>5 DEF StillReplay, Still, WorkTypes
<1>7. /\ replay'[t].stage = "prepared" /\ replay'[t].net = asked /\ replay'[t].block = replay[t].block
      /\ replay'[t].logs = replay[t].logs
    BY <1>1, <1>5 DEF StillReplay
<1>8. known' = known /\ cached' = cached /\ held' = held
    BY DEF ReplayPrepare, storeVars, memoryVars
<1>9. ReplayKept(t)'
    BY <1>1, <1>3, <1>7, <1>8, StillTx DEF ReplayKept, Verified
<1> QED
    BY <1>6, <1>9, ReplayAnswerStill DEF ReplayPrepare

LEMMA ReplaySkipStill == Still /\ (\E t \in Tx : ReplaySkip(t)) => Still'
<1> SUFFICES ASSUME Still, NEW t \in Tx, ReplaySkip(t) PROVE Still'
    OBVIOUS
<1>1. replay' = [replay EXCEPT ![t] = NoReplay] /\ replay'[t] = NoReplay
    BY DEF ReplaySkip, Still, WorkTypes
<1>2. NoReplay \in StillReplay
    BY DEF NoReplay, StillReplay, Logs, Errors
<1>3. ReplayKept(t)'
    BY <1>1 DEF ReplayKept, NoReplay
<1> QED
    BY <1>1, <1>2, <1>3, ReplayAnswerStill DEF ReplaySkip

LEMMA ReplayDecodeStill == Still /\ (\E t \in Tx : ReplayDecode(t)) => Still'
<1> SUFFICES ASSUME Still, NEW t \in Tx, ReplayDecode(t) PROVE Still'
    OBVIOUS
<1> DEFINE fails == (verdict.anchor /\ replay[t].net # {}) \/ Processed(t) = {}
           did == IF fails THEN {} ELSE Processed(t)
           saw == IF fails THEN {} ELSE Processed(t) \cap (V4 \cup Verified)
           kept == IF fails THEN {} ELSE Processed(t) \cap (Verified \cup verdict.keys)
<1>1. replay[t] \in StillReplay /\ replay[t].logs \in Logs /\ replay[t].stage = "resolved"
    BY StillTx DEF StillReplay, ReplayDecode
<1>2. Processed(t) \subseteq Pool
    BY <1>1 DEF Processed, PoolsOf, Logs
<1>3. did \subseteq Pool /\ saw \subseteq Pool /\ kept \subseteq Pool /\ fails \in BOOLEAN
    BY <1>2
<1>4. did \cap Real \subseteq saw
  <2>1. CASE fails
      BY <2>1
  <2>2. CASE ~fails
    <3>1. (PoolsOf(replay[t].logs) \cap Real) \ (V4 \cup verdict.transient) \subseteq Verified
        BY <1>1, <2>2, StillTx DEF ReplayKept
    <3>2. Processed(t) \cap Real \subseteq V4 \cup Verified
        BY <3>1 DEF Processed
    <3> HIDE DEF fails
    <3> QED
        BY <2>2, <3>2
  <2> QED
      BY <2>1, <2>2
<1>5. saw \subseteq V4 \cup kept
    OBVIOUS
<1> HIDE DEF fails, did, saw, kept
<1>6. replay' = [replay EXCEPT ![t].stage = "decoded", ![t].failed = fails, ![t].done = did,
                               ![t].found = saw, ![t].pools = kept]
    BY DEF ReplayDecode, fails, did, saw, kept
<1>7. replay'[t] = [replay[t] EXCEPT !.stage = "decoded", !.failed = fails, !.done = did,
                                    !.found = saw, !.pools = kept]
    BY <1>6 DEF Still, WorkTypes
<1>8. replay'[t] \in StillReplay /\ replay' = [replay EXCEPT ![t] = replay'[t]]
    BY <1>1, <1>3, <1>6, <1>7 DEF StillReplay, Still, WorkTypes
<1>9. /\ replay'[t].stage = "decoded" /\ replay'[t].done = did /\ replay'[t].found = saw
      /\ replay'[t].pools = kept /\ replay'[t].block = replay[t].block
    BY <1>1, <1>7 DEF StillReplay
<1>10. held' = held
    BY DEF ReplayDecode, storeVars
<1>11. ReplayKept(t)'
    BY <1>1, <1>4, <1>5, <1>9, <1>10, StillTx DEF ReplayKept
<1> QED
    BY <1>8, <1>11, ReplayAnswerStill DEF ReplayDecode

LEMMA ReplayResolveStill == Still /\ ReplayResolve => Still'
<1> SUFFICES ASSUME Still, ReplayResolve PROVE Still'
    OBVIOUS
<1> DEFINE wanted == UNION {replay[t].net : t \in Prepared}
<1>1. PICK transient \in SUBSET wanted, anchor \in BOOLEAN :
        /\ cached' = cached \cup FactoryMembers(IF anchor THEN {} ELSE wanted \ transient)
        /\ checked' = checked \cup ((IF anchor THEN {} ELSE wanted \ transient) \ V4)
        /\ verdict' = [transient |-> transient, anchor |-> anchor,
                       keys |-> PoolKeys(IF anchor THEN {} ELSE wanted \ transient)]
    BY DEF ReplayResolve
<1> DEFINE answered == IF anchor THEN {} ELSE wanted \ transient
<1>2. wanted \subseteq Pool
  <2>1. \A t \in Prepared : replay[t].net \subseteq Pool
      BY StillTx DEF Prepared, StillReplay
  <2> QED
      BY <2>1
<1>3. answered \subseteq Pool /\ transient \subseteq Pool
    BY <1>2
<1>4. \A t \in Prepared : replay[t].net \subseteq wanted
    OBVIOUS
<1>5. anchor \/ answered = wanted \ transient
    OBVIOUS
<1> HIDE DEF wanted, answered
<1>6. /\ cached' = cached \cup ((answered \cap Real) \ V4) /\ checked' = checked \cup (answered \ V4)
      /\ verdict' = [transient |-> transient, anchor |-> anchor, keys |-> answered \cap Real \cap V4]
    BY <1>1 DEF answered, FactoryMembers, PoolKeys
<1>7. UNCHANGED <<at, held, events, receipts, replayed, known, row, clearing, job, coord, seed>>
    BY DEF ReplayResolve, storeVars, enrichVars
<1>8. StoreTypes'
    BY <1>3, <1>6, <1>7 DEF Still, StoreTypes
<1>9. \A t \in Tx : SameTables(t)
    BY <1>7 DEF SameTables
<1>10. ASSUME NEW t \in Tx
       PROVE  \/ t \notin Prepared /\ replay'[t] = replay[t] /\ replay[t].stage = "none"
              \/ t \in Prepared /\ replay'[t] = [replay[t] EXCEPT !.stage = "resolved"]
    BY DEF ReplayResolve, Prepared
<1>11. \A t \in Tx : replay'[t] \in StillReplay
  <2> SUFFICES ASSUME NEW t \in Tx PROVE replay'[t] \in StillReplay
      OBVIOUS
  <2>1. replay[t] \in StillReplay
      BY StillTx
  <2>2. [replay[t] EXCEPT !.stage = "resolved"] \in StillReplay
      BY <2>1 DEF StillReplay
  <2> QED
      BY <1>10, <2>1, <2>2
<1>12. WorkTypes'
  <2>1. replay' = [t \in Tx |-> replay'[t]]
      BY DEF ReplayResolve
  <2>2. replay' \in [Tx -> StillReplay]
      BY <1>11, <2>1
  <2>3. verdict' \in [transient : SUBSET Pool, anchor : BOOLEAN, keys : SUBSET Pool]
      BY <1>3, <1>6
  <2> QED
      BY <1>7, <2>2, <2>3 DEF Still, WorkTypes
<1>13. CheckedKept' /\ CoordKept'
    BY <1>6, <1>7 DEF Still, CheckedKept, Verified, CoordKept
<1>14. RowsKept' /\ JobsKept' /\ SeedsKept'
    BY <1>7, <1>9, SameTablesKeeps DEF RowsKept, JobsKept, SeedsKept
<1>15. EvidenceOwed' /\ NoLogLost'
    BY <1>9, SameTablesSettled
<1>16. ReplaysKept'
  <2> SUFFICES ASSUME NEW t \in Tx PROVE ReplayKept(t)'
      BY DEF ReplaysKept
  <2>1. replay[t] \in StillReplay /\ ReplayKept(t)
      BY StillTx
  <2>2. CASE t \notin Prepared
    <3>1. replay'[t] = NoReplay
        BY <1>10, <2>1, <2>2 DEF ReplayKept
    <3> QED
        BY <3>1 DEF ReplayKept, NoReplay
  <2>3. CASE t \in Prepared
    <3> DEFINE ids == PoolsOf(replay[t].logs)
    <3>1. replay[t].stage = "prepared"
        BY <2>3 DEF Prepared
    <3>2. replay'[t] = [replay[t] EXCEPT !.stage = "resolved"]
        BY <1>10, <2>3
    <3>3. /\ replay'[t].stage = "resolved" /\ replay'[t].block = replay[t].block
          /\ replay'[t].logs = replay[t].logs /\ replay'[t].net = replay[t].net
        BY <2>1, <3>2 DEF StillReplay
    <3>4. replay[t].block = 1 /\ held[t] = 1 /\ ids \cap Real \subseteq known \cup cached \cup replay[t].net
        BY <2>1, <3>1 DEF ReplayKept, Verified
    <3>5. verdict'.transient = transient /\ verdict'.anchor = anchor
        BY <1>6
    <3>6. \/ anchor /\ replay[t].net # {}
          \/ (ids \cap Real) \ (V4 \cup transient) \subseteq known' \cup cached'
      <4>1. CASE replay[t].net = {}
          BY <1>6, <1>7, <3>4, <4>1
      <4>2. CASE ~anchor
        <5>1. replay[t].net \ transient \subseteq answered
            BY <1>4, <1>5, <2>3, <4>2
        <5> QED
            BY <1>6, <1>7, <3>4, <5>1
      <4> QED
          BY <4>1, <4>2
    <3> QED
        BY <1>7, <3>3, <3>4, <3>5, <3>6 DEF ReplayKept, Verified
  <2> QED
      BY <2>2, <2>3
<1> QED
    BY <1>8, <1>12, <1>13, <1>14, <1>15, <1>16 DEF Still

\* A row that has grown older than every job in flight.
LEMMA NewerRow ==
    ASSUME Still, NEW t \in Tx, Pending(t), Pending(t)', row'[t].gen = row[t].gen + 1,
           held'[t] = held[t], job' = job
    PROVE  JobKept(t)'
<1>1. row[t].gen \in Nat /\ job[t].gen \in Nat
    BY StillTx DEF StillRow, StillJob
<1>2. ~Current(t)' \/ job[t] = NoJob
    BY <1>1, StillTx DEF JobKept, Current
<1> QED
    BY <1>1, <1>2, StillTx DEF JobKept, Pending

LEMMA RowEdit ==
    ASSUME NEW r \in StillRow, NEW err \in Errors, NEW logs \in Logs
    PROVE  [r EXCEPT !.deferred = logs, !.gen = r.gen + 1, !.error = err]
             \in [block : {r.block}, gen : {r.gen + 1}, attempts : Nat, error : {err}, deferred : {logs}]
BY DEF StillRow

\* The row is put back for another try.
LEMMA ReplayFailsStill == Still /\ (\E t \in Tx : ReplayFails(t)) => Still'
<1> SUFFICES ASSUME Still, NEW t \in Tx, ReplayFails(t) PROVE Still'
    OBVIOUS
<1>1. row[t] \in StillRow /\ row[t].block # 0 /\ row[t].gen \in Nat
    BY StillTx DEF ReplayFails, Replayable, Pending, StillRow
<1>2. row' = [row EXCEPT ![t] = [row[t] EXCEPT !.gen = row[t].gen + 1]]
    BY DEF ReplayFails, Replayable, ReplayError
<1>3. row'[t] = [row[t] EXCEPT !.gen = row[t].gen + 1]
    BY <1>2 DEF Still, StoreTypes
<1>4. /\ row'[t] \in StillRow /\ row'[t].block = row[t].block /\ row'[t].gen = row[t].gen + 1
      /\ row'[t].deferred = row[t].deferred
    BY <1>1, <1>3 DEF StillRow
<1>5. UNCHANGED <<at, held, events, receipts, replayed, known, cached, checked, clearing>>
      /\ UNCHANGED <<memoryVars, enrichVars, verdict, seed>>
    BY DEF ReplayFails, memoryVars
<1>6. StoreTypes'
  <2>1. row' \in [Tx -> StillRow]
      BY <1>2, <1>3, <1>4 DEF Still, StoreTypes
  <2> QED
      BY <1>5, <2>1 DEF Still, StoreTypes
<1>7. replay' = [replay EXCEPT ![t] = NoReplay] /\ replay'[t] = NoReplay
    BY DEF ReplayFails, Still, WorkTypes
<1>8. WorkTypes'
  <2>1. NoReplay \in StillReplay
      BY DEF NoReplay, StillReplay, Logs, Errors
  <2> QED
      BY <1>5, <1>7, <2>1 DEF Still, WorkTypes, enrichVars
<1>9. \A s \in Tx : s # t => SameTables(s) /\ replay'[s] = replay[s] /\ seed'[s] = seed[s]
    BY <1>2, <1>5, <1>7 DEF SameTables, Still, StoreTypes, WorkTypes
<1>10. JobKept(t)'
    BY <1>1, <1>4, <1>5, NewerRow DEF Pending, enrichVars
<1>11. RowKept(t)' /\ SeedKept(t)'
    BY <1>1, <1>4, <1>5, StillTx DEF RowKept, SeedKept, Pending, Liquidity
<1>12. ReplayKept(t)'
    BY <1>7 DEF ReplayKept, NoReplay
<1>13. OwedAt(t)' /\ LoggedAt(t)'
    BY <1>1, <1>4, <1>5, KeptAtIs DEF KeptAt, OwedAt, LoggedAt, Pending
<1> QED
    BY <1>5, <1>6, <1>8, <1>9, <1>10, <1>11, <1>12, <1>13, OneStill DEF KeptAt

LEMMA NoRowType == NoRow \in StillRow
BY DEF NoRow, StillRow, Errors, Logs

LEMMA ReplayPublishStill == Still /\ (\E t \in Tx : ReplayPublish(t)) => Still'
<1> SUFFICES ASSUME Still, NEW t \in Tx, ReplayPublish(t) PROVE Still'
    OBVIOUS
<1> DEFINE stored == events[t] \cup replay[t].found
           left == {l \in replay[t].logs : l[1] \notin replay[t].done}
           err == IF row[t].error = "terminal" THEN "none" ELSE row[t].error
<1>1. /\ row[t] \in StillRow /\ row[t].block = 1 /\ row[t].gen \in Nat /\ row[t].error \in Errors
      /\ row[t].deferred = replay[t].logs /\ held[t] = 1
  <2>1. row[t] \in StillRow /\ replay[t] \in StillReplay /\ Replayable(t) /\ held[t] = replay[t].block
      BY StillTx DEF ReplayPublish
  <2>2. row[t].block # 0 /\ row[t].deferred = replay[t].logs
      BY <2>1 DEF Replayable, SameMarker, Pending
  <2>3. row[t].block \in {0, 1} /\ row[t].gen \in Nat /\ row[t].error \in Errors
      BY <2>1 DEF StillRow
  <2>4. held[t] = 1
      BY <2>2, StillTx DEF RowKept, Pending
  <2> QED
      BY <2>1, <2>2, <2>3, <2>4
<1>2. /\ replay[t].found \subseteq V4 \cup replay[t].pools /\ replay[t].done \cap Real \subseteq replay[t].found
      /\ replay[t].found \subseteq Pool /\ replay[t].pools \subseteq Pool /\ replay[t].logs \in Logs
    BY StillTx DEF ReplayPublish, ReplayKept, StillReplay
<1>3. /\ events' = [events EXCEPT ![t] = stored] /\ events'[t] = stored
      /\ known' = known \cup replay[t].pools
      /\ replayed' = [replayed EXCEPT ![t] = replayed[t] \cup replay[t].pools]
      /\ replayed'[t] = replayed[t] \cup replay[t].pools
    BY DEF ReplayPublish, Still, StoreTypes
<1>4. UNCHANGED <<at, held, receipts, cached, checked, clearing>>
      /\ UNCHANGED <<memoryVars, enrichVars, verdict, seed>>
    BY DEF ReplayPublish, memoryVars
<1>5. left \in Logs
    BY <1>2 DEF Logs
<1>6. err \in Errors
    BY <1>1 DEF Errors
<1>7. /\ row' = [row EXCEPT ![t] = row'[t]]
      /\ \/ left # {} /\ row'[t] = [row[t] EXCEPT !.deferred = left, !.gen = row[t].gen + 1, !.error = row[t].error]
         \/ left = {} /\ row'[t] = [row[t] EXCEPT !.deferred = {}, !.gen = row[t].gen + 1, !.error = err]
         \/ left = {} /\ stored \cap Lp[t] = {} /\ row'[t] = NoRow
  <2>1. row' = [row EXCEPT ![t] = Finished(t, replay[t].done, stored)]
      BY <1>3 DEF ReplayPublish
  <2>2. row'[t] = Finished(t, replay[t].done, stored)
      BY <2>1 DEF Still, StoreTypes
  <2>3. SameMarker(t)
      BY DEF ReplayPublish, Replayable
  <2>4. [row[t] EXCEPT !.deferred = left, !.gen = row[t].gen + 1]
          = [row[t] EXCEPT !.deferred = left, !.gen = row[t].gen + 1, !.error = row[t].error]
    <3> HIDE DEF left
    <3> QED
        BY <1>1 DEF StillRow
  <2>5. \/ left # {} /\ row'[t] = [row[t] EXCEPT !.deferred = left, !.gen = row[t].gen + 1]
        \/ left = {} /\ row'[t] = [row[t] EXCEPT !.deferred = {}, !.gen = row[t].gen + 1, !.error = err]
        \/ left = {} /\ stored \cap Lp[t] = {} /\ row'[t] = NoRow
    <3> HIDE DEF stored
    <3> QED
        BY <2>2, <2>3 DEF Finished
  <2> QED
      BY <2>1, <2>2, <2>4, <2>5
<1> HIDE DEF err
<1>8. /\ row'[t] \in StillRow /\ row'[t].deferred = left
      /\ \/ row'[t].block = 1 /\ row'[t].gen = row[t].gen + 1
         \/ row'[t] = NoRow /\ stored \cap Lp[t] = {}
  <2> HIDE DEF left, stored
  <2>1. CASE left # {}
    <3>1. row'[t] = [row[t] EXCEPT !.deferred = left, !.gen = row[t].gen + 1, !.error = row[t].error]
        BY <1>7, <2>1
    <3>2. row'[t] \in [block : {row[t].block}, gen : {row[t].gen + 1}, attempts : Nat,
                       error : {row[t].error}, deferred : {left}]
        BY <1>1, <1>5, <3>1, RowEdit
    <3>3. row[t].gen + 1 \in Nat
        BY <1>1
    <3> QED
        BY <1>1, <1>5, <3>2, <3>3 DEF StillRow
  <2>2. CASE left = {} /\ row'[t] = [row[t] EXCEPT !.deferred = {}, !.gen = row[t].gen + 1, !.error = err]
    <3>1. {} \in Logs
        BY DEF Logs
    <3>2. row'[t] \in [block : {row[t].block}, gen : {row[t].gen + 1}, attempts : Nat,
                       error : {err}, deferred : {{}}]
        BY <1>1, <1>6, <2>2, <3>1, RowEdit
    <3>3. row[t].gen + 1 \in Nat
        BY <1>1
    <3> QED
        BY <1>1, <1>6, <2>2, <3>1, <3>2, <3>3 DEF StillRow
  <2>3. CASE left = {} /\ stored \cap Lp[t] = {} /\ row'[t] = NoRow
      BY <2>3, NoRowType DEF NoRow
  <2> QED
      BY <1>7, <2>1, <2>2, <2>3
<1>9. StoreTypes'
  <2>1. row' \in [Tx -> StillRow]
      BY <1>7, <1>8 DEF Still, StoreTypes
  <2>2. events' \in [Tx -> SUBSET Pool] /\ replayed' \in [Tx -> SUBSET Pool] /\ known' \subseteq Pool
      BY <1>2, <1>3 DEF Still, StoreTypes
  <2> QED
      BY <1>4, <2>1, <2>2 DEF Still, StoreTypes
<1>10. replay' = [replay EXCEPT ![t] = NoReplay] /\ replay'[t] = NoReplay
    BY DEF ReplayPublish, Still, WorkTypes
<1>11. WorkTypes'
  <2>1. NoReplay \in StillReplay
      BY DEF NoReplay, StillReplay, Logs, Errors
  <2> QED
      BY <1>4, <1>10, <2>1 DEF Still, WorkTypes, enrichVars
<1>12. \A s \in Tx : s # t => SameTables(s) /\ replay'[s] = replay[s] /\ seed'[s] = seed[s]
  <2>1. \A s \in Tx : s # t => row'[s] = row[s] /\ events'[s] = events[s] /\ replayed'[s] = replayed[s]
      BY <1>3, <1>7 DEF Still, StoreTypes
  <2> QED
      BY <1>3, <1>4, <1>10, <2>1 DEF SameTables, Still, WorkTypes
<1>13. RowKept(t)'
  <2>1. events[t] \subseteq V4 \cup known /\ replayed[t] \subseteq known
      BY StillTx DEF RowKept
  <2> QED
      BY <1>1, <1>2, <1>3, <1>4, <1>8, <2>1 DEF RowKept, Pending
<1>14. JobKept(t)'
  <2>1. CASE row'[t].block = 1 /\ row'[t].gen = row[t].gen + 1
      BY <1>1, <1>4, <2>1, NewerRow DEF Pending, enrichVars
  <2>2. CASE row'[t] = NoRow /\ stored \cap Lp[t] = {}
    <3>1. row'[t].block = 0 /\ Liquidity(t)' = {}
        BY <1>3, <2>2 DEF NoRow, Liquidity
    <3> QED
        BY <1>4, <3>1, StillTx DEF JobKept, Pending, Current, enrichVars
  <2> QED
      BY <1>8, <2>1, <2>2
<1>15. ReplayKept(t)'
    BY <1>10 DEF ReplayKept, NoReplay
<1>16. SeedKept(t)'
    BY <1>3, <1>4, StillTx DEF SeedKept, Liquidity
<1>17. OwedAt(t)'
    BY <1>3, <1>8 DEF OwedAt, Pending, Liquidity
<1>18. LoggedAt(t)'
  <2> SUFFICES ASSUME t \notin Overflow PROVE Touch[t] \cap Real \subseteq events'[t] \cup PoolsOf(row'[t].deferred)
      BY DEF LoggedAt
  <2>1. Touch[t] \cap Real \subseteq events[t] \cup PoolsOf(replay[t].logs)
      BY <1>1, KeptAtIs DEF KeptAt, LoggedAt
  <2>2. PoolsOf(replay[t].logs) \subseteq replay[t].done \cup PoolsOf(left)
      BY DEF PoolsOf
  <2>3. Touch[t] \cap Real \subseteq stored \cup PoolsOf(left)
      BY <1>2, <2>1, <2>2
  <2> HIDE DEF left, stored
  <2> QED
      BY <1>3, <1>8, <2>3
<1>19. KeptAt(t)'
    BY <1>13, <1>14, <1>15, <1>16, <1>17, <1>18 DEF KeptAt
<1> QED
    BY <1>3, <1>4, <1>9, <1>11, <1>12, <1>19, OneStill

-----------------------------------------------------------------------------
\* Seeding, restarts and intervals.

LEMMA SeedReadStill == Still /\ (\E t \in Tx : SeedRead(t)) => Still'
<1> SUFFICES ASSUME Still, NEW t \in Tx, SeedRead(t) PROVE Still'
    OBVIOUS
<1>1. Steady /\ UNCHANGED <<enrichVars, replayVars>>
    BY DEF SeedRead, storeVars, Steady, Still, StoreTypes
<1> DEFINE read == [stage |-> "read", logs |-> SeedCandidates(t) \X {held[t]}]
<1>2. Liquidity(t) # {} /\ held[t] = 1 /\ SeedCandidates(t) \subseteq Pool
    BY StillTx DEF SeedRead, SeedCandidates, RowKept, Liquidity
<1>3. seed' = [seed EXCEPT ![t] = read] /\ seed'[t] = read
    BY DEF SeedRead, Still, WorkTypes
<1>4. WorkTypes'
  <2>1. SeedCandidates(t) \X {held[t]} \in Logs
      BY <1>2 DEF Logs
  <2>2. seed' \in [Tx -> [stage : {"new", "read", "done"}, logs : Logs]]
      BY <1>3, <2>1 DEF Still, WorkTypes
  <2> QED
      BY <1>1, <2>2 DEF Still, WorkTypes, enrichVars, replayVars
<1>5. SeedsKept'
  <2> SUFFICES ASSUME NEW s \in Tx PROVE SeedKept(s)'
      BY DEF SeedsKept
  <2>1. held' = held /\ events' = events
      BY <1>1 DEF Steady
  <2>2. CASE s = t
      BY <1>2, <2>1, <2>2 DEF SeedKept, Liquidity
  <2>3. CASE s # t
    <3>1. seed'[s] = seed[s]
        BY <1>3, <2>3 DEF Still, WorkTypes
    <3> QED
        BY <2>1, <3>1, StillTx DEF SeedKept, Liquidity
  <2> QED
      BY <2>2, <2>3
<1> QED
    BY <1>1, <1>4, <1>5, SteadyKeeps DEF Still, enrichVars, replayVars

\* A row takes more logs to defer; there was none, or it grows older.
LEMMA DeferredIs ==
    ASSUME NEW r \in StillRow, r.block = 1 \/ r = NoRow, NEW logs \in Logs, logs # {}
    PROVE  /\ Deferred(r, logs) \in StillRow /\ Deferred(r, logs).block = 1
           /\ Deferred(r, logs).gen = r.gen + 1
           /\ Deferred(r, logs).deferred = r.deferred \cup logs
<1> DEFINE b == (CHOOSE l \in logs : TRUE)[2]
           q == Queued(r, b)
<1>1. b = 1
  <2>1. (CHOOSE l \in logs : TRUE) \in Pool \X {1}
      BY DEF Logs
  <2> QED
      BY <2>1
<1> HIDE DEF b
<1>2. q \in StillRow /\ q.block = 1 /\ q.gen = r.gen /\ q.deferred = r.deferred
  <2>1. CASE r.block = 1
      BY <2>1 DEF Queued
  <2>2. CASE r = NoRow
    <3>1. q = [NoRow EXCEPT !.block = 1] /\ r.block = 0
        BY <1>1, <2>2 DEF Queued, NoRow
    <3>2. [NoRow EXCEPT !.block = 1] \in [block : {1}, gen : {NoRow.gen}, attempts : Nat, error : Errors,
                                         deferred : {NoRow.deferred}]
        BY NoRowType DEF StillRow
    <3>3. NoRow.gen \in Nat /\ NoRow.deferred \in Logs
        BY NoRowType DEF StillRow
    <3> HIDE DEF q
    <3> QED
        BY <2>2, <3>1, <3>2, <3>3 DEF StillRow
  <2> QED
      BY <2>1, <2>2
<1>3. Deferred(r, logs) = [q EXCEPT !.deferred = q.deferred \cup logs, !.gen = q.gen + 1]
    BY DEF Deferred, b
<1> HIDE DEF q
<1>4. q.deferred \cup logs \in Logs /\ q.gen + 1 \in Nat
    BY <1>2 DEF StillRow, Logs
<1>5. [q EXCEPT !.deferred = q.deferred \cup logs, !.gen = q.gen + 1]
        \in [block : {q.block}, gen : {q.gen + 1}, attempts : Nat, error : Errors,
             deferred : {q.deferred \cup logs}]
    BY <1>2 DEF StillRow
<1> QED
    BY <1>2, <1>3, <1>4, <1>5 DEF StillRow

LEMMA SeedQueueStill == Still /\ (\E t \in Tx : SeedQueue(t)) => Still'
<1> SUFFICES ASSUME Still, NEW t \in Tx, SeedQueue(t) PROVE Still'
    OBVIOUS
<1> DEFINE logs == {l \in seed[t].logs : l[1] \notin Verified}
<1>1. seed[t].stage = "read" /\ held[t] = 1 /\ Liquidity(t) # {} /\ logs \in Logs
    BY StillTx DEF SeedQueue, SeedKept, Still, WorkTypes, Logs
<1>2. row' = [row EXCEPT ![t] = IF logs = {} THEN row[t] ELSE Deferred(row[t], logs)]
    BY DEF SeedQueue
<1> HIDE DEF logs
<1>3. row'[t] = (IF logs = {} THEN row[t] ELSE Deferred(row[t], logs))
    BY <1>2 DEF Still, StoreTypes
<1>4. row[t] \in StillRow /\ (row[t].block = 1 \/ row[t] = NoRow)
    BY StillTx DEF RowKept, Pending, StillRow
<1>5. /\ row'[t] \in StillRow /\ row[t].deferred \subseteq row'[t].deferred
      /\ row'[t] # row[t] => row'[t].block = 1 /\ row'[t].gen = row[t].gen + 1
    BY <1>1, <1>3, <1>4, DeferredIs
<1>6. UNCHANGED <<at, held, events, receipts, replayed, known, cached, checked, clearing>>
      /\ UNCHANGED <<memoryVars, enrichVars, replay, verdict>>
    BY DEF SeedQueue, memoryVars, replayVars
<1>7. StoreTypes'
  <2>1. row' \in [Tx -> StillRow]
      BY <1>2, <1>3, <1>5 DEF Still, StoreTypes
  <2> QED
      BY <1>6, <2>1 DEF Still, StoreTypes
<1>8. seed' = [seed EXCEPT ![t] = [stage |-> "done", logs |-> {}]] /\ seed'[t].stage = "done"
    BY DEF SeedQueue, Still, WorkTypes
<1>9. WorkTypes'
  <2>1. {} \in Logs
      BY DEF Logs
  <2>2. seed' \in [Tx -> [stage : {"new", "read", "done"}, logs : Logs]]
      BY <1>8, <2>1 DEF Still, WorkTypes
  <2> QED
      BY <1>6, <2>2 DEF Still, WorkTypes, enrichVars
<1>10. \A s \in Tx : s # t => SameTables(s) /\ replay'[s] = replay[s] /\ seed'[s] = seed[s]
  <2>1. \A s \in Tx : s # t => row'[s] = row[s] /\ seed'[s] = seed[s]
      BY <1>2, <1>8 DEF Still, StoreTypes, WorkTypes
  <2> QED
      BY <1>6, <2>1 DEF SameTables
<1>11. JobKept(t)'
  <2>1. CASE row'[t] = row[t]
    <3>1. SameTables(t) /\ job' = job
        BY <1>6, <2>1 DEF SameTables, enrichVars
    <3> QED
        BY <3>1, SameTablesKeeps
  <2>2. CASE row'[t] # row[t] /\ Pending(t)
    <3>1. Pending(t)'
        BY <1>5, <2>2 DEF Pending
    <3> QED
        BY <1>5, <1>6, <2>2, <3>1, NewerRow DEF enrichVars
  <2>3. CASE ~Pending(t)
    <3>1. job[t] = NoJob
        BY <1>1, <2>3, StillTx DEF JobKept
    <3> QED
        BY <1>6, <3>1 DEF JobKept, enrichVars
  <2> QED
      BY <2>1, <2>2, <2>3
<1>12. RowKept(t)'
  <2>1. CASE row'[t] = row[t]
    <3>1. SameTables(t)
        BY <1>6, <2>1 DEF SameTables
    <3> QED
        BY <3>1, SameTablesKeeps
  <2>2. CASE row'[t] # row[t]
      BY <1>1, <1>5, <1>6, <2>2, StillTx DEF RowKept, Pending
  <2> QED
      BY <2>1, <2>2
<1>13. ReplayKept(t)'
    BY <1>6, StillTx DEF ReplayKept, Verified
<1>14. SeedKept(t)'
    BY <1>8 DEF SeedKept
<1>15. OwedAt(t)'
  <2>1. Pending(t)' \/ row'[t] = row[t]
      BY <1>5 DEF Pending
  <2> QED
      BY <1>6, <2>1, KeptAtIs DEF KeptAt, OwedAt, Pending, Liquidity
<1>16. LoggedAt(t)'
  <2>1. PoolsOf(row[t].deferred) \subseteq PoolsOf(row'[t].deferred)
      BY <1>5 DEF PoolsOf
  <2>2. LoggedAt(t)
      BY KeptAtIs DEF KeptAt
  <2> QED
      BY <1>6, <2>1, <2>2 DEF LoggedAt
<1>17. KeptAt(t)'
    BY <1>11, <1>12, <1>13, <1>14, <1>15, <1>16 DEF KeptAt
<1> QED
    BY <1>6, <1>7, <1>9, <1>10, <1>17, OneStill

LEMMA IngestStill == Still /\ (\E t \in Tx : IngestInterval(t)) => Still'
<1> SUFFICES ASSUME Still, NEW t \in Tx, IngestInterval(t) PROVE Still'
    OBVIOUS
<1> DEFINE decoded == Touch[t] \cap (Verified \cup V4)
           unknown == Touch[t] \ Verified
<1>1. PICK later \in (IF t \in Overflow THEN SUBSET unknown ELSE {unknown}) :
        /\ held[t] = 0
        /\ held' = [held EXCEPT ![t] = at[t]]
        /\ events' = [events EXCEPT ![t] = decoded]
        /\ known' = known \cup (decoded \cap cached)
        /\ row' = [row EXCEPT ![t] = Commit(t, later, decoded)]
    BY DEF IngestInterval
<1>2. later \subseteq unknown /\ (t \notin Overflow => later = unknown)
    BY <1>1
<1>3. unknown \subseteq Pool /\ decoded \subseteq Pool /\ Touch[t] \subseteq decoded \cup unknown
      /\ decoded \subseteq V4 \cup known \cup (decoded \cap cached)
    BY QueueAssumption DEF Verified
<1> HIDE DEF decoded, unknown
<1>4. /\ row[t] = NoRow /\ events[t] = {} /\ job[t] = NoJob /\ replay[t] = NoReplay
      /\ seed[t].stage # "read" /\ at[t] = 1
    BY <1>1, StillTx DEF RowKept, JobKept, ReplayKept, SeedKept
<1>5. held'[t] = 1 /\ events'[t] = decoded /\ row'[t] = Commit(t, later, decoded)
    BY <1>1, <1>4 DEF Still, StoreTypes
<1>6. /\ row'[t] \in StillRow
      /\ \/ row'[t].block = 1 /\ row'[t].deferred = later \X {1}
         \/ row'[t] = NoRow /\ later = {} /\ decoded \cap Lp[t] = {}
  <2>1. CASE later # {}
    <3>1. later \X {1} \in Logs /\ later \X {1} # {}
      <4>1. PICK p \in later : TRUE
          BY <2>1
      <4>2. <<p, 1>> \in later \X {1}
          OBVIOUS
      <4>3. later \subseteq Pool
          BY <1>2, <1>3
      <4> QED
          BY <4>2, <4>3 DEF Logs
    <3>2. row'[t] = Deferred(NoRow, later \X {1})
        BY <1>4, <1>5, <2>1 DEF Commit
    <3>3. /\ Deferred(NoRow, later \X {1}) \in StillRow /\ Deferred(NoRow, later \X {1}).block = 1
          /\ Deferred(NoRow, later \X {1}).deferred = NoRow.deferred \cup (later \X {1})
        BY <3>1, NoRowType, DeferredIs
    <3>4. NoRow.deferred \cup (later \X {1}) = later \X {1}
        BY DEF NoRow
    <3> QED
        BY <3>2, <3>3, <3>4
  <2>2. CASE later = {} /\ decoded \cap Lp[t] # {}
    <3>1. row'[t] = [NoRow EXCEPT !.block = 1]
        BY <1>4, <1>5, <2>2 DEF Commit, Queued, NoRow
    <3>2. [NoRow EXCEPT !.block = 1] \in [block : {1}, gen : Nat, attempts : Nat, error : Errors,
                                         deferred : {NoRow.deferred}]
        BY NoRowType DEF StillRow
    <3>3. NoRow.deferred = {} /\ {} \in Logs
        BY DEF NoRow, Logs
    <3>4. row'[t] \in StillRow /\ row'[t].block = 1 /\ row'[t].deferred = {}
        BY <3>1, <3>2, <3>3 DEF StillRow
    <3>5. later \X {1} = {}
        BY <2>2
    <3> QED
        BY <3>4, <3>5
  <2>3. CASE later = {} /\ decoded \cap Lp[t] = {}
      BY <1>4, <1>5, <2>3, NoRowType DEF Commit
  <2> QED
      BY <2>1, <2>2, <2>3
<1>7. UNCHANGED <<at, receipts, replayed, cached, checked, clearing, job, coord, replay, seed, verdict>>
      /\ UNCHANGED <<memoryVars, enrichVars>>
    BY DEF IngestInterval, memoryVars, enrichVars, replayVars
<1>8. StoreTypes'
  <2>1. row' \in [Tx -> StillRow]
      BY <1>1, <1>5, <1>6 DEF Still, StoreTypes
  <2>2. held' \in [Tx -> {0, 1}] /\ events' \in [Tx -> SUBSET Pool] /\ known' \subseteq Pool
      BY <1>1, <1>3, <1>4 DEF Still, StoreTypes
  <2> QED
      BY <1>7, <2>1, <2>2 DEF Still, StoreTypes
<1>9. WorkTypes'
    BY <1>7 DEF Still, WorkTypes
<1>10. \A s \in Tx : s # t => SameTables(s) /\ replay'[s] = replay[s] /\ seed'[s] = seed[s]
  <2>1. \A s \in Tx : s # t => row'[s] = row[s] /\ held'[s] = held[s] /\ events'[s] = events[s]
      BY <1>1 DEF Still, StoreTypes
  <2> QED
      BY <1>1, <1>7, <2>1 DEF SameTables
<1>11. RowKept(t)'
  <2>1. replayed[t] \subseteq known
      BY StillTx DEF RowKept
  <2>2. row'[t].block = 0 => row'[t] = NoRow
      BY <1>6
  <2> QED
      BY <1>1, <1>3, <1>5, <1>7, <2>1, <2>2 DEF RowKept, Pending
<1>12. JobKept(t)' /\ ReplayKept(t)' /\ SeedKept(t)'
    BY <1>4, <1>7 DEF JobKept, ReplayKept, SeedKept, NoReplay
<1>13. OwedAt(t)'
    BY <1>5, <1>6 DEF OwedAt, Pending, Liquidity
<1>14. LoggedAt(t)'
  <2> SUFFICES ASSUME t \notin Overflow PROVE Touch[t] \cap Real \subseteq events'[t] \cup PoolsOf(row'[t].deferred)
      BY DEF LoggedAt
  <2>1. Touch[t] \subseteq decoded \cup later
      BY <1>2, <1>3
  <2>2. CASE row'[t].deferred = later \X {1}
    <3>1. PoolsOf(later \X {1}) = later
        BY PoolsOfAt
    <3>2. later \subseteq PoolsOf(row'[t].deferred)
        BY <2>2, <3>1 DEF PoolsOf
    <3> QED
        BY <1>5, <2>1, <3>2
  <2>3. CASE later = {}
      BY <1>5, <2>1, <2>3
  <2> QED
      BY <1>6, <2>2, <2>3
<1>15. KeptAt(t)'
    BY <1>11, <1>12, <1>13, <1>14 DEF KeptAt
<1>16. known \subseteq known'
    BY <1>1
<1> QED
    BY <1>7, <1>8, <1>9, <1>10, <1>15, <1>16, OneStill

LEMMA RestartStill == Still /\ Restart => Still'
<1> SUFFICES ASSUME Still, Restart PROVE Still'
    OBVIOUS
<1>1. UNCHANGED <<at, held, events, receipts, replayed, known, row>>
    BY DEF Restart, storeVars
<1>2. StoreTypes'
    BY <1>1 DEF Restart, Still, StoreTypes
<1>3. WorkTypes'
    BY DEF Restart, WorkTypes, StillJob, StillReplay, Errors, Logs, NoJob, Idle, NoReplay, NoVerdict, Unseeded
<1>4. CheckedKept' /\ CoordKept'
    BY DEF Restart, CheckedKept, CoordKept, Idle
<1>5. \A t \in Tx : SameTables(t)
    BY <1>1 DEF SameTables
<1>6. RowsKept' /\ EvidenceOwed' /\ NoLogLost'
    BY <1>5, SameTablesKeeps, SameTablesSettled DEF RowsKept
<1>7. JobsKept'
    BY DEF Restart, JobsKept, JobKept
<1>8. ReplaysKept' /\ SeedsKept'
    BY DEF Restart, ReplaysKept, ReplayKept, SeedsKept, SeedKept, NoReplay, Unseeded
<1> QED
    BY <1>2, <1>3, <1>4, <1>6, <1>7, <1>8 DEF Still

LEMMA StutterStill == Still /\ UNCHANGED vars => Still'
<1> SUFFICES ASSUME Still, UNCHANGED vars PROVE Still'
    OBVIOUS
<1>1. Steady /\ UNCHANGED <<job, coord, replay, verdict, seed>>
    BY DEF vars, storeVars, enrichVars, replayVars, Steady, Still, StoreTypes
<1>2. WorkTypes'
    BY <1>1 DEF Still, WorkTypes
<1> QED
    BY <1>1, <1>2, SteadyKeeps DEF Still

-----------------------------------------------------------------------------

LEMMA StillNext == Still /\ [Next]_vars => Still' \/ forks' = forks + 1
<1> SUFFICES ASSUME Still, [Next]_vars PROVE Still' \/ forks' = forks + 1
    OBVIOUS
<1>1. CASE \E p \in Tx : Reorg(p)
    BY <1>1 DEF Reorg
<1>2. CASE LaneStep
  <2>1. ~RecoverLive
      BY NothingOrphaned DEF RecoverLive
  <2>2. ~ClearCaches
      BY DEF ClearCaches, Still, StoreTypes
  <2> QED
      BY <1>2, <2>1, <2>2, IngestStill DEF LaneStep
<1>3. CASE EnrichStep
  <2>1. \A done \in SUBSET Completed : ~CollectOrphan(done)
      BY NothingOrphaned DEF CollectOrphan, Completed
  <2>2. ~PublishConflict
      BY NothingOrphaned DEF PublishConflict, Publishable
  <2> QED
      BY <1>3, <2>1, <2>2, FillJobsStill, FetchEvidenceStill, CollectStill, MarkFailuresStill, PublishStill
      DEF EnrichStep
<1>4. CASE ReplayStep
  <2>1. \A t \in Tx : ~ReplayOrphaned(t)
      BY StillTx DEF ReplayOrphaned, ReplayKept
  <2>2. \A t \in Tx : ~ReplayMismatch(t)
    <3> SUFFICES ASSUME NEW t \in Tx, replay[t].stage = "read", NEW l \in replay[t].logs
                 PROVE  l[2] = replay[t].block
        BY DEF ReplayMismatch
    <3>1. replay[t].block = 1 /\ replay[t].logs \in Logs
        BY StillTx DEF ReplayKept, StillReplay
    <3> QED
        BY <3>1 DEF Logs
  <2> QED
      BY <1>4, <2>1, <2>2, ReplaySelectStill, ReplayPrepareStill, ReplayResolveStill, ReplayDecodeStill,
         ReplayPublishStill, ReplayFailsStill, ReplaySkipStill
      DEF ReplayStep
<1>5. CASE SeedStep
    BY <1>5, SeedReadStill, SeedQueueStill DEF SeedStep
<1> QED
    BY <1>1, <1>2, <1>3, <1>4, <1>5, LearnPoolStill, FetchFailsStill, PublishFailsStill, RestartStill,
       StutterStill DEF Next

LEMMA StillStep == StillInv /\ [Next]_vars => StillInv'
<1> SUFFICES ASSUME StillInv, [Next]_vars PROVE StillInv'
    OBVIOUS
<1>1. forks' = forks \/ forks' = forks + 1
    BY DEF Next, Reorg, LearnPool, LaneStep, IngestInterval, RecoverLive, ClearCaches, EnrichStep, FillJobs,
       FetchEvidence, CollectOrphan, Collect, MarkFailures, Publish, PublishConflict, FetchFails,
       PublishFails, ReplayStep, ReplaySelect, ReplayOrphaned, ReplayMismatch, ReplayPrepare,
       ReplayResolve, ReplayDecode, ReplayPublish, ReplayFails, ReplaySkip, SeedStep, SeedRead,
       SeedQueue, Restart, vars
<1> QED
    BY <1>1, StillNext DEF StillInv

LEMMA StillInvariant == Spec => []StillInv
<1>1. Init => StillInv
    BY StillInit DEF Init, StillInv
<1> QED
    BY <1>1, StillStep, PTL DEF Spec

\* _enrich_once drops evidence of a row another commit has touched, and a replay ends
\* a marker with the row it read: until the chain reorganises, for any transactions,
\* pools, faults and restarts, a stored liquidity event has a queued job, or receipt
\* evidence of its block that covers it and the pools replays had verified by then.
THEOREM EvidenceStaysOwed == Spec => [](forks = 0 => EvidenceOwed)
<1>1. StillInv => (forks = 0 => EvidenceOwed)
    BY DEF StillInv, Still
<1> QED
    BY <1>1, StillInvariant, PTL

\* Deferred logs are queued in the transaction that stores their interval, and leave
\* the queue in the one that stores their events: until the chain reorganises, every
\* log of a confirmed pool in a stored transaction is an event or is still deferred,
\* through failures of the provider, late seeding and restarts.
THEOREM LogsStayKept == Spec => [](forks = 0 => NoLogLost)
<1>1. StillInv => (forks = 0 => NoLogLost)
    BY DEF StillInv, Still
<1> QED
    BY <1>1, StillInvariant, PTL

-----------------------------------------------------------------------------
\* The deferred accounting.

EventType == [key : Keys, owner : Holders]
LedgerRow == [id : Ids, owner : Holders]
PendingType == [gen : Nat, append : BOOLEAN, cost : BOOLEAN, ready : BOOLEAN, cursor : Nat]

BookTypes ==
    /\ ev \in [Ids -> EventType \cup {NULL}]
    /\ keyOf \in [Ids -> Keys \cup {NULL}]
    /\ eff \in [Ids -> EventType \cup {NULL}]
    /\ posn \in [Keys -> (SUBSET LedgerRow) \cup {NULL}]
    /\ pending \in [Keys -> PendingType \cup {NULL}]
    /\ epoch \in Nat /\ cursor \in Nat /\ pass \subseteq Keys /\ posLeft \subseteq Keys
    /\ hp # NULL => hp.key \in Keys /\ hp.next \in Nat /\ hp.complete \in BOOLEAN
    /\ phase \in {"events", "stale", "positions", "complete"}
    /\ phase \in {"events", "stale"} => posLeft = Keys

\* Effects are kept for positions that are kept.
EffectsOwned == \A i \in Ids : eff[i] # NULL => posn[eff[i].key] # NULL

\* What the bootstrap has not come to: an event, a position it will queue.
Unvisited(i) == phase = "events" /\ i > cursor
Due(k) == phase # "complete" /\ k \in posLeft /\ posn[k] # NULL

Rows(k) == IF posn[k] = NULL THEN {} ELSE posn[k]
Visited(k) == {i \in Mapped(k) : ~Unvisited(i)}
Agrees(i, k) == eff[i] = [key |-> k, owner |-> ev[i].owner]

\* An event that no preparation but the position's own would write.
Untaken(i, k) ==
    /\ eff[i] = NULL
    /\ \A p \in prep : p.epoch = epoch /\ p.key # k => \A r \in p.writes : r.id # i

\* The position is derived from exactly its events.
Exact(k) ==
    /\ Rows(k) = EffectRows(Visited(k))
    /\ \A i \in Visited(k) : Agrees(i, k)
    /\ EffectsOf(eff, k) \subseteq Visited(k)

\* The position is derived from exactly some of its events, the others are new.
Extendable(k) ==
    /\ Rows(k) = EffectRows(EffectsOf(eff, k))
    /\ \A i \in EffectsOf(eff, k) : i \in Mapped(k) /\ Agrees(i, k)
    /\ \A i \in Visited(k) : i \in EffectsOf(eff, k) \/ Untaken(i, k)

PositionsOK ==
    \A k \in Keys : ~Due(k) =>
        /\ pending[k] = NULL \/ pending[k].cost => Exact(k)
        /\ pending[k] # NULL /\ pending[k].append => Extendable(k)

IdsOf(rows) == {r.id : r \in rows}

\* The preparation still fits: published now, it leaves the position exact, or
\* extendable when new events joined it meanwhile.
Fits(p) ==
    LET M == IdsOf(p.rows)
    IN  /\ M \subseteq Mapped(p.key) /\ p.rows = EffectRows(M)
        /\ \A i \in M : i \notin p.deletes
                        /\ (Agrees(i, p.key) \/ [id |-> i, owner |-> ev[i].owner] \in p.writes)
        /\ EffectsOf(eff, p.key) \subseteq M \cup p.deletes
        /\ pending[p.key].gen = p.gen => M = Mapped(p.key)
        /\ \A i \in Visited(p.key) : i \in M \/ Untaken(i, p.key)

PrepType(p) ==
    /\ p.key \in Keys \ pass /\ p.gen \in Nat /\ p.epoch \in Nat /\ p.epoch <= epoch /\ p.ran \in BOOLEAN
    /\ p.rows \subseteq LedgerRow /\ p.writes \subseteq LedgerRow /\ p.deletes \subseteq Ids

\* Its row of the queue is still there, with no more proofs than it had.
Counted(p) ==
    /\ pending[p.key] # NULL /\ p.gen <= pending[p.key].gen
    /\ p.ran => ~pending[p.key].cost
    /\ ~p.ran => /\ p.writes = {} /\ p.deletes = {}
                 /\ p.gen = pending[p.key].gen => pending[p.key].cost

Fitting(p) ==
    /\ p.writes \subseteq p.rows
    /\ p.rows = {} => EffectsOf(eff, p.key) \subseteq p.deletes
    /\ \A r \in p.writes : keyOf[r.id] # NULL
    /\ /\ pending[p.key].gen = p.gen \/ pending[p.key].append
       /\ phase = "complete" \/ p.key \notin posLeft \/ p.rows = {}
       => Fits(p)

PrepsOK ==
    /\ \A p, q \in prep : p.key = q.key => p = q
    /\ \A p \in prep : PrepType(p) /\ Counted(p)
    /\ \A p \in prep : p.epoch = epoch /\ p.ran => Fitting(p)

BooksInv == BookTypes /\ EffectsOwned /\ PositionsOK /\ PrepsOK /\ CleanMeansDone

LEMMA BooksNull ==
    /\ NULL \notin EventType /\ NULL \notin SUBSET LedgerRow /\ NULL \notin PendingType
    /\ NULL \notin Keys /\ NULL \notin Holders
BY BooksAssumption DEF EventType, LedgerRow, PendingType

LEMMA BooksInitInv == BooksInit => BooksInv
<1> SUFFICES ASSUME BooksInit PROVE BooksInv
    OBVIOUS
<1>1. PICK start \in Legacy :
        /\ ev = start.ev /\ keyOf = start.keyOf /\ posn = start.posn /\ phase = start.phase
        /\ dirty = (start.phase # "complete") /\ pending = [k \in Keys |-> NULL] /\ count = 0
        /\ eff = start.eff /\ epoch = 0 /\ cursor = 0 /\ posLeft = Keys /\ pass = {} /\ prep = {}
        /\ hp = NULL
    BY DEF BooksInit
<1>2. BookTypes
    BY <1>1, LegacyAssumption DEF BookTypes, EventType, LedgerRow
<1>3. EffectsOwned
    BY <1>1, LegacyAssumption DEF EffectsOwned, CostsConsistent
<1>4. PrepsOK
    BY <1>1 DEF PrepsOK
<1>5. \A k \in Keys : pending[k] = NULL
    BY <1>1
<1>6. ASSUME NEW k \in Keys, ~Due(k) PROVE Exact(k)
  <2>1. CASE phase = "complete"
    <3>1. Visited(k) = Mapped(k)
        BY <2>1 DEF Visited, Unvisited
    <3>2. Mapped(k) = {i \in Ids : start.ev[i] # NULL /\ start.keyOf[i] = k}
        BY <1>1 DEF Mapped, Stored
    <3>3. /\ Rows(k) = {[id |-> i, owner |-> ev[i].owner] : i \in Mapped(k)}
          /\ \A i \in Mapped(k) : eff[i] = [key |-> k, owner |-> ev[i].owner]
          /\ EffectsOf(eff, k) \subseteq Mapped(k)
      <4> DEFINE mapped == {i \in Ids : start.ev[i] # NULL /\ start.keyOf[i] = k}
      <4>1. /\ (IF start.posn[k] = NULL THEN {} ELSE start.posn[k])
                 = {[id |-> i, owner |-> start.ev[i].owner] : i \in mapped}
            /\ \A i \in mapped : start.eff[i] = [key |-> k, owner |-> start.ev[i].owner]
            /\ EffectsOf(start.eff, k) \subseteq mapped
        <5>1. DerivedExactly(start, k)
            BY <1>1, <2>1, LegacyAssumption
        <5> QED
            BY <5>1 DEF DerivedExactly
      <4> QED
          BY <1>1, <3>2, <4>1 DEF Rows
    <3> QED
        BY <3>1, <3>3 DEF Exact, EffectRows, Agrees
  <2>2. CASE phase # "complete"
    <3>1. posn[k] = NULL /\ phase = "events"
        BY <1>1, <1>6, <2>2, LegacyAssumption DEF Due
    <3>2. Visited(k) = {}
      <4>1. \A i \in Ids : i > cursor
          BY <1>1, BooksAssumption
      <4> QED
          BY <3>1, <4>1 DEF Visited, Unvisited, Mapped, Stored
    <3>3. EffectsOf(eff, k) = {}
        BY <1>3, <3>1 DEF EffectsOwned, EffectsOf
    <3> QED
        BY <3>1, <3>2, <3>3 DEF Exact, Rows, EffectRows
  <2> QED
      BY <2>1, <2>2
<1>7. CleanMeansDone
  <2>1. {k \in Keys : pending[k] # NULL} = {}
      BY <1>5
  <2>2. Cardinality({k \in Keys : pending[k] # NULL}) = 0
      BY <2>1, FS_EmptySet
  <2> QED
      BY <1>1, <1>5, <2>2 DEF CleanMeansDone, Published
<1> QED
    BY <1>2, <1>3, <1>4, <1>5, <1>6, <1>7 DEF BooksInv, PositionsOK

-----------------------------------------------------------------------------
\* What leaves one position alone.

SamePosition(k) ==
    /\ Mapped(k)' = Mapped(k)
    /\ \A i \in Mapped(k) : ev'[i] = ev[i] /\ (Unvisited(i)' <=> Unvisited(i))
    /\ EffectsOf(eff, k)' \subseteq EffectsOf(eff, k)
    /\ \A i \in EffectsOf(eff, k) : i \in Mapped(k) => eff'[i] = eff[i]
    /\ posn'[k] = posn[k]
    /\ \A i \in Mapped(k) : Untaken(i, k) => Untaken(i, k)'

LEMMA AgreesIs ==
    ASSUME BookTypes, NEW k \in Keys, NEW i \in Mapped(k), Agrees(i, k)
    PROVE  i \in EffectsOf(eff, k)
<1>1. i \in Ids /\ ev[i] \in EventType
    BY DEF Mapped, Stored, BookTypes
<1>2. eff[i] \in EventType
    BY <1>1 DEF Agrees, EventType
<1> QED
    BY <1>1, <1>2, BooksNull DEF Agrees, EffectsOf

\* Nobody takes an effect of an event that is mapped to the position.
LEMMA SameEffects ==
    ASSUME NEW k, SamePosition(k), EffectsOf(eff, k) \subseteq Mapped(k)
    PROVE  /\ EffectsOf(eff, k)' = EffectsOf(eff, k)
           /\ \A i \in EffectsOf(eff, k) : eff'[i] = eff[i]
<1>1. \A i \in EffectsOf(eff, k) : eff'[i] = eff[i]
    BY DEF SamePosition
<1>2. EffectsOf(eff, k) \subseteq EffectsOf(eff, k)'
    BY <1>1 DEF EffectsOf
<1> QED
    BY <1>1, <1>2 DEF SamePosition

LEMMA SamePositionKeeps ==
    ASSUME BookTypes, NEW k \in Keys, SamePosition(k)
    PROVE  /\ Exact(k) => Exact(k)'
           /\ Extendable(k) => Extendable(k)'
<1>1. Visited(k)' = Visited(k) /\ Rows(k)' = Rows(k)
    BY DEF SamePosition, Visited, Rows
<1>2. Mapped(k)' = Mapped(k) /\ Visited(k) \subseteq Mapped(k)
    BY DEF Visited, SamePosition
<1>3. \A i \in Mapped(k) : Agrees(i, k) => i \in EffectsOf(eff, k)
    BY AgreesIs
<1>4. \A i \in Mapped(k) : Agrees(i, k) => Agrees(i, k)'
    BY <1>3 DEF SamePosition, Agrees
<1>5. ASSUME Exact(k) PROVE Exact(k)'
  <2>1. EffectRows(Visited(k))' = EffectRows(Visited(k))
    <3>1. EffectRows(Visited(k))' = {[id |-> i, owner |-> ev'[i].owner] : i \in Visited(k)}
        BY <1>1 DEF EffectRows
    <3> QED
        BY <1>2, <3>1 DEF EffectRows, SamePosition
  <2>2. EffectsOf(eff, k)' = EffectsOf(eff, k)
      BY <1>2, <1>5, SameEffects DEF Exact
  <2> QED
      BY <1>1, <1>2, <1>4, <1>5, <2>1, <2>2 DEF Exact
<1>6. ASSUME Extendable(k) PROVE Extendable(k)'
  <2>1. EffectsOf(eff, k) \subseteq Mapped(k) /\ EffectsOf(eff, k)' = EffectsOf(eff, k)
      BY <1>6, SameEffects DEF Extendable
  <2>2. EffectRows(EffectsOf(eff, k))' = EffectRows(EffectsOf(eff, k))
    <3>1. EffectRows(EffectsOf(eff, k))' = {[id |-> i, owner |-> ev'[i].owner] : i \in EffectsOf(eff, k)}
        BY <2>1 DEF EffectRows
    <3> QED
        BY <2>1, <3>1 DEF EffectRows, SamePosition
  <2>3. \A i \in Mapped(k) : Untaken(i, k) => Untaken(i, k)'
      BY DEF SamePosition
  <2> QED
      BY <1>1, <1>2, <1>4, <1>6, <2>1, <2>2, <2>3 DEF Extendable
<1> QED
    BY <1>5, <1>6

\* A preparation of a position left alone fits as it did.
LEMMA SamePositionFits ==
    ASSUME BookTypes, NEW p, PrepType(p), SamePosition(p.key), Fits(p),
           pending'[p.key].gen = p.gen => pending[p.key].gen = p.gen
    PROVE  Fits(p)'
<1> DEFINE k == p.key
           M == IdsOf(p.rows)
<1>1. Visited(k)' = Visited(k) /\ Mapped(k)' = Mapped(k) /\ Visited(k) \subseteq Mapped(k)
    BY DEF SamePosition, Visited
<1>2. EffectsOf(eff, k)' \subseteq EffectsOf(eff, k)
    BY DEF SamePosition
<1>3. M \subseteq Mapped(k) /\ p.rows = EffectRows(M)
    BY DEF Fits
<1>4. EffectRows(M)' = EffectRows(M)
    BY <1>3 DEF EffectRows, SamePosition
<1>5. \A i \in M : Agrees(i, k) => Agrees(i, k)'
    BY <1>3, AgreesIs DEF PrepType, SamePosition, Agrees
<1>6. \A i \in M : ev'[i] = ev[i]
    BY <1>3 DEF SamePosition
<1>7. \A i \in Visited(k) : Untaken(i, k) => Untaken(i, k)'
    BY <1>1 DEF SamePosition
<1> QED
    BY <1>1, <1>2, <1>3, <1>4, <1>5, <1>6, <1>7 DEF Fits

-----------------------------------------------------------------------------
\* Queueing.

LEMMA QueuedIs ==
    ASSUME BookTypes, NEW K, NEW append, NEW costOnly, NEW hinted \in BOOLEAN, NEW k \in Keys,
           pending' = QueuedKeys(K, append, costOnly, hinted)
    PROVE  /\ k \notin K => pending'[k] = pending[k]
           /\ k \in K => /\ pending'[k] \in PendingType /\ pending'[k] # NULL
                         /\ pending[k] # NULL => pending'[k].gen = pending[k].gen + 1
                         /\ pending'[k].append => k \in append /\ (pending[k] = NULL \/ pending[k].append)
                         /\ pending'[k].cost => k \in costOnly /\ (pending[k] = NULL \/ pending[k].cost)
<1> DEFINE r == IF pending[k] # NULL THEN pending[k]
                ELSE [gen |-> 0, append |-> k \in append, cost |-> k \in costOnly,
                      ready |-> hinted, cursor |-> 0]
           q == [gen |-> r.gen + 1, append |-> r.append /\ k \in append,
                 cost |-> r.cost /\ k \in costOnly,
                 ready |-> r.ready /\ hinted, cursor |-> IF hinted THEN r.cursor ELSE 0]
<1>1. pending'[k] = IF k \notin K THEN pending[k] ELSE q
    BY DEF QueuedKeys
<1>2. r \in PendingType
    BY DEF BookTypes, PendingType
<1>3. q \in PendingType
  <2> HIDE DEF r
  <2> QED
      BY <1>2 DEF PendingType
<1>4. q # NULL
    BY <1>3, BooksNull
<1>5. /\ q.gen = r.gen + 1 /\ (q.append <=> r.append /\ k \in append)
      /\ (q.cost <=> r.cost /\ k \in costOnly)
  <2> HIDE DEF r
  <2> QED
      BY <1>2 DEF PendingType
<1>6. /\ pending[k] # NULL => r = pending[k]
      /\ pending[k] = NULL => (r.append <=> k \in append) /\ (r.cost <=> k \in costOnly)
    OBVIOUS
<1> HIDE DEF q, r
<1> QED
    BY <1>1, <1>3, <1>4, <1>5, <1>6

LEMMA RequeueClean ==
    ASSUME BookTypes, CleanMeansDone, NEW K \in SUBSET Keys, NEW append, NEW costOnly,
           NEW hinted \in BOOLEAN, Requeue(K, append, costOnly, hinted),
           phase = "complete" => phase' = "complete"
    PROVE  CleanMeansDone' /\ pending' \in [Keys -> PendingType \cup {NULL}]
<1>1. pending' = QueuedKeys(K, append, costOnly, hinted) /\ DOMAIN pending' = Keys
    BY DEF Requeue, QueuedKeys
<1>2. \A k \in Keys : /\ k \notin K => pending'[k] = pending[k]
                      /\ k \in K => pending'[k] \in PendingType /\ pending'[k] # NULL
    BY <1>1, QueuedIs
<1>3. pending' \in [Keys -> PendingType \cup {NULL}]
    BY <1>1, <1>2 DEF Requeue, QueuedKeys, BookTypes
<1> DEFINE old == {k \in Keys : pending[k] # NULL}
           new == {k \in K : pending[k] = NULL}
           all == {k \in Keys : pending'[k] # NULL}
<1>4. all = old \cup new /\ old \cap new = {} /\ old \subseteq Keys /\ new \subseteq Keys
    BY <1>2
<1>5. IsFiniteSet(old) /\ IsFiniteSet(new)
    BY <1>4, FS_Subset, BooksAssumption
<1>6. Cardinality(all) = Cardinality(old) + Cardinality(new)
  <2> HIDE DEF all, old, new
  <2>1. Cardinality(old) \in Nat /\ Cardinality(new) \in Nat /\ Cardinality({}) = 0
      BY <1>5, FS_CardinalityType, FS_EmptySet
  <2>2. Cardinality(old \cup new) = Cardinality(old) + Cardinality(new) - Cardinality(old \cap new)
      BY <1>5, FS_Union
  <2>3. Cardinality(all) = Cardinality(old \cup new)
      BY <1>4
  <2>4. Cardinality(old \cap new) = 0
      BY <1>4, <2>1
  <2> QED
      BY <2>1, <2>2, <2>3, <2>4
<1>7. count' = Cardinality(all)
    BY <1>6 DEF Requeue, CleanMeansDone
<1>8. ASSUME ~dirty', NEW k \in Keys PROVE Published(k)'
  <2>1. K = {} /\ (~dirty \/ BooksIdle(pending, phase'))
      BY <1>8 DEF Requeue
  <2>2. \A x \in Keys : pending'[x] = pending[x]
      BY <1>2, <2>1
  <2> QED
      BY <2>1, <2>2 DEF CleanMeansDone, Published, BooksIdle
<1> QED
    BY <1>3, <1>7, <1>8 DEF CleanMeansDone

-----------------------------------------------------------------------------
\* Steps that change no ledger, no event and no proof of the queue.

LEMMA QuietKeeps ==
    ASSUME BooksInv, UNCHANGED <<ev, keyOf, eff, posn, epoch, phase, cursor, posLeft>>,
           prep' \subseteq prep, pass' \subseteq Keys, prep' = {} \/ pass' \subseteq pass,
           pending' \in [Keys -> PendingType \cup {NULL}],
           \A k \in Keys : /\ pending'[k] = NULL <=> pending[k] = NULL
                          /\ pending'[k].gen = pending[k].gen
                          /\ pending'[k].append = pending[k].append
                          /\ pending'[k].cost = pending[k].cost,
           CleanMeansDone',
           hp' # NULL => hp'.key \in Keys /\ hp'.next \in Nat /\ hp'.complete \in BOOLEAN
    PROVE  BooksInv'
<1> USE DEF BooksInv
<1>1. BookTypes'
    BY DEF BookTypes
<1>2. EffectsOwned'
    BY DEF EffectsOwned
<1>3. \A k \in Keys : SamePosition(k)
  <2>1. ASSUME NEW k \in Keys, NEW i \in Mapped(k), Untaken(i, k) PROVE Untaken(i, k)'
      BY <2>1 DEF Untaken
  <2> QED
      BY <2>1 DEF SamePosition, Mapped, Stored, Unvisited, EffectsOf
<1>4. PositionsOK'
  <2> SUFFICES ASSUME NEW k \in Keys, ~Due(k)'
               PROVE  /\ (pending[k] = NULL \/ pending[k].cost => Exact(k))'
                      /\ (pending[k] # NULL /\ pending[k].append => Extendable(k))'
      BY DEF PositionsOK
  <2>1. ~Due(k)
      BY DEF Due
  <2>2. /\ pending[k] = NULL \/ pending[k].cost => Exact(k)
        /\ pending[k] # NULL /\ pending[k].append => Extendable(k)
      BY <2>1 DEF PositionsOK
  <2>3. /\ Exact(k) => Exact(k)'
        /\ Extendable(k) => Extendable(k)'
      BY <1>3, SamePositionKeeps
  <2> QED
      BY <2>2, <2>3
<1>5. PrepsOK'
  <2>1. \A p, q \in prep' : p.key = q.key => p = q
      BY DEF PrepsOK
  <2>2. ASSUME NEW p \in prep' PROVE PrepType(p)' /\ Counted(p)'
    <3>1. p \in prep /\ PrepType(p) /\ Counted(p)
        BY DEF PrepsOK
    <3> QED
        BY <3>1 DEF PrepType, Counted
  <2>3. ASSUME NEW p \in prep', p.epoch = epoch', p.ran PROVE Fitting(p)'
    <3>1. p \in prep /\ PrepType(p) /\ Fitting(p)
        BY <2>3 DEF PrepsOK
    <3>2. p.key \in Keys /\ SamePosition(p.key)
        BY <1>3, <3>1 DEF PrepType
    <3>3. Fits(p) => Fits(p)'
        BY <3>1, <3>2, SamePositionFits
    <3>4. EffectsOf(eff, p.key)' = EffectsOf(eff, p.key)
        BY DEF EffectsOf
    <3> QED
        BY <3>1, <3>2, <3>3, <3>4 DEF Fitting
  <2> QED
      BY <2>1, <2>2, <2>3 DEF PrepsOK
<1> QED
    BY <1>1, <1>2, <1>4, <1>5

\* The phase and the queue decide whether the book is clean.
LEMMA SameClean ==
    ASSUME CleanMeansDone, count' = count, dirty' = dirty, phase' = phase,
           \A k \in Keys : pending'[k] = NULL <=> pending[k] = NULL
    PROVE  CleanMeansDone'
<1>1. {k \in Keys : pending'[k] # NULL} = {k \in Keys : pending[k] # NULL}
    OBVIOUS
<1>2. Cardinality({k \in Keys : pending'[k] # NULL}) = Cardinality({k \in Keys : pending[k] # NULL})
    BY <1>1
<1> QED
    BY <1>2 DEF CleanMeansDone, Published

LEMMA StartPassInv == BooksInv /\ StartPass => BooksInv'
<1> SUFFICES ASSUME BooksInv, StartPass PROVE BooksInv'
    OBVIOUS
<1>1. CleanMeansDone'
    BY SameClean DEF BooksInv, StartPass, queueVars, bootVars
<1>2. /\ UNCHANGED <<ev, keyOf, eff, posn, epoch, phase, cursor, posLeft, pending, hp>>
      /\ prep' \subseteq prep /\ pass' \subseteq Keys /\ prep' = {}
    BY DEF StartPass, Between, eventVars, queueVars, bookVars, bootVars
<1> QED
    BY <1>1, <1>2, QuietKeeps DEF BooksInv, BookTypes

LEMMA PrepareFailsInv == BooksInv /\ (\E W \in SUBSET Keys : PrepareFails(W)) => BooksInv'
<1> SUFFICES ASSUME BooksInv, NEW W \in SUBSET Keys, PrepareFails(W) PROVE BooksInv'
    OBVIOUS
<1>1. CleanMeansDone'
    BY SameClean DEF BooksInv, PrepareFails, queueVars, bootVars
<1>2. /\ UNCHANGED <<ev, keyOf, eff, posn, epoch, phase, cursor, posLeft, pending, hp>>
      /\ prep' \subseteq prep /\ pass' \subseteq Keys /\ pass' \subseteq pass
    BY DEF PrepareFails, eventVars, queueVars, bookVars, bootVars, BooksInv, BookTypes
<1> QED
    BY <1>1, <1>2, QuietKeeps DEF BooksInv, BookTypes

LEMMA RetryDueInv == BooksInv /\ (\E k \in Keys : RetryDue(k)) => BooksInv'
<1> SUFFICES ASSUME BooksInv, NEW k \in Keys, RetryDue(k) PROVE BooksInv'
    OBVIOUS
<1>1. CleanMeansDone'
    BY SameClean DEF BooksInv, RetryDue, queueVars, bootVars
<1>2. /\ UNCHANGED <<ev, keyOf, eff, posn, epoch, phase, cursor, posLeft, pending, hp>>
      /\ prep' \subseteq prep /\ pass' \subseteq Keys /\ pass' \subseteq pass
    BY DEF RetryDue, eventVars, queueVars, bookVars, bootVars, BooksInv, BookTypes
<1> QED
    BY <1>1, <1>2, QuietKeeps DEF BooksInv, BookTypes

LEMMA RestartInv == BooksInv /\ RestartBooks => BooksInv'
<1> SUFFICES ASSUME BooksInv, RestartBooks PROVE BooksInv'
    OBVIOUS
<1>1. CleanMeansDone'
    BY DEF RestartBooks, bootVars, CleanMeansDone, Published, BooksIdle
<1>2. /\ UNCHANGED <<ev, keyOf, eff, posn, epoch, phase, cursor, posLeft, pending>>
      /\ prep' \subseteq prep /\ pass' \subseteq Keys /\ prep' = {} /\ hp' = NULL
    BY DEF RestartBooks, eventVars, bookVars, bootVars
<1> QED
    BY <1>1, <1>2, QuietKeeps DEF BooksInv, BookTypes


\* The least of a set of numbers.
LEMMA LeastNumber ==
    ASSUME NEW S \in SUBSET Nat, S # {}
    PROVE  \E n \in S : \A m \in S : n <= m
<1> DEFINE below == {0..k : k \in S}
           R == StrictSubsetOrdering(Nat)
<1>1. \A k \in S : 0..k \in FiniteSubsetsOf(Nat)
    BY FS_Interval DEF FiniteSubsetsOf
<1>2. below \subseteq FiniteSubsetsOf(Nat) /\ below # {}
    BY <1>1
<1>3. IsWellFoundedOn(R, FiniteSubsetsOf(Nat))
    BY FS_StrictSubsetOrderingWellFounded
<1> HIDE DEF below, R
<1>4. PICK x \in below : \A y \in below : <<y, x>> \notin R
    BY <1>2, <1>3, WFMin
<1>5. PICK k \in S : x = 0..k
    BY <1>4 DEF below
<1>6. ASSUME NEW m \in S, m < k PROVE FALSE
  <2>1. 0..m \in below
      BY <1>6 DEF below
  <2>4. k \in 0..k /\ k \notin 0..m /\ 0..m \subseteq 0..k
      BY <1>6
  <2>2. 0..m \in SUBSET Nat /\ 0..k \in SUBSET Nat
      OBVIOUS
  <2>3. <<0..m, 0..k>> \in R
      BY <2>2, <2>4 DEF R, StrictSubsetOrdering
  <2> QED
      BY <1>4, <1>5, <2>1, <2>3
<1> QED
    BY <1>6

\* The code takes the first of what is left.
LEMMA FirstOf ==
    ASSUME NEW S \in SUBSET Nat, S # {}
    PROVE  /\ (CHOOSE j \in S : \A x \in S : j <= x) \in S
           /\ \A x \in S : (CHOOSE j \in S : \A y \in S : j <= y) <= x
BY LeastNumber

LEMMA HintPageInv == BooksInv /\ (\E k \in Keys : HintPage(k)) => BooksInv'
<1> SUFFICES ASSUME BooksInv, NEW k \in Keys, HintPage(k) PROVE BooksInv'
    OBVIOUS
<1>1. CleanMeansDone'
    BY SameClean DEF BooksInv, HintPage, queueVars, bootVars
<1>2. /\ UNCHANGED <<ev, keyOf, eff, posn, epoch, phase, cursor, posLeft, pending>>
      /\ prep' \subseteq prep /\ pass' \subseteq Keys /\ pass' \subseteq pass
    BY DEF HintPage, eventVars, queueVars, bookVars, bootVars, passVars, BooksInv, BookTypes
<1>3. hp'.key \in Keys /\ hp'.next \in Nat /\ hp'.complete \in BOOLEAN
  <2> DEFINE rest == {i \in Mapped(k) : i > pending[k].cursor}
             i == CHOOSE j \in rest : \A x \in rest : j <= x
  <2>1. /\ hp'.key = k /\ hp'.next = (IF rest = {} THEN pending[k].cursor ELSE i)
        /\ hp'.complete = (rest = {})
      BY DEF HintPage
  <2>2. pending[k].cursor \in Nat
      BY DEF HintPage, BooksInv, BookTypes, PendingType
  <2>3. rest \in SUBSET Nat
      BY BooksAssumption DEF Mapped, Stored
  <2>4. rest # {} => i \in Nat
    <3> HIDE DEF rest
    <3> QED
        BY <2>3, FirstOf
  <2> HIDE DEF rest, i
  <2> QED
      BY <2>1, <2>2, <2>4
<1> QED
    BY <1>1, <1>2, <1>3, QuietKeeps DEF BooksInv, BookTypes

LEMMA HintPublishInv == BooksInv /\ HintPublish => BooksInv'
<1> SUFFICES ASSUME BooksInv, HintPublish PROVE BooksInv'
    OBVIOUS
<1> DEFINE r == pending[hp.key]
<1>1. /\ UNCHANGED <<ev, keyOf, eff, posn, epoch, phase, cursor, posLeft>>
      /\ prep' \subseteq prep /\ pass' \subseteq Keys /\ pass' \subseteq pass
      /\ hp.key \in Keys /\ hp.next \in Nat /\ hp.complete \in BOOLEAN
      /\ hp' = NULL /\ count' = count /\ dirty' = dirty
    BY DEF HintPublish, eventVars, bookVars, bootVars, passVars, BooksInv, BookTypes
<1>2. \/ pending' = pending
      \/ /\ r # NULL
         /\ pending' = [pending EXCEPT ![hp.key].cursor = hp.next, ![hp.key].ready = hp.complete]
    BY DEF HintPublish
<1>3. /\ pending' \in [Keys -> PendingType \cup {NULL}]
      /\ \A k \in Keys : /\ pending'[k] = NULL <=> pending[k] = NULL
                        /\ pending'[k].gen = pending[k].gen
                        /\ pending'[k].append = pending[k].append
                        /\ pending'[k].cost = pending[k].cost
  <2>1. pending \in [Keys -> PendingType \cup {NULL}]
      BY DEF BooksInv, BookTypes
  <2>2. CASE pending' = pending
      BY <2>1, <2>2
  <2>3. CASE /\ r # NULL
             /\ pending' = [pending EXCEPT ![hp.key].cursor = hp.next, ![hp.key].ready = hp.complete]
    <3> DEFINE q == [r EXCEPT !.cursor = hp.next, !.ready = hp.complete]
    <3>1. pending' = [pending EXCEPT ![hp.key] = q]
        BY <1>1, <2>1, <2>3 DEF PendingType
    <3>2. r \in PendingType
        BY <1>1, <2>1, <2>3
    <3>3. q \in PendingType /\ q.gen = r.gen /\ q.append = r.append /\ q.cost = r.cost
        BY <1>1, <3>2 DEF PendingType
    <3>4. q # NULL
        BY <3>3, BooksNull
    <3> HIDE DEF q
    <3> QED
        BY <1>1, <2>1, <2>3, <3>1, <3>3, <3>4
  <2> QED
      BY <1>2, <2>2, <2>3
<1>4. CleanMeansDone'
    BY <1>1, <1>3, SameClean DEF BooksInv
<1> QED
    BY <1>1, <1>3, <1>4, QuietKeeps

-----------------------------------------------------------------------------
\* Events that are added, corrected or written again.

LEMMA ExactExtendable ==
    ASSUME BookTypes, NEW k \in Keys, Exact(k)
    PROVE  Extendable(k)
<1>1. \A i \in Visited(k) : i \in Mapped(k) /\ Agrees(i, k)
    BY DEF Exact, Visited
<1>2. Visited(k) \subseteq EffectsOf(eff, k)
    BY <1>1, AgreesIs
<1>3. EffectsOf(eff, k) = Visited(k)
    BY <1>2 DEF Exact
<1> QED
    BY <1>1, <1>3 DEF Exact, Extendable

\* The position keeps its ledger and only gains events nobody has written.
GainsEvents(k) ==
    /\ Mapped(k) \subseteq Mapped(k)'
    /\ \A i \in Mapped(k) : ev'[i] = ev[i] /\ (Unvisited(i)' <=> Unvisited(i))
    /\ eff' = eff /\ posn' = posn
    /\ \A i \in Mapped(k) : Untaken(i, k) => Untaken(i, k)'
    /\ \A i \in Mapped(k)' : i \in Mapped(k) \/ Untaken(i, k)'

LEMMA GainsEventsKeeps ==
    ASSUME BookTypes, NEW k \in Keys, GainsEvents(k)
    PROVE  Extendable(k) => Extendable(k)'
<1> SUFFICES ASSUME Extendable(k) PROVE Extendable(k)'
    OBVIOUS
<1>1. Rows(k)' = Rows(k) /\ EffectsOf(eff, k)' = EffectsOf(eff, k)
    BY DEF GainsEvents, Rows, EffectsOf
<1>2. \A i \in EffectsOf(eff, k) : i \in Mapped(k) /\ Agrees(i, k)
    BY DEF Extendable
<1>3. EffectRows(EffectsOf(eff, k))' = EffectRows(EffectsOf(eff, k))
  <2>1. EffectRows(EffectsOf(eff, k))' = {[id |-> i, owner |-> ev'[i].owner] : i \in EffectsOf(eff, k)}
      BY <1>1 DEF EffectRows
  <2> QED
      BY <1>2, <2>1 DEF EffectRows, GainsEvents
<1>4. \A i \in EffectsOf(eff, k) : i \in Mapped(k)' /\ Agrees(i, k)'
    BY <1>2 DEF GainsEvents, Agrees
<1>5. ASSUME NEW i \in Visited(k)' PROVE i \in EffectsOf(eff, k) \/ Untaken(i, k)'
  <2>1. CASE i \in Mapped(k)
    <3>1. i \in Visited(k)
        BY <1>5, <2>1 DEF Visited, GainsEvents
    <3>2. i \in EffectsOf(eff, k) \/ Untaken(i, k)
        BY <3>1 DEF Extendable
    <3>3. Untaken(i, k) => Untaken(i, k)'
        BY <2>1 DEF GainsEvents
    <3> QED
        BY <3>2, <3>3
  <2>2. CASE i \notin Mapped(k)
      BY <1>5, <2>2 DEF Visited, GainsEvents
  <2> QED
      BY <2>1, <2>2
<1> QED
    BY <1>1, <1>3, <1>4, <1>5 DEF Extendable

LEMMA GainsEventsFits ==
    ASSUME BookTypes, NEW p, PrepType(p), GainsEvents(p.key), Fits(p),
           pending'[p.key].gen # p.gen
    PROVE  Fits(p)'
<1> DEFINE k == p.key
           M == IdsOf(p.rows)
<1>1. EffectsOf(eff, k)' = EffectsOf(eff, k)
    BY DEF GainsEvents, EffectsOf
<1>2. M \subseteq Mapped(k) /\ M \subseteq Mapped(k)' /\ p.rows = EffectRows(M)
    BY DEF Fits, GainsEvents
<1>3. EffectRows(M)' = EffectRows(M)
    BY <1>2 DEF EffectRows, GainsEvents
<1>4. \A i \in M : ev'[i] = ev[i] /\ (Agrees(i, k)' <=> Agrees(i, k))
    BY <1>2 DEF GainsEvents, Agrees
<1>5. ASSUME NEW i \in Visited(k)' PROVE i \in M \/ Untaken(i, k)'
  <2>1. CASE i \in Mapped(k)
    <3>1. i \in Visited(k)
        BY <1>5, <2>1 DEF Visited, GainsEvents
    <3>2. i \in M \/ Untaken(i, k)
        BY <3>1 DEF Fits
    <3>3. Untaken(i, k) => Untaken(i, k)'
        BY <2>1 DEF GainsEvents
    <3> QED
        BY <3>2, <3>3
  <2>2. CASE i \notin Mapped(k)
      BY <1>5, <2>2 DEF Visited, GainsEvents
  <2> QED
      BY <2>1, <2>2
<1> QED
    BY <1>1, <1>2, <1>3, <1>4, <1>5 DEF Fits

\* What an ingestion does, with the positions it queues.
Ingested(D, new, transactionOnly) ==
    /\ ev' = [i \in Ids |-> IF i \in D THEN new[i] ELSE ev[i]]
    /\ keyOf' = [i \in Ids |-> IF i \in D THEN new[i].key ELSE keyOf[i]]
    /\ UNCHANGED <<eff, posn, cost, epGas, epoch, phase, cursor, posLeft, pass, prep, hp>>
    /\ moved' = (moved \/ \E i \in D : \/ keyOf[i] \notin {NULL, new[i].key}
                                       \/ ev[i] # NULL /\ ev[i].key # new[i].key)
    /\ \A i \in D : keyOf[i] \in Keys \cup {NULL} /\ new[i].key \in Keys /\ new[i] # NULL
    /\ owing' = [k \in Keys |-> owing'[k]]
    /\ \A k \in Keys : owing'[k] = owing[k] \cup
          {TxOf[i] : i \in {j \in D : /\ transactionOnly /\ eff[j] # NULL
                                      /\ keyOf[j] = k /\ new[j].key = k}}

QueuedFor(K, append, costOnly, D, new, transactionOnly) ==
    /\ Requeue(K, append, costOnly, TRUE)
    /\ \A k \in Keys : k \in K <=> \E i \in D : keyOf[i] = k \/ new[i].key = k
    /\ \A k \in append : \A i \in D : keyOf[i] = k \/ new[i].key = k =>
           keyOf[i] = NULL /\ eff[i] = NULL /\ k = new[i].key
    /\ \A k \in costOnly : \A i \in D : keyOf[i] = k \/ new[i].key = k =>
           transactionOnly /\ keyOf[i] = new[i].key /\ k = keyOf[i]

LEMMA ApplyIs ==
    ASSUME BookTypes, NEW D \in SUBSET Ids, NEW new \in [D -> EventType],
           NEW transactionOnly \in BOOLEAN, Apply(new, transactionOnly)
    PROVE  /\ Ingested(D, new, transactionOnly)
           /\ \E K \in SUBSET Keys : \E append, costOnly :
                 QueuedFor(K, append, costOnly, D, new, transactionOnly)
<1> DEFINE keys(i) == Known({keyOf[i], new[i].key})
           K == UNION {keys(i) : i \in D}
           touching(k) == {i \in D : k \in keys(i)}
           append == {k \in K : \A i \in touching(k) :
                                    keyOf[i] = NULL /\ eff[i] = NULL /\ k = new[i].key}
           proven(i, k) == transactionOnly /\ keyOf[i] = new[i].key /\ k = keyOf[i] /\ eff[i] # NULL
           costOnly == {k \in K : \A i \in touching(k) : proven(i, k)}
<1>1. /\ ev' = [i \in Ids |-> IF i \in D THEN new[i] ELSE ev[i]]
      /\ keyOf' = [i \in Ids |-> IF i \in D THEN new[i].key ELSE keyOf[i]]
      /\ Requeue(K, append, costOnly, TRUE)
      /\ UNCHANGED <<eff, posn, cost, epGas, epoch, phase, cursor, posLeft, pass, prep, hp>>
      /\ moved' = (moved \/ \E i \in D : \/ keyOf[i] \notin {NULL, new[i].key}
                                         \/ ev[i] # NULL /\ ev[i].key # new[i].key)
      /\ owing' = [k \in Keys |-> owing[k] \cup {TxOf[i] : i \in {j \in touching(k) : proven(j, k)}}]
    BY DEF Apply, bookVars, bootVars, passVars
<1>2. \A i \in D : /\ keyOf[i] \in Keys \cup {NULL} /\ new[i].key \in Keys /\ new[i] # NULL
                   /\ new[i].key # NULL
                   /\ \A k : k \in keys(i) <=> k # NULL /\ (k = keyOf[i] \/ k = new[i].key)
    BY BooksNull DEF BookTypes, EventType, Known
<1>3. \A x : x \in K <=> \E i \in D : x \in keys(i)
  <2> HIDE DEF keys
  <2> QED
      OBVIOUS
<1>4. K \in SUBSET Keys
  <2>1. ASSUME NEW x \in K PROVE x \in Keys
    <3>1. PICK i \in D : x \in keys(i)
        BY <1>3
    <3>2. x # NULL /\ (x = keyOf[i] \/ x = new[i].key)
      <4> HIDE DEF keys
      <4> QED
          BY <1>2, <3>1
    <3> HIDE DEF K, keys
    <3> QED
        BY <1>2, <3>2
  <2> HIDE DEF K
  <2> QED
      BY <2>1
<1>5. \A k \in Keys : \A i \in D : i \in touching(k) <=> keyOf[i] = k \/ new[i].key = k
    BY <1>2, BooksNull
<1>6. /\ \A k \in Keys : k \in K <=> \E i \in D : keyOf[i] = k \/ new[i].key = k
      /\ \A k \in append : \A i \in D : keyOf[i] = k \/ new[i].key = k =>
                              keyOf[i] = NULL /\ eff[i] = NULL /\ k = new[i].key
      /\ \A k \in costOnly : \A i \in D : keyOf[i] = k \/ new[i].key = k =>
                              transactionOnly /\ keyOf[i] = new[i].key /\ k = keyOf[i]
  <2>1. \A k \in Keys : k \in K <=> \E i \in D : keyOf[i] = k \/ new[i].key = k
    <3> HIDE DEF K
    <3> QED
        BY <1>2, <1>3, BooksNull
  <2>2. append \subseteq Keys /\ costOnly \subseteq Keys
      BY <1>4
  <2> QED
      BY <1>5, <2>1, <2>2
<1>7. ASSUME NEW k \in Keys
      PROVE  owing'[k] = owing[k] \cup
                 {TxOf[i] : i \in {j \in D : /\ transactionOnly /\ eff[j] # NULL
                                             /\ keyOf[j] = k /\ new[j].key = k}}
  <2>1. {j \in touching(k) : proven(j, k)}
          = {j \in D : transactionOnly /\ eff[j] # NULL /\ keyOf[j] = k /\ new[j].key = k}
      BY <1>5
  <2>2. owing'[k] = owing[k] \cup {TxOf[i] : i \in {j \in touching(k) : proven(j, k)}}
      BY <1>1
  <2> HIDE DEF touching, proven
  <2> QED
      BY <2>1, <2>2
<1>8. K \in SUBSET Keys /\ QueuedFor(K, append, costOnly, D, new, transactionOnly)
    BY <1>1, <1>4, <1>6 DEF QueuedFor
<1>9. Ingested(D, new, transactionOnly)
    BY <1>1, <1>2, <1>7 DEF Ingested
<1> HIDE DEF K, append, costOnly
<1> QED
    BY <1>8, <1>9, Zenon

LEMMA ApplyInv ==
    ASSUME BooksInv, NEW D \in SUBSET Ids, NEW new \in [D -> EventType],
           NEW transactionOnly \in BOOLEAN, transactionOnly => \A i \in D : ev[i] = new[i],
           Apply(new, transactionOnly)
    PROVE  BooksInv'
<1>2. BookTypes
    BY DEF BooksInv
<1>4. Ingested(D, new, transactionOnly)
    BY <1>2, ApplyIs
<1>5. PICK K \in SUBSET Keys : \E append, costOnly :
         QueuedFor(K, append, costOnly, D, new, transactionOnly)
    BY <1>2, ApplyIs
<1>20. PICK append, costOnly : QueuedFor(K, append, costOnly, D, new, transactionOnly)
    BY <1>5
<1>1. /\ ev' = [i \in Ids |-> IF i \in D THEN new[i] ELSE ev[i]]
      /\ keyOf' = [i \in Ids |-> IF i \in D THEN new[i].key ELSE keyOf[i]]
      /\ Requeue(K, append, costOnly, TRUE)
      /\ UNCHANGED <<eff, posn, epoch, phase, cursor, posLeft, pass, prep, hp>>
    BY <1>4, <1>20 DEF Ingested, QueuedFor
<1>3. \A i \in D : keyOf[i] \in Keys \cup {NULL} /\ new[i].key \in Keys /\ new[i] # NULL
    BY <1>4 DEF Ingested
<1>6. /\ \A k \in Keys : k \in K <=> \E i \in D : keyOf[i] = k \/ new[i].key = k
      /\ \A k \in append : \A i \in D : keyOf[i] = k \/ new[i].key = k =>
                              keyOf[i] = NULL /\ eff[i] = NULL /\ k = new[i].key
      /\ \A k \in costOnly : \A i \in D : keyOf[i] = k \/ new[i].key = k =>
                              transactionOnly /\ keyOf[i] = new[i].key /\ k = keyOf[i]
    BY <1>20 DEF QueuedFor
<1>7. CleanMeansDone' /\ pending' \in [Keys -> PendingType \cup {NULL}]
    BY <1>1, <1>2, RequeueClean DEF BooksInv
<1>8. \A k \in Keys :
         /\ k \notin K => pending'[k] = pending[k]
         /\ k \in K => /\ pending'[k] # NULL
                       /\ pending[k] # NULL => pending'[k].gen = pending[k].gen + 1
                       /\ pending'[k].append => k \in append /\ (pending[k] = NULL \/ pending[k].append)
                       /\ pending'[k].cost => k \in costOnly /\ (pending[k] = NULL \/ pending[k].cost)
  <2>1. pending' = QueuedKeys(K, append, costOnly, TRUE)
      BY <1>1 DEF Requeue
  <2>2. \A k \in Keys :
           /\ k \notin K => pending'[k] = pending[k]
           /\ k \in K => /\ pending'[k] \in PendingType /\ pending'[k] # NULL
                         /\ pending[k] # NULL => pending'[k].gen = pending[k].gen + 1
                         /\ pending'[k].append => k \in append /\ (pending[k] = NULL \/ pending[k].append)
                         /\ pending'[k].cost => k \in costOnly /\ (pending[k] = NULL \/ pending[k].cost)
      BY <1>2, <2>1, QueuedIs, Zenon
  <2> QED
      BY <2>2
<1>9. BookTypes'
    BY <1>1, <1>2, <1>3, <1>7 DEF BookTypes, EventType
<1>10. EffectsOwned'
    BY <1>1 DEF BooksInv, EffectsOwned
<1>11. /\ \A k \in Keys : EffectsOf(eff, k)' = EffectsOf(eff, k)
       /\ \A i : Unvisited(i)' <=> Unvisited(i)
       /\ \A i, k : Untaken(i, k)' <=> Untaken(i, k)
       /\ \A k : Due(k)' <=> Due(k)
    BY <1>1 DEF EffectsOf, Unvisited, Untaken, Due
<1>12. /\ Stored' = Stored \cup D
       /\ \A k \in Keys : Mapped(k)' = {i \in Mapped(k) : i \notin D} \cup {i \in D : new[i].key = k}
  <2>1. Stored' = Stored \cup D
      BY <1>1, <1>3 DEF Stored
  <2> QED
      BY <1>1, <2>1 DEF Mapped, Stored
<1>13. ASSUME NEW k \in Keys, k \notin K \/ k \in costOnly PROVE SamePosition(k)
  <2>1. \A i \in D : keyOf[i] = k \/ new[i].key = k => ev[i] = new[i] /\ keyOf[i] = k /\ new[i].key = k
      BY <1>6, <1>13
  <2>2. Mapped(k)' = Mapped(k)
    <3>1. \A i \in D : new[i].key = k => i \in Mapped(k)
        BY <1>3, <2>1 DEF Mapped, Stored
    <3>2. \A i \in Mapped(k) : i \in D => new[i].key = k
        BY <2>1 DEF Mapped
    <3> QED
        BY <1>12, <3>1, <3>2
  <2>3. \A i \in Mapped(k) : ev'[i] = ev[i]
      BY <1>1, <2>1 DEF Mapped, Stored
  <2> QED
      BY <1>1, <1>11, <2>2, <2>3 DEF SamePosition
<1>14. ASSUME NEW i \in D, NEW k \in Keys, keyOf[i] = NULL, eff[i] = NULL PROVE Untaken(i, k)
  <2>1. ASSUME NEW p \in prep, p.epoch = epoch, NEW r \in p.writes PROVE r.id # i
    <3>1. CASE p.ran
      <4>1. Fitting(p)
          BY <2>1, <3>1 DEF BooksInv, PrepsOK
      <4> QED
          BY <1>14, <2>1, <4>1 DEF Fitting
    <3>2. CASE ~p.ran
        BY <2>1, <3>2 DEF BooksInv, PrepsOK, Counted
    <3> QED
        BY <3>1, <3>2
  <2> QED
      BY <1>14, <2>1 DEF Untaken
<1>15. ASSUME NEW k \in Keys, k \in append PROVE GainsEvents(k)
  <2>1. \A i \in D : keyOf[i] # k /\ (new[i].key = k => keyOf[i] = NULL /\ eff[i] = NULL)
      BY <1>6, <1>15, BooksNull
  <2>2. Mapped(k) \subseteq Mapped(k)' /\ \A i \in Mapped(k) : i \notin D
      BY <1>12, <2>1 DEF Mapped
  <2>3. \A i \in Mapped(k) : ev'[i] = ev[i]
      BY <1>1, <2>2 DEF Mapped, Stored
  <2>4. \A i \in Mapped(k)' : i \in Mapped(k) \/ Untaken(i, k)'
      BY <1>11, <1>12, <1>14, <2>1
  <2> QED
      BY <1>1, <1>11, <2>2, <2>3, <2>4 DEF GainsEvents
<1>16. PositionsOK'
  <2> SUFFICES ASSUME NEW k \in Keys, ~Due(k)'
               PROVE  /\ pending'[k] = NULL \/ pending'[k].cost => Exact(k)'
                      /\ pending'[k] # NULL /\ pending'[k].append => Extendable(k)'
      BY DEF PositionsOK
  <2>1. /\ pending[k] = NULL \/ pending[k].cost => Exact(k)
        /\ pending[k] # NULL /\ pending[k].append => Extendable(k)
      BY <1>11 DEF PositionsOK, BooksInv
  <2>2. Exact(k) => Extendable(k)
      BY <1>2, ExactExtendable
  <2>3. CASE k \notin K
    <3>1. /\ Exact(k) => Exact(k)'
          /\ Extendable(k) => Extendable(k)'
        BY <1>2, <1>13, <2>3, SamePositionKeeps
    <3> QED
        BY <1>8, <2>1, <2>3, <3>1
  <2>4. CASE k \in K
    <3>1. ASSUME pending'[k].cost PROVE Exact(k)'
      <4>1. k \in costOnly /\ Exact(k)
          BY <1>8, <2>1, <2>4, <3>1
      <4>2. SamePosition(k)
          BY <1>13, <4>1
      <4> QED
          BY <1>2, <4>1, <4>2, SamePositionKeeps
    <3>2. ASSUME pending'[k].append PROVE Extendable(k)'
      <4>1. k \in append /\ Extendable(k)
          BY <1>8, <2>1, <2>2, <2>4, <3>2
      <4>2. GainsEvents(k)
          BY <1>15, <4>1
      <4> QED
          BY <1>2, <4>1, <4>2, GainsEventsKeeps
    <3> QED
        BY <1>8, <2>4, <3>1, <3>2
  <2> QED
      BY <2>3, <2>4
<1>17. ASSUME NEW p \in prep
       PROVE  /\ PrepType(p) /\ Counted(p) /\ PrepType(p)' /\ Counted(p)'
              /\ p.key \in K => pending'[p.key].gen > p.gen
  <2>1. PrepType(p) /\ Counted(p)
      BY DEF BooksInv, PrepsOK
  <2>2. PrepType(p)'
      BY <1>1, <2>1 DEF PrepType
  <2>3. p.key \in Keys /\ p.gen \in Nat /\ pending[p.key] # NULL /\ pending[p.key].gen \in Nat
      BY <1>2, <2>1 DEF PrepType, Counted, BookTypes, PendingType
  <2>4. CASE p.key \in K
    <3>1. pending'[p.key].gen > p.gen
        BY <1>8, <2>1, <2>3, <2>4 DEF Counted
    <3>2. pending'[p.key].cost => pending[p.key].cost
        BY <1>8, <2>3, <2>4
    <3>3. pending'[p.key] # NULL
        BY <1>8, <2>3, <2>4
    <3>4. pending'[p.key].gen \in Nat
        BY <1>7, <2>3, <3>3 DEF PendingType
    <3>5. p.gen <= pending'[p.key].gen /\ p.gen # pending'[p.key].gen
        BY <2>3, <3>1, <3>4
    <3> QED
        BY <2>1, <2>2, <3>1, <3>2, <3>3, <3>5 DEF Counted
  <2>5. CASE p.key \notin K
      BY <1>8, <2>1, <2>2, <2>3, <2>5 DEF Counted
  <2> QED
      BY <2>4, <2>5
<1>18. ASSUME NEW p \in prep, p.epoch = epoch, p.ran PROVE Fitting(p)'
  <2>1. Fitting(p) /\ p.key \in Keys /\ PrepType(p)
      BY <1>17, <1>18 DEF BooksInv, PrepsOK, PrepType
  <2>2. \A r \in p.writes : r.id \in Ids /\ keyOf'[r.id] # NULL
    <3>1. ASSUME NEW r \in p.writes PROVE r.id \in Ids /\ keyOf[r.id] # NULL
        BY <2>1 DEF Fitting, PrepType, LedgerRow
    <3> QED
        BY <1>1, <1>3, <3>1, BooksNull
  <2>3. ASSUME /\ pending'[p.key].gen = p.gen \/ pending'[p.key].append
               /\ phase = "complete" \/ p.key \notin posLeft \/ p.rows = {}
        PROVE  Fits(p)'
    <3>1. CASE p.key \notin K
      <4>1. pending'[p.key] = pending[p.key]
          BY <1>8, <2>1, <3>1
      <4>2. Fits(p) /\ SamePosition(p.key)
          BY <1>13, <2>1, <2>3, <3>1, <4>1 DEF Fitting
      <4> QED
          BY <1>2, <2>1, <4>1, <4>2, SamePositionFits
    <3>2. CASE p.key \in K
      <4>1. pending'[p.key].gen > p.gen /\ p.gen \in Nat /\ pending'[p.key].gen # p.gen
          BY <1>7, <1>8, <1>17, <2>1, <3>2 DEF PrepType, PendingType
      <4>2. p.key \in append /\ pending[p.key].append
          BY <1>8, <1>17, <2>1, <2>3, <3>2, <4>1 DEF Counted
      <4>3. Fits(p)
          BY <2>1, <2>3, <4>2 DEF Fitting
      <4>4. GainsEvents(p.key)
          BY <1>15, <2>1, <4>2
      <4> QED
          BY <1>2, <2>1, <4>1, <4>3, <4>4, GainsEventsFits
    <3> QED
        BY <3>1, <3>2
  <2>4. EffectsOf(eff, p.key)' = EffectsOf(eff, p.key)
      BY <1>11, <2>1
  <2> QED
      BY <1>1, <2>1, <2>2, <2>3, <2>4 DEF Fitting
<1>19. PrepsOK'
    BY <1>1, <1>17, <1>18 DEF PrepsOK, BooksInv
<1> QED
    BY <1>7, <1>9, <1>10, <1>16, <1>19 DEF BooksInv

LEMMA NewEventInv == BooksInv /\ (\E v \in Feeds : NewEvent(v.id, v.key, v.owner)) => BooksInv'
<1> SUFFICES ASSUME BooksInv, NEW v \in Feeds, NewEvent(v.id, v.key, v.owner) PROVE BooksInv'
    OBVIOUS
<1> DEFINE D == {v.id}
           new == [x \in D |-> [key |-> v.key, owner |-> v.owner]]
<1>1. D \in SUBSET Ids /\ new \in [D -> EventType]
    BY BooksAssumption DEF EventType
<1>2. Apply(new, FALSE)
    BY DEF NewEvent
<1> HIDE DEF D, new
<1> QED
    BY <1>1, <1>2, ApplyInv

LEMMA CorrectInv == BooksInv /\ (\E v \in Feeds : Correct(v.id, v.key, v.owner)) => BooksInv'
<1> SUFFICES ASSUME BooksInv, NEW v \in Feeds, Correct(v.id, v.key, v.owner) PROVE BooksInv'
    OBVIOUS
<1> DEFINE D == {v.id}
           new == [x \in D |-> [key |-> v.key, owner |-> v.owner]]
<1>1. D \in SUBSET Ids /\ new \in [D -> EventType]
    BY BooksAssumption DEF EventType
<1>2. Apply(new, FALSE)
    BY DEF Correct
<1> HIDE DEF D, new
<1> QED
    BY <1>1, <1>2, ApplyInv

LEMMA ReceiptInv == BooksInv /\ (\E t \in Txs : Receipt(t)) => BooksInv'
<1> SUFFICES ASSUME BooksInv, NEW t \in Txs, Receipt(t) PROVE BooksInv'
    OBVIOUS
<1> DEFINE D == {j \in Stored : TxOf[j] = t}
           new == [i \in D |-> ev[i]]
<1>1. D \in SUBSET Ids /\ new \in [D -> EventType] /\ \A i \in D : ev[i] = new[i]
    BY DEF Stored, BooksInv, BookTypes
<1>2. Apply(new, TRUE)
    BY DEF Receipt
<1> HIDE DEF D, new
<1> QED
    BY <1>1, <1>2, ApplyInv

-----------------------------------------------------------------------------
\* Rollback.

LEMMA RequeuedPreps ==
    ASSUME BookTypes, NEW K, NEW append, NEW costOnly, NEW hinted \in BOOLEAN,
           pending' = QueuedKeys(K, append, costOnly, hinted),
           NEW p, p.key \in Keys, p.gen \in Nat, Counted(p)
    PROVE  Counted(p)' /\ (p.key \in K => p.gen # pending'[p.key].gen)
<1>1. /\ p.key \notin K => pending'[p.key] = pending[p.key]
      /\ p.key \in K => /\ pending'[p.key] \in PendingType /\ pending'[p.key] # NULL
                        /\ pending[p.key] # NULL => pending'[p.key].gen = pending[p.key].gen + 1
                        /\ pending'[p.key].cost => p.key \in costOnly /\ (pending[p.key] = NULL \/ pending[p.key].cost)
    BY QueuedIs
<1>2. pending[p.key] # NULL /\ pending[p.key].gen \in Nat /\ p.gen <= pending[p.key].gen
    BY DEF Counted, BookTypes, PendingType
<1>3. CASE p.key \notin K
    BY <1>1, <1>3 DEF Counted
<1>4. CASE p.key \in K
  <2>1. pending'[p.key].gen = pending[p.key].gen + 1 /\ pending'[p.key] # NULL
        /\ (pending'[p.key].cost => pending[p.key].cost)
      BY <1>1, <1>2, <1>4
  <2>2. p.gen <= pending'[p.key].gen /\ p.gen # pending'[p.key].gen
      BY <1>2, <2>1
  <2> QED
      BY <2>1, <2>2 DEF Counted
<1> QED
    BY <1>3, <1>4

LEMMA QueuedWithoutProof ==
    ASSUME BookTypes, NEW K, pending' = QueuedKeys(K, {}, {}, FALSE), NEW k \in Keys
    PROVE  /\ k \notin K => pending'[k] = pending[k]
           /\ k \in K => pending'[k] # NULL /\ ~pending'[k].append /\ ~pending'[k].cost
<1> DEFINE none == {}
<1>1. pending' = QueuedKeys(K, none, none, FALSE) /\ k \notin none
    OBVIOUS
<1> HIDE DEF none
<1>2. /\ k \notin K => pending'[k] = pending[k]
      /\ k \in K => /\ pending'[k] # NULL
                    /\ pending'[k].append => k \in none
                    /\ pending'[k].cost => k \in none
    BY <1>1, QueuedIs
<1> QED
    BY <1>1, <1>2

LEMMA RollbackInv == BooksInv /\ (\E a \in Txs \cup {0} : RollbackBook(a)) => BooksInv'
<1> SUFFICES ASSUME BooksInv, NEW a \in Txs \cup {0}, RollbackBook(a) PROVE BooksInv'
    OBVIOUS
<1> DEFINE above(i) == TxOf[i] > a
           K == {k \in Keys : \/ \E i \in Mapped(k) : above(i)
                              \/ \E i \in EffectsOf(eff, k) : above(i)
                              \/ posn[k] # NULL /\ \E r \in posn[k] : above(r.id)}
<1>1. /\ epoch' = epoch + 1 /\ UNCHANGED <<phase, cursor, posLeft, pass, prep, hp>>
      /\ ev' = [i \in Ids |-> IF above(i) THEN NULL ELSE ev[i]]
      /\ keyOf' = [i \in Ids |-> IF ev'[i] = NULL THEN NULL ELSE keyOf[i]]
      /\ Requeue(K, {}, {}, FALSE)
      /\ eff' = [i \in Ids |-> IF eff[i] # NULL /\ eff[i].key \in K THEN NULL ELSE eff[i]]
      /\ posn' = [k \in Keys |-> IF k \in K THEN NULL ELSE posn[k]]
    BY DEF RollbackBook, bootVars, passVars
<1>2. \A k \in Keys : k \notin K => /\ \A i \in Mapped(k) : ~above(i)
                                    /\ \A i \in EffectsOf(eff, k) : ~above(i)
    OBVIOUS
<1>3. K \in SUBSET Keys
    OBVIOUS
<1>4. BookTypes
    BY DEF BooksInv
<1> HIDE DEF K, above
<1>5. CleanMeansDone' /\ pending' \in [Keys -> PendingType \cup {NULL}]
    BY <1>1, <1>3, <1>4, RequeueClean DEF BooksInv
<1>6. pending' = QueuedKeys(K, {}, {}, FALSE)
    BY <1>1 DEF Requeue
<1>7. \A k \in Keys :
         /\ k \notin K => pending'[k] = pending[k]
         /\ k \in K => pending'[k] # NULL /\ ~pending'[k].append /\ ~pending'[k].cost
    BY <1>4, <1>6, QueuedWithoutProof
<1>8. BookTypes'
    BY <1>1, <1>4, <1>5 DEF BookTypes
<1>9. EffectsOwned'
    BY <1>1 DEF BooksInv, EffectsOwned, BookTypes, EventType
<1>10. ASSUME NEW p \in prep PROVE p.epoch # epoch'
    BY <1>1, <1>4 DEF BooksInv, PrepsOK, PrepType, BookTypes
<1>11. ASSUME NEW k \in Keys, k \notin K PROVE SamePosition(k)
  <2>1. \A i \in Mapped(k) : ~above(i) /\ i \in Ids /\ ev[i] # NULL /\ keyOf[i] = k
      BY <1>2, <1>11 DEF Mapped, Stored
  <2>2. \A i \in Mapped(k) : ev'[i] = ev[i] /\ i \in Mapped(k)'
      BY <1>1, <2>1 DEF Mapped, Stored
  <2>3. Mapped(k)' \subseteq Mapped(k)
    <3>1. ASSUME NEW i \in Ids, ev'[i] # NULL, keyOf'[i] = k PROVE ev[i] # NULL /\ keyOf[i] = k
        BY <1>1, <3>1
    <3> QED
        BY <3>1 DEF Mapped, Stored
  <2>4. EffectsOf(eff, k)' = EffectsOf(eff, k) /\ \A i \in EffectsOf(eff, k) : eff'[i] = eff[i]
      BY <1>1, <1>11 DEF EffectsOf
  <2>5. \A i \in Mapped(k) : Untaken(i, k) => Untaken(i, k)'
      BY <1>1, <1>10, <2>1 DEF Untaken
  <2> QED
      BY <1>1, <1>11, <2>2, <2>3, <2>4, <2>5 DEF SamePosition, Unvisited
<1>12. PositionsOK'
  <2> SUFFICES ASSUME NEW k \in Keys, ~Due(k)'
               PROVE  /\ pending'[k] = NULL \/ pending'[k].cost => Exact(k)'
                      /\ pending'[k] # NULL /\ pending'[k].append => Extendable(k)'
      BY DEF PositionsOK
  <2>1. CASE k \notin K
    <3>1. SamePosition(k) /\ pending'[k] = pending[k]
        BY <1>7, <1>11, <2>1
    <3>2. ~Due(k)
        BY <1>1, <2>1 DEF Due
    <3>3. /\ Exact(k) => Exact(k)'
          /\ Extendable(k) => Extendable(k)'
        BY <1>4, <3>1, SamePositionKeeps
    <3> QED
        BY <3>1, <3>2, <3>3 DEF BooksInv, PositionsOK
  <2>2. CASE k \in K
      BY <1>7, <2>2
  <2> QED
      BY <2>1, <2>2
<1>13. PrepsOK'
  <2>1. ASSUME NEW p \in prep PROVE PrepType(p)' /\ Counted(p)'
    <3>1. PrepType(p) /\ Counted(p)
        BY DEF BooksInv, PrepsOK
    <3>2. PrepType(p)'
        BY <1>1, <1>4, <3>1 DEF PrepType, BookTypes
    <3> QED
        BY <1>4, <1>6, <3>1, <3>2, RequeuedPreps DEF PrepType
  <2> QED
      BY <1>1, <1>10, <2>1 DEF BooksInv, PrepsOK
<1> QED
    BY <1>5, <1>8, <1>9, <1>12, <1>13 DEF BooksInv

-----------------------------------------------------------------------------
\* The bootstrap, which runs while nothing is prepared.

LEMMA BootstrapKeeps ==
    ASSUME BooksInv, BookTypes', CleanMeansDone', UNCHANGED <<eff, posn>>, prep' = {},
           NEW K, pending' = QueuedKeys(K, {}, {}, FALSE),
           \A k \in Keys : k \notin K => SamePosition(k) /\ (Due(k) => Due(k)')
    PROVE  BooksInv'
<1>1. EffectsOwned' /\ PrepsOK' /\ BookTypes
    BY DEF BooksInv, EffectsOwned, PrepsOK
<1>2. PositionsOK'
  <2> SUFFICES ASSUME NEW k \in Keys, ~Due(k)'
               PROVE  /\ pending'[k] = NULL \/ pending'[k].cost => Exact(k)'
                      /\ pending'[k] # NULL /\ pending'[k].append => Extendable(k)'
      BY DEF PositionsOK
  <2>1. CASE k \notin K
    <3>1. SamePosition(k) /\ pending'[k] = pending[k] /\ ~Due(k)
        BY <1>1, <2>1, QueuedWithoutProof
    <3>2. /\ Exact(k) => Exact(k)'
          /\ Extendable(k) => Extendable(k)'
        BY <1>1, <3>1, SamePositionKeeps
    <3> QED
        BY <3>1, <3>2 DEF BooksInv, PositionsOK
  <2>2. CASE k \in K
      BY <1>1, <2>2, QueuedWithoutProof
  <2> QED
      BY <2>1, <2>2
<1> QED
    BY <1>1, <1>2 DEF BooksInv

LEMMA BootstrapEventInv == BooksInv /\ Between /\ BootstrapEvent => BooksInv'
<1> SUFFICES ASSUME BooksInv, Between, BootstrapEvent PROVE BooksInv'
    OBVIOUS
<1> DEFINE rest == {i \in Stored : i > cursor}
           i == CHOOSE j \in rest : \A x \in rest : j <= x
           K == Known({keyOf[i], ev[i].key})
<1>1. /\ UNCHANGED <<ev, eff, posn, epoch, posLeft, pass, prep, hp>>
      /\ phase = "events" /\ prep' = {}
    BY DEF BootstrapEvent, Between, bookVars, passVars
<1>2. BookTypes /\ rest \in SUBSET Nat
    BY BooksAssumption DEF BooksInv, Stored
<1>3. CASE rest = {}
  <2>1. phase' = "stale" /\ Requeue({}, {}, {}, FALSE) /\ UNCHANGED <<cursor, keyOf>>
      BY <1>3 DEF BootstrapEvent
  <2>2. CleanMeansDone' /\ pending' \in [Keys -> PendingType \cup {NULL}]
      BY <1>1, <1>2, <2>1, RequeueClean DEF BooksInv
  <2>3. BookTypes'
      BY <1>1, <1>2, <2>1, <2>2 DEF BookTypes
  <2>4. ASSUME NEW k \in Keys PROVE SamePosition(k) /\ (Due(k) => Due(k)')
    <3>1. \A j \in Mapped(k) : ~Unvisited(j) /\ ~Unvisited(j)'
        BY <1>3, <2>1 DEF Mapped, Unvisited
    <3> QED
        BY <1>1, <2>1, <3>1 DEF SamePosition, Due, Mapped, Stored, EffectsOf, Untaken
  <2>5. pending' = QueuedKeys({}, {}, {}, FALSE)
      BY <2>1 DEF Requeue
  <2> QED
      BY <1>1, <2>2, <2>3, <2>4, <2>5, BootstrapKeeps
<1>4. CASE rest # {}
  <2>1. /\ cursor' = i /\ keyOf' = [keyOf EXCEPT ![i] = ev[i].key]
        /\ Requeue(K, {}, {}, FALSE) /\ UNCHANGED phase
      BY <1>4 DEF BootstrapEvent
  <2>2. i \in rest /\ \A x \in rest : i <= x
    <3> HIDE DEF rest
    <3> QED
        BY <1>2, <1>4, FirstOf
  <2>3. i \in Ids /\ ev[i] \in EventType /\ i \in Nat
      BY <1>2, <2>2 DEF Stored, BookTypes
  <2> HIDE DEF i
  <2>4. \A x : x \in K <=> x # NULL /\ (x = keyOf[i] \/ x = ev[i].key)
      BY DEF Known
  <2>5. K \in SUBSET Keys
    <3>1. ev[i].key \in Keys /\ keyOf[i] \in Keys \cup {NULL}
        BY <1>2, <2>3 DEF EventType, BookTypes
    <3> HIDE DEF K
    <3> QED
        BY <2>4, <3>1
  <2> HIDE DEF K
  <2>6. CleanMeansDone' /\ pending' \in [Keys -> PendingType \cup {NULL}]
      BY <1>1, <1>2, <2>1, <2>5, RequeueClean DEF BooksInv
  <2>7. BookTypes'
      BY <1>1, <1>2, <2>1, <2>3, <2>6 DEF BookTypes, EventType
  <2>8. ASSUME NEW k \in Keys, k \notin K PROVE SamePosition(k) /\ (Due(k) => Due(k)')
    <3>1. keyOf[i] # k /\ ev[i].key # k
        BY <2>4, <2>8, BooksNull
    <3>2. Mapped(k)' = Mapped(k) /\ i \notin Mapped(k)
        BY <1>1, <1>2, <2>1, <2>3, <3>1 DEF Mapped, Stored, BookTypes
    <3>3. ASSUME NEW j \in Mapped(k) PROVE Unvisited(j)' <=> Unvisited(j)
      <4>1. j \in Nat /\ j # i /\ j \in Stored /\ cursor \in Nat
          BY <1>2, <3>2, BooksAssumption DEF Mapped, Stored, BookTypes
      <4>2. j > cursor => i <= j
          BY <2>2, <4>1
      <4>3. i > cursor
          BY <2>2
      <4> QED
          BY <1>1, <2>1, <2>3, <4>1, <4>2, <4>3 DEF Unvisited
    <3> QED
        BY <1>1, <2>1, <3>2, <3>3 DEF SamePosition, Due, EffectsOf, Untaken
  <2>9. pending' = QueuedKeys(K, {}, {}, FALSE)
      BY <2>1 DEF Requeue
  <2> QED
      BY <1>1, <2>6, <2>7, <2>8, <2>9, BootstrapKeeps
<1> QED
    BY <1>3, <1>4

LEMMA BootstrapStaleInv == BooksInv /\ Between /\ BootstrapStale => BooksInv'
<1> SUFFICES ASSUME BooksInv, Between, BootstrapStale PROVE BooksInv'
    OBVIOUS
<1> DEFINE orphans == {i \in Ids : keyOf[i] # NULL /\ ev[i] = NULL}
           K == {keyOf[i] : i \in orphans}
<1>1. /\ UNCHANGED <<ev, eff, posn, epoch, posLeft, cursor, pass, prep, hp>>
      /\ phase = "stale" /\ prep' = {}
    BY DEF BootstrapStale, Between, bookVars, passVars
<1>2. BookTypes
    BY DEF BooksInv
<1>3. CASE orphans = {}
  <2>1. phase' = "positions" /\ UNCHANGED <<keyOf, pending, count, dirty>>
      BY <1>3 DEF BootstrapStale
  <2>2. CleanMeansDone'
      BY <1>1, <2>1 DEF BooksInv, CleanMeansDone, Published
  <2>3. BookTypes'
      BY <1>1, <1>2, <2>1 DEF BookTypes
  <2>4. ASSUME NEW k \in Keys PROVE SamePosition(k) /\ (Due(k) => Due(k)')
      BY <1>1, <2>1 DEF SamePosition, Due, Mapped, Stored, EffectsOf, Untaken, Unvisited
  <2>5. pending' = QueuedKeys({}, {}, {}, FALSE)
      BY <1>2, <2>1 DEF QueuedKeys, BookTypes
  <2> QED
      BY <1>1, <2>2, <2>3, <2>4, <2>5, BootstrapKeeps
<1>4. CASE orphans # {}
  <2>1. /\ keyOf' = [i \in Ids |-> IF i \in orphans THEN NULL ELSE keyOf[i]]
        /\ Requeue(K, {}, {}, FALSE) /\ UNCHANGED phase
      BY <1>4 DEF BootstrapStale
  <2>2. K \in SUBSET Keys
      BY <1>2 DEF BookTypes
  <2> HIDE DEF K
  <2>3. CleanMeansDone' /\ pending' \in [Keys -> PendingType \cup {NULL}]
      BY <1>1, <1>2, <2>1, <2>2, RequeueClean DEF BooksInv
  <2>4. BookTypes'
      BY <1>1, <1>2, <2>1, <2>3 DEF BookTypes
  <2>5. \A k : Mapped(k)' = Mapped(k)
      BY <1>1, <2>1 DEF Mapped, Stored
  <2>6. ASSUME NEW k \in Keys PROVE SamePosition(k) /\ (Due(k) => Due(k)')
      BY <1>1, <2>1, <2>5 DEF SamePosition, Due, EffectsOf, Untaken, Unvisited
  <2>7. pending' = QueuedKeys(K, {}, {}, FALSE)
      BY <2>1 DEF Requeue
  <2> QED
      BY <1>1, <2>3, <2>4, <2>6, <2>7, BootstrapKeeps
<1> QED
    BY <1>3, <1>4

LEMMA BootstrapPositionInv == BooksInv /\ Between /\ BootstrapPosition => BooksInv'
<1> SUFFICES ASSUME BooksInv, Between, BootstrapPosition PROVE BooksInv'
    OBVIOUS
<1> DEFINE rest == {k \in posLeft : posn[k] # NULL}
           x == CHOOSE y \in rest : TRUE
<1>1. /\ UNCHANGED <<ev, keyOf, eff, posn, epoch, cursor, pass, prep, hp>>
      /\ phase = "positions" /\ prep' = {}
    BY DEF BootstrapPosition, Between, eventVars, bookVars, passVars
<1>2. BookTypes
    BY DEF BooksInv
<1>3. phase' \in {"positions", "complete"} => \A k \in Keys : SamePosition(k)
    BY <1>1 DEF SamePosition, Mapped, Stored, EffectsOf, Untaken, Unvisited
<1>4. CASE rest = {}
  <2>1. phase' = "complete" /\ Requeue({}, {}, {}, FALSE) /\ UNCHANGED posLeft
      BY <1>4 DEF BootstrapPosition
  <2>2. CleanMeansDone' /\ pending' \in [Keys -> PendingType \cup {NULL}]
      BY <1>1, <1>2, <2>1, RequeueClean DEF BooksInv
  <2>3. BookTypes'
      BY <1>1, <1>2, <2>1, <2>2 DEF BookTypes
  <2>4. \A k \in Keys : ~Due(k)
      BY <1>4 DEF Due
  <2>5. pending' = QueuedKeys({}, {}, {}, FALSE)
      BY <2>1 DEF Requeue
  <2> QED
      BY <1>1, <1>3, <2>1, <2>2, <2>3, <2>4, <2>5, BootstrapKeeps
<1>5. CASE rest # {}
  <2>1. posLeft' = posLeft \ {x} /\ Requeue({x}, {}, {}, FALSE) /\ UNCHANGED phase
      BY <1>5 DEF BootstrapPosition
  <2>2. x \in rest
      BY <1>5
  <2> HIDE DEF x
  <2>3. x \in Keys
      BY <1>2, <2>2 DEF BookTypes
  <2> DEFINE K == {x}
  <2>4. K \in SUBSET Keys /\ Requeue(K, {}, {}, FALSE)
      BY <2>1, <2>3
  <2>5. \A k \in Keys : k \notin K => (Due(k) => Due(k)')
      BY <1>1, <2>1 DEF Due
  <2> HIDE DEF K
  <2>6. CleanMeansDone' /\ pending' \in [Keys -> PendingType \cup {NULL}]
      BY <1>1, <1>2, <2>1, <2>4, RequeueClean DEF BooksInv
  <2>7. BookTypes'
      BY <1>1, <1>2, <2>1, <2>6 DEF BookTypes
  <2>8. pending' = QueuedKeys(K, {}, {}, FALSE)
      BY <2>4 DEF Requeue
  <2> QED
      BY <1>1, <1>3, <2>1, <2>5, <2>6, <2>7, <2>8, BootstrapKeeps
<1> QED
    BY <1>4, <1>5

-----------------------------------------------------------------------------
\* Preparation.

\* Once every event was visited, so are a position's.
LEMMA AllVisited ==
    ASSUME NEW k, phase # "events" PROVE Visited(k) = Mapped(k)
BY DEF Visited, Unvisited

\* The events a position's ledger lacks, and the condition to append them.
Missing(k) == {i \in Mapped(k) : eff[i] = NULL}
Appends(k) ==
    /\ pending[k].append /\ Missing(k) # {} /\ posn[k] # NULL
    /\ \A i \in Missing(k) : \A b \in (IF posn[k] = NULL THEN {} ELSE {TxOf[r.id] : r \in posn[k]}) : TxOf[i] > b

LEMMA PreparationIs ==
    ASSUME NEW k
    PROVE  LET p == Preparation(k) IN
           /\ p.key = k /\ p.gen = pending[k].gen /\ p.epoch = epoch /\ p.ran = ~pending[k].cost
           /\ pending[k].cost => p.rows = {} /\ p.writes = {} /\ p.deletes = {}
           /\ ~pending[k].cost /\ ~Appends(k) =>
                 /\ p.rows = EffectRows(Mapped(k))
                 /\ p.writes = EffectRows({i \in Mapped(k) : ~Agrees(i, k)})
                 /\ p.deletes = EffectsOf(eff, k) \ Mapped(k)
           /\ ~pending[k].cost /\ Appends(k) =>
                 /\ p.rows = posn[k] \cup EffectRows(Missing(k))
                 /\ p.writes = EffectRows({i \in Missing(k) : ~Agrees(i, k)})
                 /\ p.deletes = {}
BY DEF Preparation, Missing, Appends, Agrees

LEMMA EffectRowsType ==
    ASSUME BookTypes, NEW S \in SUBSET Stored PROVE EffectRows(S) \subseteq LedgerRow
<1>1. \A i \in S : i \in Ids /\ ev[i].owner \in Holders
    BY BooksNull DEF Stored, BookTypes, EventType
<1> QED
    BY <1>1 DEF EffectRows, LedgerRow

LEMMA EffectRowsIds ==
    ASSUME NEW S PROVE IdsOf(EffectRows(S)) = S
<1>1. \A i \in S : i \in IdsOf(EffectRows(S))
  <2>1. ASSUME NEW i \in S PROVE i \in IdsOf(EffectRows(S))
    <3>1. [id |-> i, owner |-> ev[i].owner] \in EffectRows(S)
        BY DEF EffectRows
    <3> QED
        BY <3>1 DEF IdsOf
  <2> QED
      BY <2>1
<1>2. \A r \in EffectRows(S) : r.id \in S
    BY DEF EffectRows
<1> QED
    BY <1>1, <1>2 DEF IdsOf

LEMMA PreparationFits ==
    ASSUME BooksInv, NEW k \in Keys, pending[k] # NULL, ~pending[k].cost
    PROVE  LET p == Preparation(k) IN
           /\ p.writes \subseteq p.rows /\ p.rows \subseteq LedgerRow /\ p.deletes \subseteq Ids
           /\ p.rows = {} => EffectsOf(eff, k) \subseteq p.deletes
           /\ \A r \in p.writes : r.id \in Mapped(k)
           /\ phase = "complete" \/ k \notin posLeft \/ p.rows = {} => Fits(p)
<1> DEFINE p == Preparation(k)
<1>1. /\ p.key = k /\ p.gen = pending[k].gen
      /\ ~Appends(k) =>
                 /\ p.rows = EffectRows(Mapped(k))
                 /\ p.writes = EffectRows({i \in Mapped(k) : ~Agrees(i, k)})
                 /\ p.deletes = EffectsOf(eff, k) \ Mapped(k)
      /\ Appends(k) =>
                 /\ p.rows = posn[k] \cup EffectRows(Missing(k))
                 /\ p.writes = EffectRows({i \in Missing(k) : ~Agrees(i, k)})
                 /\ p.deletes = {}
    BY PreparationIs
<1> HIDE DEF p
<1>2. BookTypes /\ Visited(k) \subseteq Mapped(k) /\ Mapped(k) \subseteq Stored
    BY DEF BooksInv, Visited, Mapped
<1>3. CASE ~Appends(k)
  <2>1. p.writes \subseteq p.rows /\ p.rows \subseteq LedgerRow /\ p.deletes \subseteq Ids
      BY <1>1, <1>2, <1>3, EffectRowsType DEF EffectRows, EffectsOf
  <2>2. IdsOf(p.rows) = Mapped(k)
      BY <1>1, <1>3, EffectRowsIds
  <2>3. p.rows = {} => Mapped(k) = {}
      BY <2>2 DEF IdsOf
  <2>4. \A r \in p.writes : r.id \in Mapped(k)
      BY <1>1, <1>3 DEF EffectRows
  <2>5. \A i \in Mapped(k) : Agrees(i, k) \/ [id |-> i, owner |-> ev[i].owner] \in p.writes
      BY <1>1, <1>3 DEF EffectRows
  <2>6. Fits(p)
      BY <1>1, <1>2, <1>3, <2>2, <2>5 DEF Fits
  <2> QED
      BY <1>1, <1>3, <2>1, <2>3, <2>4, <2>6 DEF p
<1>4. CASE Appends(k)
  <2>1. /\ pending[k].append /\ Missing(k) # {} /\ posn[k] # NULL
        /\ Missing(k) \subseteq Mapped(k)
      BY <1>4 DEF Appends, Missing
  <2>2. posn[k] \subseteq LedgerRow
      BY <1>2, <2>1 DEF BookTypes
  <2>3. EffectRows(Missing(k)) \subseteq LedgerRow /\ EffectRows(Missing(k)) # {}
      BY <1>2, <2>1, EffectRowsType DEF EffectRows
  <2>4. p.writes \subseteq p.rows /\ p.rows \subseteq LedgerRow /\ p.deletes \subseteq Ids /\ p.rows # {}
      BY <1>1, <1>4, <2>2, <2>3 DEF EffectRows
  <2>5. \A r \in p.writes : r.id \in Mapped(k)
      BY <1>1, <1>4, <2>1 DEF EffectRows
  <2>6. ASSUME phase = "complete" \/ k \notin posLeft PROVE Fits(p)
    <3>1. ~Due(k) /\ phase # "events"
        BY <1>2, <2>6 DEF Due, BookTypes
    <3>2. Extendable(k) /\ Visited(k) = Mapped(k)
        BY <2>1, <3>1, AllVisited DEF BooksInv, PositionsOK
    <3> DEFINE M == EffectsOf(eff, k) \cup Missing(k)
    <3>3. p.rows = EffectRows(M)
      <4>1. posn[k] = EffectRows(EffectsOf(eff, k))
          BY <2>1, <3>2 DEF Extendable, Rows
      <4> QED
          BY <1>1, <1>4, <4>1 DEF EffectRows
    <3>4. M = Mapped(k)
        BY <2>1, <3>2 DEF Extendable, Untaken, Missing
    <3>5. IdsOf(p.rows) = M
        BY <3>3, EffectRowsIds
    <3>6. ASSUME NEW i \in M PROVE Agrees(i, k) \/ [id |-> i, owner |-> ev[i].owner] \in p.writes
        BY <1>1, <1>4, <3>2, <3>6 DEF Extendable, EffectRows
    <3> QED
        BY <1>1, <1>4, <3>2, <3>3, <3>4, <3>5, <3>6 DEF Fits
  <2> QED
      BY <2>4, <2>5, <2>6 DEF p
<1> QED
    BY <1>3, <1>4

LEMMA PrepareInv == BooksInv /\ (\E k \in Keys : Prepare(k)) => BooksInv'
<1> SUFFICES ASSUME BooksInv, NEW k \in Keys, Prepare(k) PROVE BooksInv'
    OBVIOUS
<1>5. PICK new : new = Preparation(k)
    OBVIOUS
<1>1. /\ UNCHANGED <<ev, keyOf, eff, posn, epoch, phase, cursor, posLeft, pending, hp, count, dirty>>
      /\ k \in pass /\ pass' = pass \ {k}
      /\ prep' = IF pending[k] = NULL THEN prep ELSE prep \cup {new}
    BY <1>5 DEF Prepare, eventVars, queueVars, bookVars, bootVars
<1>2. CleanMeansDone' /\ BookTypes /\ BookTypes' /\ EffectsOwned'
  <2>1. CleanMeansDone'
      BY <1>1, SameClean DEF BooksInv
  <2> QED
      BY <1>1, <2>1 DEF BooksInv, BookTypes, EffectsOwned
<1>3. CASE pending[k] = NULL
    BY <1>1, <1>2, <1>3, QuietKeeps DEF BookTypes
<1>4. CASE pending[k] # NULL
  <2>1. /\ new.key = k /\ new.gen = pending[k].gen /\ new.epoch = epoch /\ new.ran = ~pending[k].cost
        /\ pending[k].cost => new.rows = {} /\ new.writes = {} /\ new.deletes = {}
      BY <1>5, PreparationIs
  <2>2. ~pending[k].cost =>
           /\ new.writes \subseteq new.rows /\ new.rows \subseteq LedgerRow /\ new.deletes \subseteq Ids
           /\ new.rows = {} => EffectsOf(eff, k) \subseteq new.deletes
           /\ \A r \in new.writes : r.id \in Mapped(k)
           /\ phase = "complete" \/ k \notin posLeft \/ new.rows = {} => Fits(new)
      BY <1>4, <1>5, PreparationFits
  <2>3. pending[k] \in PendingType
      BY <1>2, <1>4 DEF BookTypes
  <2>4. \A r \in new.writes : r.id \in Mapped(k)
      BY <2>1, <2>2, <2>3 DEF PendingType
  <2>5. ASSUME NEW y \in Keys PROVE SamePosition(y)
    <3>1. \A i \in Mapped(y) : Untaken(i, y) => Untaken(i, y)'
      <4>1. y # k => \A r \in new.writes : \A i \in Mapped(y) : r.id # i
          BY <2>4 DEF Mapped
      <4>2. ASSUME NEW i \in Mapped(y), Untaken(i, y) PROVE Untaken(i, y)'
          BY <1>1, <1>4, <2>1, <4>1, <4>2 DEF Untaken
      <4> QED
          BY <4>2
    <3> QED
        BY <1>1, <3>1 DEF SamePosition, Mapped, Stored, EffectsOf, Unvisited
  <2>6. PositionsOK'
    <3> SUFFICES ASSUME NEW y \in Keys, ~Due(y)'
                 PROVE  /\ (pending[y] = NULL \/ pending[y].cost => Exact(y))'
                        /\ (pending[y] # NULL /\ pending[y].append => Extendable(y))'
        BY DEF PositionsOK
    <3>1. ~Due(y)
        BY <1>1 DEF Due
    <3>2. /\ pending[y] = NULL \/ pending[y].cost => Exact(y)
          /\ pending[y] # NULL /\ pending[y].append => Extendable(y)
        BY <3>1 DEF BooksInv, PositionsOK
    <3>3. /\ Exact(y) => Exact(y)'
          /\ Extendable(y) => Extendable(y)'
        BY <1>2, <2>5, SamePositionKeeps
    <3> QED
        BY <1>1, <3>2, <3>3
  <2>7. PrepType(new)' /\ Counted(new)'
    <3>1. PrepType(new)'
        BY <1>1, <1>2, <2>1, <2>2, <2>3 DEF PrepType, PendingType, BookTypes
    <3>2. Counted(new)'
      <4>1. pending[k].gen \in Nat /\ pending[k].cost \in BOOLEAN
          BY <2>3 DEF PendingType
      <4>2. new.gen <= pending[k].gen
          BY <2>1, <4>1
      <4> QED
          BY <1>1, <1>4, <2>1, <4>1, <4>2 DEF Counted
    <3> QED
        BY <3>1, <3>2
  <2>8. new.ran => Fitting(new)'
    <3> SUFFICES ASSUME new.ran PROVE Fitting(new)'
        OBVIOUS
    <3>1. ~pending[k].cost
        BY <2>1
    <3>2. \A r \in new.writes : keyOf[r.id] # NULL
        BY <2>4, BooksNull DEF Mapped
    <3>3. Fits(new) => Fits(new)'
      <4>1. SamePosition(k)
          BY <2>5
      <4>2. PrepType(new)'
          BY <2>7
      <4>3. /\ Visited(k)' = Visited(k) /\ Mapped(k)' = Mapped(k)
            /\ \A i : Agrees(i, k)' <=> Agrees(i, k)
            /\ EffectsOf(eff, k)' = EffectsOf(eff, k)
            /\ \A S : EffectRows(S)' = EffectRows(S)
          BY <1>1 DEF Visited, Unvisited, Mapped, Stored, Agrees, EffectsOf, EffectRows
      <4>4. \A i \in Visited(k) : Untaken(i, k) => Untaken(i, k)'
          BY <4>1 DEF SamePosition, Visited
      <4> QED
          BY <1>1, <2>1, <4>3, <4>4 DEF Fits
    <3>4. EffectsOf(eff, k)' = EffectsOf(eff, k)
        BY <1>1 DEF EffectsOf
    <3> QED
        BY <1>1, <2>1, <2>2, <3>1, <3>2, <3>3, <3>4 DEF Fitting
  <2>9. PrepsOK'
    <3>1. ASSUME NEW p \in prep PROVE p.key \in Keys /\ p.key # k /\ PrepType(p) /\ PrepType(p)' /\ Counted(p)'
        BY <1>1 DEF BooksInv, PrepsOK, PrepType, Counted
    <3>2. ASSUME NEW p \in prep, p.epoch = epoch, p.ran PROVE Fitting(p)'
      <4>1. Fitting(p) /\ PrepType(p) /\ SamePosition(p.key)
          BY <2>5, <3>1, <3>2 DEF BooksInv, PrepsOK
      <4>2. Fits(p) => Fits(p)'
          BY <1>1, <1>2, <4>1, SamePositionFits
      <4>3. EffectsOf(eff, p.key)' = EffectsOf(eff, p.key)
          BY <1>1 DEF EffectsOf
      <4> QED
          BY <1>1, <4>1, <4>2, <4>3 DEF Fitting
    <3>3. prep' = prep \cup {new}
        BY <1>1, <1>4
    <3>4. \A p, q \in prep' : p.key = q.key => p = q
        BY <2>1, <3>1, <3>3 DEF BooksInv, PrepsOK
    <3> QED
        BY <1>1, <2>1, <2>7, <2>8, <3>1, <3>2, <3>3, <3>4 DEF PrepsOK
  <2> QED
      BY <1>2, <2>6, <2>9 DEF BooksInv
<1> QED
    BY <1>3, <1>4

-----------------------------------------------------------------------------
\* Publication.

LEMMA PublishClean ==
    ASSUME BooksInv, NEW k \in Keys, pending[k] # NULL, NEW done \in BOOLEAN,
           pending' = IF done THEN [pending EXCEPT ![k] = NULL] ELSE pending,
           count' = IF done THEN count - 1 ELSE count,
           dirty' = (dirty /\ ~BooksIdle(pending', phase)), UNCHANGED phase
    PROVE  CleanMeansDone' /\ pending' \in [Keys -> PendingType \cup {NULL}]
<1>1. pending \in [Keys -> PendingType \cup {NULL}] /\ CleanMeansDone
    BY DEF BooksInv, BookTypes
<1>2. pending' \in [Keys -> PendingType \cup {NULL}]
    BY <1>1
<1> DEFINE old == {y \in Keys : pending[y] # NULL}
           all == {y \in Keys : pending'[y] # NULL}
<1>3. count' = Cardinality(all)
  <2>1. CASE done
    <3>1. all = old \ {k} /\ k \in old /\ old \subseteq Keys
        BY <1>1, <2>1
    <3>2. IsFiniteSet(old)
        BY <3>1, FS_Subset, BooksAssumption
    <3>3. count = Cardinality(old)
        BY <1>1 DEF CleanMeansDone
    <3> HIDE DEF old, all
    <3>4. Cardinality(old \ {k}) = Cardinality(old) - 1
        BY <3>1, <3>2, FS_RemoveElement
    <3>5. Cardinality(all) = Cardinality(old \ {k})
        BY <3>1
    <3> QED
        BY <2>1, <3>3, <3>4, <3>5
  <2>2. CASE ~done
    <3>1. all = old
        BY <2>2
    <3>2. Cardinality(all) = Cardinality(old)
      <4> HIDE DEF old, all
      <4> QED
          BY <3>1
    <3> QED
        BY <1>1, <2>2, <3>2 DEF CleanMeansDone
  <2> QED
      BY <2>1, <2>2
<1>4. ASSUME ~dirty', NEW y \in Keys PROVE Published(y)'
  <2>1. ~dirty \/ BooksIdle(pending', phase)
      BY <1>4
  <2>2. CASE ~dirty
      BY <1>1, <2>2 DEF CleanMeansDone, Published
  <2>3. CASE BooksIdle(pending', phase)
      BY <2>3 DEF BooksIdle, Published
  <2> QED
      BY <2>1, <2>2, <2>3
<1> QED
    BY <1>2, <1>3, <1>4 DEF CleanMeansDone

\* What a publication makes of the effects.
Wanted(p) == {r \in p.writes : MayWrite(r.id, p.key)}
PublishedEffects(p) ==
    [i \in Ids |->
        IF \E r \in Wanted(p) : r.id = i
        THEN [key |-> p.key, owner |-> (CHOOSE r \in Wanted(p) : r.id = i).owner]
        ELSE IF i \in p.deletes /\ eff[i] # NULL /\ eff[i].key = p.key THEN NULL
        ELSE eff[i]]

LEMMA PublishedEffectsAre ==
    ASSUME BooksInv, NEW p \in prep, NEW i \in Ids
    PROVE  /\ (\E r \in Wanted(p) : r.id = i) =>
                 /\ PublishedEffects(p)[i] \in EventType
                 /\ PublishedEffects(p)[i].key = p.key
                 /\ \E r \in Wanted(p) : r.id = i /\ PublishedEffects(p)[i].owner = r.owner
           /\ ~(\E r \in Wanted(p) : r.id = i) =>
                 /\ i \in p.deletes /\ eff[i] # NULL /\ eff[i].key = p.key => PublishedEffects(p)[i] = NULL
                 /\ ~(i \in p.deletes /\ eff[i] # NULL /\ eff[i].key = p.key) => PublishedEffects(p)[i] = eff[i]
<1>1. p.key \in Keys /\ p.writes \subseteq LedgerRow
    BY DEF BooksInv, PrepsOK, PrepType
<1>2. ASSUME \E r \in Wanted(p) : r.id = i
      PROVE  /\ PublishedEffects(p)[i] \in EventType
             /\ PublishedEffects(p)[i].key = p.key
             /\ \E r \in Wanted(p) : r.id = i /\ PublishedEffects(p)[i].owner = r.owner
  <2> DEFINE r == CHOOSE x \in Wanted(p) : x.id = i
  <2>1. r \in Wanted(p) /\ r.id = i
      BY <1>2
  <2>2. r.owner \in Holders
      BY <1>1, <2>1 DEF Wanted, LedgerRow
  <2>3. PublishedEffects(p)[i] = [key |-> p.key, owner |-> r.owner]
      BY <1>2 DEF PublishedEffects
  <2> HIDE DEF r
  <2> QED
      BY <1>1, <2>1, <2>2, <2>3 DEF EventType
<1>3. ASSUME ~(\E r \in Wanted(p) : r.id = i)
      PROVE  /\ i \in p.deletes /\ eff[i] # NULL /\ eff[i].key = p.key => PublishedEffects(p)[i] = NULL
             /\ ~(i \in p.deletes /\ eff[i] # NULL /\ eff[i].key = p.key) => PublishedEffects(p)[i] = eff[i]
    BY <1>3 DEF PublishedEffects
<1> QED
    BY <1>2, <1>3

\* An accepted publication.
Accepted(p) ==
    /\ p \in prep /\ prep' = prep \ {p} /\ p.epoch = epoch /\ pending[p.key] # NULL
    /\ eff' = PublishedEffects(p)
    /\ posn' = IF p.ran THEN [posn EXCEPT ![p.key] = IF p.rows = {} THEN NULL ELSE p.rows] ELSE posn
    /\ pending' = IF pending[p.key].gen = p.gen THEN [pending EXCEPT ![p.key] = NULL] ELSE pending
    /\ count' = IF pending[p.key].gen = p.gen THEN count - 1 ELSE count
    /\ dirty' = (dirty /\ ~BooksIdle(pending', phase))
    /\ UNCHANGED <<ev, keyOf, epoch, phase, cursor, posLeft, pass, hp>>

LEMMA PublicationAccepted ==
    ASSUME NEW p \in prep, PublishBooks(p), p.epoch = epoch, pending[p.key] # NULL
    PROVE  Accepted(p)
BY DEF PublishBooks, Accepted, PublishedEffects, Wanted, eventVars, bootVars

\* What it does to the other positions.
LEMMA PublicationElsewhere ==
    ASSUME BooksInv, NEW p, Accepted(p), NEW k \in Keys, k # p.key \/ ~p.ran
    PROVE  SamePosition(k)
<1> USE DEF Accepted
<1>1. p \in prep /\ PrepType(p) /\ Counted(p) /\ p.key \in Keys
    BY DEF BooksInv, PrepsOK, PrepType
<1>2. Mapped(k)' = Mapped(k) /\ \A i \in Mapped(k) : ev'[i] = ev[i] /\ (Unvisited(i)' <=> Unvisited(i))
    BY DEF Mapped, Stored, Unvisited
<1>3. posn'[k] = posn[k]
    BY DEF BooksInv, BookTypes
<1>4. CASE ~p.ran
  <2>1. Wanted(p) = {} /\ p.deletes = {}
      BY <1>1, <1>4 DEF Counted, Wanted
  <2>2. \A i \in Ids : eff'[i] = eff[i]
      BY <1>1, <2>1, PublishedEffectsAre
  <2>3. EffectsOf(eff, k)' = EffectsOf(eff, k) /\ \A i \in EffectsOf(eff, k) : eff'[i] = eff[i]
      BY <2>2 DEF EffectsOf
  <2>4. \A i \in Mapped(k) : Untaken(i, k) => Untaken(i, k)'
      BY <2>2 DEF Untaken, Mapped, Stored
  <2> QED
      BY <1>2, <1>3, <2>3, <2>4 DEF SamePosition
<1>5. CASE p.ran /\ k # p.key
  <2>1. ASSUME NEW i \in Ids, eff'[i] # NULL, eff'[i].key = k PROVE eff[i] # NULL /\ eff[i].key = k
    <3>1. ~(\E r \in Wanted(p) : r.id = i)
        BY <1>1, <1>5, <2>1, PublishedEffectsAre
    <3> QED
        BY <1>1, <2>1, <3>1, PublishedEffectsAre
  <2>2. ASSUME NEW i \in Mapped(k), i \in EffectsOf(eff, k) PROVE eff'[i] = eff[i]
    <3>1. i \in Ids /\ keyOf[i] = k /\ eff[i] # NULL /\ eff[i].key = k
        BY <2>2 DEF Mapped, Stored, EffectsOf
    <3>2. ~(\E r \in Wanted(p) : r.id = i)
        BY <1>5, <3>1 DEF Wanted, MayWrite
    <3> QED
        BY <1>1, <1>5, <3>1, <3>2, PublishedEffectsAre
  <2>3. ASSUME NEW i \in Mapped(k), Untaken(i, k) PROVE Untaken(i, k)'
    <3>1. i \in Ids /\ eff[i] = NULL
        BY <2>3 DEF Mapped, Stored, Untaken
    <3>2. ~(\E r \in Wanted(p) : r.id = i)
        BY <1>1, <1>5, <2>3 DEF Wanted, Untaken
    <3>3. eff'[i] = NULL
        BY <1>1, <3>1, <3>2, PublishedEffectsAre
    <3> QED
        BY <2>3, <3>3 DEF Untaken
  <2> QED
      BY <1>2, <1>3, <2>1, <2>2, <2>3 DEF SamePosition, EffectsOf
<1> QED
    BY <1>4, <1>5

\* What it does to its own position, when it still fits.
LEMMA PublicationFits ==
    ASSUME BooksInv, NEW p, Accepted(p), p.ran, Fits(p), Fitting(p)
    PROVE  /\ Extendable(p.key)'
           /\ pending[p.key].gen = p.gen /\ Visited(p.key) = Mapped(p.key) => Exact(p.key)'
<1> USE DEF Accepted
<1> DEFINE k == p.key
           M == IdsOf(p.rows)
<1>1. p \in prep /\ PrepType(p) /\ k \in Keys /\ p.rows \subseteq LedgerRow /\ BookTypes
    BY DEF BooksInv, PrepsOK, PrepType
<1>2. /\ Mapped(k)' = Mapped(k) /\ Visited(k)' = Visited(k) /\ Visited(k) \subseteq Mapped(k)
      /\ \A S : EffectRows(S)' = EffectRows(S)
    BY DEF Mapped, Stored, Visited, Unvisited, EffectRows
<1>3. M \subseteq Mapped(k) /\ p.rows = EffectRows(M)
    BY DEF Fits
<1>4. p.writes \subseteq p.rows
    BY DEF Fitting
<1>5. \A r \in p.writes : r.id \in M /\ r.owner = ev[r.id].owner
    BY <1>3, <1>4 DEF EffectRows
<1>6. Wanted(p) = p.writes
    BY <1>3, <1>5 DEF Wanted, MayWrite, Mapped
<1>7. ASSUME NEW i \in M PROVE Agrees(i, k)'
  <2>1. i \in Ids
      BY <1>3 DEF Mapped, Stored
  <2>2. CASE \E r \in p.writes : r.id = i
    <3>1. PICK r \in p.writes : r.id = i /\ eff'[i].owner = r.owner
        BY <1>1, <1>6, <2>1, <2>2, PublishedEffectsAre
    <3>2. eff'[i] \in EventType /\ eff'[i].key = k
        BY <1>1, <1>6, <2>1, <2>2, PublishedEffectsAre
    <3>3. eff'[i].owner = ev[i].owner
        BY <1>5, <3>1
    <3>4. eff'[i] = [key |-> k, owner |-> ev[i].owner]
        BY <3>2, <3>3 DEF EventType
    <3> QED
        BY <3>4 DEF Agrees
  <2>3. CASE ~(\E r \in p.writes : r.id = i)
    <3>1. i \notin p.deletes /\ (Agrees(i, k) \/ [id |-> i, owner |-> ev[i].owner] \in p.writes)
        BY <1>7 DEF Fits
    <3>2. Agrees(i, k)
        BY <2>3, <3>1
    <3>3. eff'[i] = eff[i]
        BY <1>1, <1>6, <2>1, <2>3, <3>1, PublishedEffectsAre
    <3> QED
        BY <3>2, <3>3 DEF Agrees
  <2> QED
      BY <2>2, <2>3
<1>8. EffectsOf(eff, k)' = M
  <2>1. ASSUME NEW i \in M PROVE i \in EffectsOf(eff, k)'
    <3>1. eff'[i] = [key |-> k, owner |-> ev[i].owner] /\ i \in Ids /\ ev[i] \in EventType
        BY <1>1, <1>3, <1>7 DEF Agrees, Mapped, Stored, BookTypes
    <3>2. eff'[i] \in EventType
        BY <1>1, <3>1 DEF EventType
    <3> QED
        BY <3>1, <3>2, BooksNull DEF EffectsOf
  <2>2. ASSUME NEW i \in Ids, eff'[i] # NULL, eff'[i].key = k PROVE i \in M
    <3>1. CASE \E r \in p.writes : r.id = i
        BY <1>5, <3>1
    <3>2. CASE ~(\E r \in p.writes : r.id = i)
      <4>1. eff'[i] = eff[i] /\ ~(i \in p.deletes /\ eff[i] # NULL /\ eff[i].key = k)
          BY <1>1, <1>6, <2>2, <3>2, PublishedEffectsAre
      <4>2. i \in EffectsOf(eff, k) /\ i \notin p.deletes
          BY <2>2, <4>1 DEF EffectsOf
      <4> QED
          BY <4>2 DEF Fits
    <3> QED
        BY <3>1, <3>2
  <2> QED
      BY <2>1, <2>2 DEF EffectsOf
<1>9. Rows(k)' = p.rows
  <2>1. posn'[k] = IF p.rows = {} THEN NULL ELSE p.rows
      BY <1>1 DEF BookTypes
  <2>2. p.rows # NULL
      BY <1>1, BooksNull
  <2> QED
      BY <2>1, <2>2 DEF Rows
<1>10. Extendable(k)'
  <2>1. ASSUME NEW i \in Visited(k) PROVE i \in M \/ Untaken(i, k)'
    <3> SUFFICES ASSUME i \notin M PROVE Untaken(i, k)'
        OBVIOUS
    <3>1. Untaken(i, k) /\ i \in Ids
        BY <1>2, <2>1 DEF Fits, Mapped, Stored
    <3>2. eff'[i] = NULL
        BY <1>1, <1>5, <1>6, <3>1, PublishedEffectsAre DEF Untaken
    <3> QED
        BY <3>1, <3>2 DEF Untaken
  <2>2. Rows(k)' = EffectRows(EffectsOf(eff, k))'
      BY <1>2, <1>3, <1>8, <1>9
  <2> QED
      BY <1>2, <1>3, <1>7, <1>8, <2>1, <2>2 DEF Extendable
<1>11. ASSUME pending[k].gen = p.gen, Visited(k) = Mapped(k) PROVE Exact(k)'
  <2>1. M = Visited(k)'
      BY <1>2, <1>11 DEF Fits
  <2>2. Rows(k)' = EffectRows(Visited(k))'
      BY <1>2, <1>3, <1>9, <2>1
  <2> QED
      BY <1>7, <1>8, <2>1, <2>2 DEF Exact
<1> QED
    BY <1>10, <1>11

LEMMA PublishInv == BooksInv /\ (\E p \in prep : PublishBooks(p)) => BooksInv'
<1> SUFFICES ASSUME BooksInv, NEW p \in prep, PublishBooks(p) PROVE BooksInv'
    OBVIOUS
<1> DEFINE k == p.key
           done == pending[k].gen = p.gen
<1>1. BookTypes /\ PrepType(p) /\ Counted(p) /\ k \in Keys
    BY DEF BooksInv, PrepsOK, PrepType
<1>2. CASE ~(p.epoch = epoch /\ pending[k] # NULL)
  <2>1. /\ UNCHANGED <<ev, keyOf, eff, posn, epoch, phase, cursor, posLeft, pending, count, dirty, pass, hp>>
        /\ prep' \subseteq prep
      BY <1>2 DEF PublishBooks, eventVars, queueVars, bookVars, bootVars
  <2>2. CleanMeansDone'
      BY <2>1, SameClean DEF BooksInv
  <2> QED
      BY <1>1, <2>1, <2>2, QuietKeeps DEF BookTypes
<1>3. CASE p.epoch = epoch /\ pending[k] # NULL
  <2>1. Accepted(p)
      BY <1>3, PublicationAccepted
  <2>2. /\ UNCHANGED <<ev, keyOf, epoch, phase, cursor, posLeft, pass, hp>>
        /\ prep' = prep \ {p} /\ eff' = PublishedEffects(p)
        /\ posn' = IF p.ran THEN [posn EXCEPT ![k] = IF p.rows = {} THEN NULL ELSE p.rows] ELSE posn
        /\ pending' = IF done THEN [pending EXCEPT ![k] = NULL] ELSE pending
        /\ count' = IF done THEN count - 1 ELSE count
        /\ dirty' = (dirty /\ ~BooksIdle(pending', phase))
      BY <2>1 DEF Accepted
  <2>3. CleanMeansDone' /\ pending' \in [Keys -> PendingType \cup {NULL}]
      BY <1>1, <1>3, <2>2, PublishClean
  <2>4. p.ran => Fitting(p)
      BY <1>3 DEF BooksInv, PrepsOK
  <2>5. BookTypes'
    <3>1. \A i \in Ids : eff'[i] \in EventType \cup {NULL}
        BY <1>1, <2>2, PublishedEffectsAre DEF BookTypes
    <3>2. eff' \in [Ids -> EventType \cup {NULL}]
        BY <2>2, <3>1 DEF PublishedEffects
    <3>3. posn' \in [Keys -> (SUBSET LedgerRow) \cup {NULL}]
        BY <1>1, <2>2 DEF BookTypes, PrepType
    <3> QED
        BY <1>1, <2>2, <2>3, <3>2, <3>3 DEF BookTypes
  <2>6. EffectsOwned'
    <3> SUFFICES ASSUME NEW i \in Ids, eff'[i] # NULL PROVE posn'[eff'[i].key] # NULL
        BY DEF EffectsOwned
    <3>1. CASE \E r \in Wanted(p) : r.id = i
      <4>1. eff'[i].key = k /\ p.writes # {}
          BY <2>2, <3>1, PublishedEffectsAre DEF Wanted
      <4>2. p.ran /\ p.rows # {} /\ p.rows # NULL
          BY <1>1, <2>4, <4>1, BooksNull DEF Counted, Fitting, PrepType
      <4> QED
          BY <1>1, <2>2, <4>1, <4>2 DEF BookTypes
    <3>2. CASE ~(\E r \in Wanted(p) : r.id = i)
      <4>1. eff'[i] = eff[i] /\ ~(i \in p.deletes /\ eff[i] # NULL /\ eff[i].key = k)
          BY <2>2, <3>2, PublishedEffectsAre
      <4>2. posn[eff[i].key] # NULL /\ eff[i].key \in Keys
          BY <1>1, <4>1 DEF BooksInv, EffectsOwned, BookTypes, EventType
      <4>3. CASE p.ran /\ eff[i].key = k
        <5>1. p.rows # {} /\ p.rows # NULL
            BY <1>1, <2>4, <4>1, <4>3, BooksNull DEF Fitting, EffectsOf, PrepType
        <5> QED
            BY <1>1, <2>2, <4>1, <4>3, <5>1 DEF BookTypes
      <4>4. CASE ~(p.ran /\ eff[i].key = k)
          BY <1>1, <2>2, <4>1, <4>2, <4>4 DEF BookTypes
      <4> QED
          BY <4>3, <4>4
    <3> QED
        BY <3>1, <3>2
  <2>7. \A y \in Keys : y # k \/ ~p.ran => SamePosition(y)
      BY <2>1, PublicationElsewhere
  <2>8. \A y \in Keys : y # k => pending'[y] = pending[y] /\ posn'[y] = posn[y]
      BY <1>1, <2>2 DEF BookTypes
  <2>9. pending'[k] = IF done THEN NULL ELSE pending[k]
      BY <1>1, <2>2 DEF BookTypes
  <2>10. PositionsOK'
    <3> SUFFICES ASSUME NEW y \in Keys, ~Due(y)'
                 PROVE  /\ pending'[y] = NULL \/ pending'[y].cost => Exact(y)'
                        /\ pending'[y] # NULL /\ pending'[y].append => Extendable(y)'
        BY DEF PositionsOK
    <3>1. CASE y # k
      <4>1. ~Due(y)
          BY <2>2, <2>8, <3>1 DEF Due
      <4>2. /\ Exact(y) => Exact(y)'
            /\ Extendable(y) => Extendable(y)'
          BY <1>1, <2>7, <3>1, SamePositionKeeps
      <4> QED
          BY <2>8, <3>1, <4>1, <4>2 DEF BooksInv, PositionsOK
    <3>2. CASE y = k /\ ~p.ran
      <4>1. ~Due(y)
          BY <2>2, <3>2 DEF Due
      <4>2. /\ Exact(y) => Exact(y)'
            /\ Extendable(y) => Extendable(y)'
          BY <1>1, <2>7, <3>2, SamePositionKeeps
      <4>3. done => pending[y].cost
          BY <1>1, <3>2 DEF Counted
      <4> QED
          BY <2>9, <3>2, <4>1, <4>2, <4>3 DEF BooksInv, PositionsOK
    <3>3. CASE y = k /\ p.ran
      <4>1. posn'[k] = IF p.rows = {} THEN NULL ELSE p.rows
          BY <1>1, <2>2, <3>3 DEF BookTypes
      <4>2. p.rows # NULL
          BY <1>1, BooksNull DEF PrepType
      <4>3. phase = "complete" \/ k \notin posLeft \/ p.rows = {}
          BY <2>2, <3>3, <4>1, <4>2 DEF Due
      <4>4. ~pending[k].cost
          BY <1>1, <3>3 DEF Counted
      <4>5. ASSUME done PROVE Exact(k)'
        <5>1. Fits(p)
            BY <2>4, <3>3, <4>3, <4>5 DEF Fitting
        <5>2. Visited(k) = Mapped(k)
          <6>1. CASE p.rows = {}
              BY <4>5, <5>1, <6>1 DEF Fits, IdsOf, Visited
          <6>2. CASE phase # "events"
              BY <6>2, AllVisited
          <6> QED
              BY <1>1, <4>3, <6>1, <6>2 DEF BookTypes
        <5> QED
          <6>1. BooksInv /\ Accepted(p) /\ p.ran /\ Fits(p) /\ Fitting(p)
              BY <2>1, <2>4, <3>3, <5>1
          <6> QED
              BY <4>5, <5>2, <6>1, PublicationFits, Zenon
      <4>6. ASSUME pending[k].append PROVE Extendable(k)'
        <5>1. Fits(p)
            BY <2>4, <3>3, <4>3, <4>6 DEF Fitting
        <5> QED
          <6>1. BooksInv /\ Accepted(p) /\ p.ran /\ Fits(p) /\ Fitting(p)
              BY <2>1, <2>4, <3>3, <5>1
          <6> QED
              BY <6>1, PublicationFits, Zenon
      <4> QED
        <5>1. pending'[k] = NULL \/ pending'[k].cost => Exact(k)'
            BY <1>3, <2>9, <4>4, <4>5
        <5>2. pending'[k] # NULL /\ pending'[k].append => Extendable(k)'
            BY <2>9, <4>6
        <5> HIDE DEF k
        <5>3. y = k
            BY <3>3
        <5> QED
            BY <5>1, <5>2, <5>3
    <3> QED
        BY <3>1, <3>2, <3>3
  <2>11. PrepsOK'
    <3>1. ASSUME NEW q \in prep' PROVE q \in prep /\ q.key # k /\ q.key \in Keys /\ PrepType(q) /\ PrepType(q)' /\ Counted(q)'
      <4>1. q \in prep /\ q # p /\ PrepType(q) /\ Counted(q)
          BY <2>2 DEF BooksInv, PrepsOK
      <4>2. q.key # k /\ q.key \in Keys
          BY <4>1 DEF BooksInv, PrepsOK, PrepType
      <4>3. PrepType(q)'
          BY <2>2, <4>1 DEF PrepType
      <4>4. Counted(q)'
          BY <2>8, <4>1, <4>2 DEF Counted
      <4> QED
          BY <4>1, <4>2, <4>3, <4>4
    <3>2. ASSUME NEW q \in prep', q.epoch = epoch', q.ran PROVE Fitting(q)'
      <4>1. q \in prep /\ Fitting(q) /\ SamePosition(q.key) /\ pending'[q.key] = pending[q.key]
          BY <2>2, <2>7, <2>8, <3>1, <3>2 DEF BooksInv, PrepsOK
      <4>2. Fits(q) => Fits(q)'
          BY <1>1, <3>1, <4>1, SamePositionFits
      <4>3. EffectsOf(eff, q.key)' \subseteq EffectsOf(eff, q.key)
          BY <4>1 DEF SamePosition
      <4> QED
        <5>1. q.rows = {} => EffectsOf(eff, q.key)' \subseteq q.deletes
            BY <4>1, <4>3 DEF Fitting
        <5>2. \A r \in q.writes : keyOf'[r.id] # NULL
            BY <2>2, <4>1 DEF Fitting
        <5>3. /\ pending'[q.key].gen = q.gen \/ pending'[q.key].append
              /\ phase' = "complete" \/ q.key \notin posLeft' \/ q.rows = {}
              => Fits(q)'
            BY <2>2, <4>1, <4>2 DEF Fitting
        <5> QED
            BY <4>1, <5>1, <5>2, <5>3 DEF Fitting
    <3>3. \A q, r \in prep' : q.key = r.key => q = r
        BY <3>1 DEF BooksInv, PrepsOK
    <3> QED
        BY <3>1, <3>2, <3>3 DEF PrepsOK
  <2> QED
      BY <2>3, <2>5, <2>6, <2>10, <2>11 DEF BooksInv
<1> QED
    BY <1>2, <1>3

-----------------------------------------------------------------------------
LEMMA BooksStutter == BooksInv /\ UNCHANGED booksAll => BooksInv'
<1> SUFFICES ASSUME BooksInv, UNCHANGED booksAll PROVE BooksInv'
    OBVIOUS
<1>1. /\ UNCHANGED <<ev, keyOf, eff, posn, epoch, phase, cursor, posLeft, pending, count, dirty, pass, prep, hp>>
    BY DEF booksAll, eventVars, queueVars, bookVars, bootVars, passVars
<1>2. CleanMeansDone'
    BY <1>1, SameClean DEF BooksInv
<1> QED
    BY <1>1, <1>2, QuietKeeps DEF BooksInv, BookTypes

LEMMA BooksStep == BooksInv /\ [BooksNext]_booksAll => BooksInv'
<1> SUFFICES ASSUME BooksInv, [BooksNext]_booksAll PROVE BooksInv'
    OBVIOUS
<1>1. CASE Ingestion
    BY <1>1, NewEventInv, CorrectInv, ReceiptInv, RollbackInv DEF Ingestion
<1>2. CASE Bootstrap
    BY <1>2, BootstrapEventInv, BootstrapStaleInv, BootstrapPositionInv DEF Bootstrap
<1>3. CASE Projection
    BY <1>3, StartPassInv, PrepareInv, RetryDueInv, PublishInv DEF Projection
<1> QED
    BY <1>1, <1>2, <1>3, PrepareFailsInv, HintPageInv, HintPublishInv, RestartInv, BooksStutter
    DEF BooksNext

\* A position that is not queued and not to be visited is published exactly.
LEMMA LedgerSettled == BooksInv => LedgerExact
<1> SUFFICES ASSUME BooksInv, NEW k \in Keys, Published(k)
             PROVE  /\ (IF posn[k] = NULL THEN {} ELSE posn[k]) = EffectRows(Mapped(k))
                    /\ \A i \in Mapped(k) : eff[i] = [key |-> k, owner |-> ev[i].owner]
                    /\ EffectsOf(eff, k) \subseteq Mapped(k)
    BY DEF LedgerExact
<1>1. Exact(k)
    BY DEF BooksInv, PositionsOK, Published, Due
<1>2. Visited(k) = Mapped(k)
    BY AllVisited DEF Published
<1> QED
    BY <1>1, <1>2 DEF Exact, Rows, Agrees

-----------------------------------------------------------------------------
\* The costs of transactions and episodes.

TxsOf(S) == {TxOf[i] : i \in S}

\* An event of the transaction still has no effect: it will be written.
Unwritten(t) == \E i \in Stored : TxOf[i] = t /\ eff[i] = NULL

\* The receipt came after the cost; a full replay of a position that holds an
\* event of the transaction is due and will look for it.
GasMissing(t) == t \in gas /\ cost[t] # NULL /\ ~cost[t].gas
FullReplay(k, t) ==
    /\ pending[k] # NULL /\ ~pending[k].append /\ ~pending[k].cost
    /\ \A p \in prep : p.key = k /\ p.epoch = epoch /\ p.gen = pending[k].gen => t \in p.txs
WillResolve(t) ==
    \E i \in Stored : TxOf[i] = t /\ eff[i] # NULL /\ (Unvisited(i) \/ FullReplay(ev[i].key, t))

CostsOwed ==
    \A t \in Txs : \/ cost[t] = CostOf(eff, t)
                   \/ \E k \in Keys : t \in owing[k]
                   \/ Unwritten(t)
                   \/ GasMissing(t) /\ WillResolve(t)

CostsBacked ==
    \A t \in Txs : cost[t] # NULL =>
        /\ \E i \in Ids : TxOf[i] = t /\ eff[i] # NULL
        /\ cost[t].key # NULL =>
              \A i \in Ids : TxOf[i] = t /\ eff[i] # NULL => eff[i].key = cost[t].key

EffectsStored == \A i \in Ids : eff[i] # NULL => ev[i] # NULL
KeysVisited == \A i \in Stored : ~Unvisited(i) => keyOf[i] = ev[i].key
OwingQueued ==
    /\ owing = [k \in Keys |-> owing[k]]
    /\ \A k \in Keys : pending[k] = NULL => owing[k] = {}

\* A publication refreshes the cost of whatever it changes or was asked for.
Refreshes(p) ==
    /\ \A i \in p.deletes : TxOf[i] \in p.txs
    /\ \A r \in p.writes : TxOf[r.id] \in p.txs /\ ev[r.id] # NULL
    /\ p.gen = pending[p.key].gen => owing[p.key] \subseteq p.txs
PrepCosts == \A p \in prep : p.epoch = epoch => Refreshes(p)

\* While no event changed its position, effects are where the events are and
\* no preparation takes one.
OwnEffects ==
    \A i \in Stored : keyOf[i] \in {NULL, ev[i].key} /\ (eff[i] # NULL => eff[i].key = ev[i].key)
EpisodeNoticed(p) ==
    \/ p.key \in p.episodes
    \/ TxsOf(EffectsOf(eff, p.key)) = TxsOf((EffectsOf(eff, p.key) \ p.deletes) \cup IdsOf(p.writes))
OwnWrites ==
    \A p \in prep : p.epoch = epoch => EpisodeNoticed(p) /\ \A r \in p.writes : keyOf[r.id] = p.key
GasExact == \A k \in Keys : epGas[k] = GasOf(eff, cost, k)

CostsInv ==
    /\ CostsOwed /\ CostsBacked /\ EffectsStored /\ KeysVisited /\ OwingQueued /\ PrepCosts
    /\ ~moved => OwnEffects /\ OwnWrites /\ GasExact

\* A cost depends on the transaction's own effects, events and receipt.
LEMMA CostCongruence ==
    ASSUME NEW f, NEW f2, NEW S \in SUBSET Ids, NEW S2 \in SUBSET Ids, NEW g, NEW g2, NEW t,
           \A i \in Ids : TxOf[i] = t => f2[i] = f[i] /\ (i \in S2 <=> i \in S),
           t \in g2 <=> t \in g
    PROVE  CostIn(f2, S2, g2, t) = CostIn(f, S, g, t)
<1> DEFINE mine == {i \in Ids : f[i] # NULL /\ TxOf[i] = t}
           keys == {f[i].key : i \in mine}
           unmapped == \E i \in S : TxOf[i] = t /\ f[i] = NULL
           only == CHOOSE k \in keys : TRUE
           why == CASE t \notin g -> "missing_transaction"
                    [] t \in g /\ unmapped -> "shared_or_unmapped_position"
                    [] t \in g /\ ~unmapped /\ Cardinality(keys) # 1 -> "shared_position"
                    [] OTHER -> "exact"
           mine2 == {i \in Ids : f2[i] # NULL /\ TxOf[i] = t}
           keys2 == {f2[i].key : i \in mine2}
           unmapped2 == \E i \in S2 : TxOf[i] = t /\ f2[i] = NULL
           only2 == CHOOSE k \in keys2 : TRUE
           why2 == CASE t \notin g2 -> "missing_transaction"
                     [] t \in g2 /\ unmapped2 -> "shared_or_unmapped_position"
                     [] t \in g2 /\ ~unmapped2 /\ Cardinality(keys2) # 1 -> "shared_position"
                     [] OTHER -> "exact"
<1>1. CostIn(f, S, g, t) = IF mine = {} THEN NULL
            ELSE [why |-> why, key |-> IF why = "exact" THEN only ELSE NULL, gas |-> t \in g]
    BY DEF CostIn
<1>2. CostIn(f2, S2, g2, t) = IF mine2 = {} THEN NULL
            ELSE [why |-> why2, key |-> IF why2 = "exact" THEN only2 ELSE NULL, gas |-> t \in g2]
    BY DEF CostIn
<1>3. mine2 = mine
    OBVIOUS
<1>4. keys2 = keys
    BY <1>3
<1>5. unmapped2 <=> unmapped
    OBVIOUS
<1>6. Cardinality(keys2) = Cardinality(keys) /\ only2 = only
  <2> HIDE DEF keys, keys2
  <2> QED
      BY <1>4
<1>7. why2 = why
  <2> HIDE DEF keys, keys2, unmapped, unmapped2
  <2> QED
      BY <1>5, <1>6
<1>8. (t \in g2) = (t \in g)
    OBVIOUS
<1> HIDE DEF mine, mine2, why, why2, only, only2
<1> QED
    BY <1>1, <1>2, <1>3, <1>6, <1>7, <1>8

LEMMA CostIs ==
    ASSUME NEW f \in [Ids -> EventType \cup {NULL}], NEW S, NEW g, NEW t
    PROVE  /\ (\A i \in Ids : f[i] # NULL => TxOf[i] # t) => CostIn(f, S, g, t) = NULL
           /\ (\E i \in Ids : f[i] # NULL /\ TxOf[i] = t) =>
                 /\ CostIn(f, S, g, t) # NULL
                 /\ CostIn(f, S, g, t).gas <=> t \in g
           /\ CostIn(f, S, g, t) # NULL /\ CostIn(f, S, g, t).key # NULL =>
                 \A i \in Ids : f[i] # NULL /\ TxOf[i] = t => f[i].key = CostIn(f, S, g, t).key
<1> DEFINE mine == {i \in Ids : f[i] # NULL /\ TxOf[i] = t}
           keys == {f[i].key : i \in mine}
           unmapped == \E i \in S : TxOf[i] = t /\ f[i] = NULL
           only == CHOOSE k \in keys : TRUE
           why == CASE t \notin g -> "missing_transaction"
                    [] t \in g /\ unmapped -> "shared_or_unmapped_position"
                    [] t \in g /\ ~unmapped /\ Cardinality(keys) # 1 -> "shared_position"
                    [] OTHER -> "exact"
           c == [why |-> why, key |-> IF why = "exact" THEN only ELSE NULL, gas |-> t \in g]
<1>1. CostIn(f, S, g, t) = IF mine = {} THEN NULL ELSE c
    BY DEF CostIn
<1>2. why \in {"missing_transaction", "shared_or_unmapped_position", "shared_position", "exact"}
    OBVIOUS
<1>3. why = "exact" => Cardinality(keys) = 1
    OBVIOUS
<1>4. keys \subseteq Keys /\ (mine # {} => keys # {})
    BY BooksNull DEF EventType
<1> HIDE DEF why
<1>5. only \in Keys \/ keys = {}
  <2> HIDE DEF keys
  <2> QED
      BY <1>4
<1>6. mine # {} => c # NULL
  <2>1. mine # {} => only \in Keys
    <3> HIDE DEF mine, keys, only
    <3> QED
        BY <1>4, <1>5
  <2>2. ASSUME mine # {} PROVE c \in [why : {"missing_transaction", "shared_or_unmapped_position",
                                    "shared_position", "exact"}, key : Keys \cup {NULL}, gas : BOOLEAN]
    <3> HIDE DEF mine, keys, only
    <3> QED
        BY <1>2, <2>1, <2>2
  <2> QED
      BY <2>2, BooksAssumption
<1>7. ASSUME mine # {}, c.key # NULL, NEW i \in mine PROVE f[i].key = c.key
  <2>1. why = "exact" /\ c.key = only
      BY <1>7
  <2>2. IsFiniteSet(keys) /\ Cardinality(keys) = 1
      BY <1>3, <1>4, <2>1, FS_Subset, BooksAssumption
  <2>3. f[i].key \in keys
      BY <1>7
  <2>4. \E x : keys = {x}
    <3> HIDE DEF keys
    <3> QED
        BY <2>2, FS_Singleton
  <2>5. only = f[i].key
    <3> HIDE DEF keys
    <3> QED
        BY <2>3, <2>4
  <2> QED
      BY <2>1, <2>5
<1>8. c.gas <=> t \in g
    OBVIOUS
<1> HIDE DEF c
<1> QED
    BY <1>1, <1>6, <1>7, <1>8

\* The gas of an episode depends on the transactions of its effects.
LEMMA GasCongruence ==
    ASSUME NEW f, NEW f2, NEW c, NEW c2, NEW k,
           TxsOf(EffectsOf(f2, k)) = TxsOf(EffectsOf(f, k)),
           \A t \in TxsOf(EffectsOf(f, k)) : c2[t] = c[t]
    PROVE  GasOf(f2, c2, k) = GasOf(f, c, k)
BY DEF GasOf, TxsOf

LEMMA StoredIn == Stored \subseteq Ids
BY DEF Stored

-----------------------------------------------------------------------------
LEMMA LegacyCosts ==
    ASSUME NEW s \in Legacy, NEW S, {i \in Ids : s.ev[i] # NULL} = S
    PROVE  /\ \A i \in Ids : s.eff[i] # NULL => i \in S
           /\ \A t \in Txs : s.cost[t] = CostIn(s.eff, S, s.gas, t)
           /\ ~s.moved => \A i \in S : s.keyOf[i] = NULL \/ s.keyOf[i] = s.ev[i].key
           /\ ~s.moved => \A i \in S : s.eff[i] # NULL => s.eff[i].key = s.ev[i].key
           /\ ~s.moved => \A k \in Keys : s.epGas[k] = GasOf(s.eff, s.cost, k)
<1>1. CostsConsistent(s)
    BY LegacyAssumption
<1>2. \A i \in Ids : s.eff[i] # NULL => i \in S
    BY <1>1 DEF CostsConsistent
<1>3. \A t \in Txs : s.cost[t] = CostIn(s.eff, S, s.gas, t)
    BY <1>1 DEF CostsConsistent
<1>4. ASSUME ~s.moved, NEW i \in S
      PROVE  /\ s.keyOf[i] = NULL \/ s.keyOf[i] = s.ev[i].key
             /\ s.eff[i] # NULL => s.eff[i].key = s.ev[i].key
  <2>1. i \in {j \in Ids : s.ev[j] # NULL}
      BY <1>4
  <2>2. s.keyOf[i] \in {NULL, s.ev[i].key}
      BY <1>1, <1>4, <2>1 DEF CostsConsistent
  <2>3. s.eff[i] # NULL => s.eff[i].key = s.ev[i].key
      BY <1>1, <1>4, <2>1 DEF CostsConsistent
  <2> QED
      BY <2>2, <2>3
<1>5. ASSUME ~s.moved, NEW k \in Keys PROVE s.epGas[k] = GasOf(s.eff, s.cost, k)
    BY <1>1, <1>5 DEF CostsConsistent
<1> QED
    BY <1>2, <1>3, <1>4, <1>5

LEMMA CostsInit == BooksInit => CostsInv
<1> SUFFICES ASSUME BooksInit PROVE CostsInv
    OBVIOUS
<1>1. PICK start \in Legacy :
        /\ ev = start.ev /\ keyOf = start.keyOf /\ posn = start.posn /\ phase = start.phase
        /\ gas = start.gas /\ moved = start.moved /\ eff = start.eff /\ cost = start.cost
        /\ epGas = start.epGas /\ epoch = 0 /\ cursor = 0 /\ prep = {}
        /\ owing = [k \in Keys |-> {}]
    BY DEF BooksInit
<1>2. /\ eff \in [Ids -> EventType \cup {NULL}]
      /\ phase \in {"events", "complete"}
      /\ phase = "complete" => \A i \in Ids : ev[i] # NULL => keyOf[i] = ev[i].key
    BY <1>1, LegacyAssumption DEF EventType
<1> DEFINE S == {i \in Ids : start.ev[i] # NULL}
<1>3. S = Stored
    BY <1>1 DEF Stored
<1> HIDE DEF S
<1>a. \A i \in Ids : eff[i] # NULL => i \in Stored
  <2>1. \A i \in Ids : start.eff[i] # NULL => i \in S
      BY LegacyCosts DEF S
  <2> QED
      BY <1>1, <1>3, <2>1
<1>b. \A t \in Txs : cost[t] = CostIn(eff, Stored, gas, t)
  <2>1. \A t \in Txs : start.cost[t] = CostIn(start.eff, S, start.gas, t)
      BY LegacyCosts DEF S
  <2> QED
      BY <1>1, <1>3, <2>1
<1>c. ASSUME ~moved, NEW i \in Stored
      PROVE  keyOf[i] \in {NULL, ev[i].key} /\ (eff[i] # NULL => eff[i].key = ev[i].key)
  <2>1. ~start.moved
      BY <1>1, <1>c
  <2>2. \A j \in S : start.keyOf[j] = NULL \/ start.keyOf[j] = start.ev[j].key
      BY <2>1, LegacyCosts DEF S
  <2>3. \A j \in S : start.eff[j] # NULL => start.eff[j].key = start.ev[j].key
      BY <2>1, LegacyCosts DEF S
  <2>4. i \in S
      BY <1>3
  <2>5. start.keyOf[i] = NULL \/ start.keyOf[i] = start.ev[i].key
      BY <2>2, <2>4
  <2>6. start.eff[i] # NULL => start.eff[i].key = start.ev[i].key
      BY <2>3, <2>4
  <2> QED
      BY <1>1, <2>5, <2>6
<1>d. ASSUME ~moved, NEW k \in Keys PROVE epGas[k] = GasOf(eff, cost, k)
  <2>1. ~start.moved
      BY <1>1, <1>d
  <2>2. \A j \in Keys : start.epGas[j] = GasOf(start.eff, start.cost, j)
      BY <2>1, LegacyCosts DEF S
  <2> QED
      BY <1>1, <2>2
<1>4. CostsOwed
    BY <1>b DEF CostsOwed, CostOf
<1>5. CostsBacked
  <2> SUFFICES ASSUME NEW t \in Txs, cost[t] # NULL
               PROVE  /\ \E i \in Ids : TxOf[i] = t /\ eff[i] # NULL
                      /\ cost[t].key # NULL =>
                            \A i \in Ids : TxOf[i] = t /\ eff[i] # NULL => eff[i].key = cost[t].key
      BY DEF CostsBacked
  <2>1. cost[t] = CostIn(eff, Stored, gas, t)
      BY <1>b
  <2> QED
      BY <1>2, <2>1, CostIs
<1>6. KeysVisited
  <2>1. ASSUME NEW i \in Stored, ~Unvisited(i) PROVE keyOf[i] = ev[i].key
    <3>1. i > cursor
        BY <1>1, BooksAssumption, StoredIn
    <3> QED
        BY <1>2, <2>1, <3>1 DEF Unvisited, Stored
  <2> QED
      BY <2>1 DEF KeysVisited
<1>7. EffectsStored /\ OwingQueued /\ PrepCosts
    BY <1>1, <1>a DEF EffectsStored, Stored, OwingQueued, PrepCosts
<1>8. ASSUME ~moved PROVE OwnEffects /\ OwnWrites /\ GasExact
  <2>1. OwnEffects
      BY <1>8, <1>c DEF OwnEffects
  <2>2. OwnWrites
      BY <1>1 DEF OwnWrites
  <2>3. GasExact
      BY <1>8, <1>d DEF GasExact
  <2> QED
      BY <2>1, <2>2, <2>3
<1> QED
    BY <1>4, <1>5, <1>6, <1>7, <1>8 DEF CostsInv

\* Steps that change no ledger, no event and no proof of the queue.
LEMMA CostsQuiet ==
    ASSUME CostsInv,
           UNCHANGED <<ev, keyOf, gas, eff, cost, epGas, owing, moved, epoch, phase, cursor>>,
           prep' \subseteq prep,
           \A k \in Keys : /\ pending'[k] = NULL <=> pending[k] = NULL
                           /\ pending'[k].gen = pending[k].gen
                           /\ pending'[k].append = pending[k].append
                           /\ pending'[k].cost = pending[k].cost,
           BookTypes, PrepsOK
    PROVE  CostsInv'
<1>1. /\ Stored' = Stored /\ \A i : Unvisited(i)' <=> Unvisited(i)
      /\ \A t : CostOf(eff, t)' = CostOf(eff, t)
      /\ \A k : EffectsOf(eff, k)' = EffectsOf(eff, k)
      /\ \A t : (Unwritten(t)' <=> Unwritten(t)) /\ (GasMissing(t)' <=> GasMissing(t))
    BY DEF Stored, Unvisited, CostOf, CostIn, EffectsOf, Unwritten, GasMissing
<1>2. ASSUME NEW t, WillResolve(t) PROVE WillResolve(t)'
  <2>1. PICK i \in Stored : TxOf[i] = t /\ eff[i] # NULL /\ (Unvisited(i) \/ FullReplay(ev[i].key, t))
      BY <1>2 DEF WillResolve
  <2>2. ev[i].key \in Keys
      BY DEF Stored, BookTypes, EventType
  <2>3. FullReplay(ev[i].key, t) => FullReplay(ev[i].key, t)'
      BY <2>2 DEF FullReplay
  <2> QED
      BY <1>1, <2>1, <2>3 DEF WillResolve
<1>3. CostsOwed'
    BY <1>1, <1>2 DEF CostsInv, CostsOwed
<1>4. CostsBacked' /\ EffectsStored' /\ KeysVisited' /\ OwingQueued'
    BY <1>1 DEF CostsInv, CostsBacked, EffectsStored, KeysVisited, OwingQueued
<1>5. ASSUME NEW p \in prep', p.epoch = epoch' PROVE Refreshes(p)'
  <2>1. p.key \in Keys /\ Refreshes(p)
      BY <1>5 DEF CostsInv, PrepCosts, PrepsOK, PrepType
  <2> QED
      BY <2>1 DEF Refreshes
<1>6. ASSUME ~moved' PROVE OwnEffects' /\ OwnWrites' /\ GasExact'
  <2>1. OwnEffects /\ OwnWrites /\ GasExact
      BY <1>6 DEF CostsInv
  <2>2. OwnEffects'
      BY <1>1, <2>1 DEF OwnEffects
  <2>3. OwnWrites'
      BY <1>1, <2>1 DEF OwnWrites, EpisodeNoticed, TxsOf
  <2>4. GasExact'
      BY <1>1, <2>1 DEF GasExact, GasOf
  <2> QED
      BY <2>2, <2>3, <2>4
<1> QED
    BY <1>3, <1>4, <1>5, <1>6 DEF CostsInv, PrepCosts

\* What a preparation asks the costs and the episodes for.
Full(k) == ~pending[k].cost /\ ~Appends(k)
Desired(k) == IF Full(k) THEN Mapped(k) ELSE Missing(k)
Changed(k) == {i \in Desired(k) : ~Agrees(i, k)}
Before(k) == {<<k, TxOf[i]>> : i \in EffectsOf(eff, k)}
                 \cup {<<eff[i].key, TxOf[i]>> : i \in {j \in Changed(k) : eff[j] # NULL}}
After(k) == IF Full(k) THEN {<<k, TxOf[i]>> : i \in Mapped(k)}
            ELSE Before(k) \cup {<<k, TxOf[i]>> : i \in Missing(k)}

LEMMA PreparationAsks ==
    ASSUME NEW k
    PROVE  LET p == Preparation(k) IN
           /\ owing[k] \subseteq p.txs
           /\ ~pending[k].cost =>
                 /\ p.deletes = (IF Full(k) THEN EffectsOf(eff, k) \ Desired(k) ELSE {})
                 /\ p.writes = EffectRows(Changed(k))
                 /\ p.episodes = {q[1] : q \in (Before(k) \ After(k)) \cup (After(k) \ Before(k))}
                 /\ \A i \in p.deletes \cup Changed(k) : TxOf[i] \in p.txs
                 /\ Full(k) /\ Mapped(k) # {} =>
                       \A t \in TxsOf(EffectsOf(eff, k)) : GasMissing(t) => t \in p.txs
<1> DEFINE p == Preparation(k)
<1>1. /\ owing[k] \subseteq p.txs
      /\ ~pending[k].cost =>
            /\ p.deletes = (IF Full(k) THEN EffectsOf(eff, k) \ Desired(k) ELSE {})
            /\ p.writes = EffectRows(Changed(k))
    BY DEF Preparation, Full, Desired, Changed, Missing, Appends, Agrees
<1>2. ~pending[k].cost =>
         p.episodes = {q[1] : q \in (Before(k) \ After(k)) \cup (After(k) \ Before(k))}
    BY DEF Preparation, Full, Desired, Changed, Missing, Appends, Agrees, Before, After
<1>3. ~pending[k].cost =>
         p.txs = owing[k] \cup {TxOf[i] : i \in (IF Full(k) THEN EffectsOf(eff, k) \ Desired(k) ELSE {}) \cup Changed(k)}
                 \cup (IF Full(k) /\ Desired(k) # {}
                       THEN {t \in {TxOf[i] : i \in EffectsOf(eff, k)} : cost[t] = NULL \/ (t \in gas /\ ~cost[t].gas)}
                       ELSE {})
    BY DEF Preparation, Full, Desired, Changed, Missing, Appends, Agrees
<1> HIDE DEF p
<1>4. ~pending[k].cost => \A i \in p.deletes \cup Changed(k) : TxOf[i] \in p.txs
    BY <1>1, <1>3
<1>5. ~pending[k].cost /\ Full(k) /\ Mapped(k) # {} =>
         \A t \in TxsOf(EffectsOf(eff, k)) : GasMissing(t) => t \in p.txs
    BY <1>3 DEF Desired, TxsOf, GasMissing
<1> QED
    BY <1>1, <1>2, <1>4, <1>5 DEF p

\* A preparation whose episodes leave its position out leaves the position's
\* transactions as they are.
LEMMA PreparationEpisodes ==
    ASSUME BooksInv, OwnEffects, NEW k \in Keys, ~pending[k].cost,
           NEW new, new = Preparation(k), k \notin new.episodes
    PROVE  TxsOf(EffectsOf(eff, k)) = TxsOf((EffectsOf(eff, k) \ new.deletes) \cup IdsOf(new.writes))
<1> DEFINE E == EffectsOf(eff, k)
<1>1. /\ new.deletes = (IF Full(k) THEN E \ Desired(k) ELSE {})
      /\ new.writes = EffectRows(Changed(k))
      /\ new.episodes = {q[1] : q \in (Before(k) \ After(k)) \cup (After(k) \ Before(k))}
    BY PreparationAsks
<1>2. IdsOf(new.writes) = Changed(k)
    BY <1>1, EffectRowsIds
<1>3. BookTypes
    BY DEF BooksInv
<1>4. \A i \in Mapped(k) : i \in Stored /\ keyOf[i] = k /\ i \in Ids
    BY DEF Mapped, Stored
<1>5. \A i \in Mapped(k) : eff[i] # NULL => i \in E
    BY <1>4, BooksNull DEF OwnEffects, EffectsOf
<1>6. \A i \in Mapped(k) : Agrees(i, k) => i \in E
    BY <1>3, AgreesIs
<1>7. Changed(k) \subseteq Mapped(k) /\ Desired(k) \subseteq Mapped(k)
    BY DEF Changed, Desired, Missing
<1>8. Before(k) = {<<k, TxOf[i]>> : i \in E}
  <2>1. \A i \in Changed(k) : eff[i] # NULL => i \in E /\ eff[i].key = k
      BY <1>5, <1>7 DEF EffectsOf
  <2> QED
      BY <2>1 DEF Before
<1>9. Before(k) = After(k)
  <2>1. ASSUME NEW q \in (Before(k) \ After(k)) \cup (After(k) \ Before(k)) PROVE FALSE
    <3>1. q[1] = k
        BY <1>8, <2>1 DEF After
    <3> QED
        BY <1>1, <3>1
  <2> QED
      BY <2>1
<1>10. CASE Full(k)
  <2>1. (E \ new.deletes) \cup IdsOf(new.writes) = Mapped(k)
    <3>1. Desired(k) = Mapped(k) /\ Changed(k) = {i \in Mapped(k) : ~Agrees(i, k)}
        BY <1>10 DEF Desired, Changed
    <3> QED
        BY <1>1, <1>2, <1>6, <1>10, <3>1
  <2>2. TxsOf(E) = TxsOf(Mapped(k))
    <3>1. {<<k, TxOf[i]>> : i \in E} = {<<k, TxOf[i]>> : i \in Mapped(k)}
        BY <1>8, <1>9, <1>10 DEF After
    <3>2. ASSUME NEW i \in E PROVE \E j \in Mapped(k) : TxOf[j] = TxOf[i]
      <4>1. <<k, TxOf[i]>> \in {<<k, TxOf[j]>> : j \in Mapped(k)}
          BY <3>1
      <4> QED
          BY <4>1
    <3>3. ASSUME NEW i \in Mapped(k) PROVE \E j \in E : TxOf[j] = TxOf[i]
      <4>1. <<k, TxOf[i]>> \in {<<k, TxOf[j]>> : j \in E}
          BY <3>1
      <4> QED
          BY <4>1
    <3> HIDE DEF E
    <3> QED
        BY <3>2, <3>3 DEF TxsOf
  <2> QED
      BY <2>1, <2>2
<1>11. CASE ~Full(k)
  <2>1. (E \ new.deletes) \cup IdsOf(new.writes) = E \cup Changed(k)
      BY <1>1, <1>2, <1>11
  <2>2. ASSUME NEW i \in Changed(k) PROVE \E j \in E : TxOf[j] = TxOf[i]
    <3>1. i \in Missing(k)
        BY <1>11 DEF Changed, Desired
    <3>2. <<k, TxOf[i]>> \in {<<k, TxOf[j]>> : j \in E}
        BY <1>8, <1>9, <1>11, <3>1 DEF After
    <3> QED
        BY <3>2
  <2>3. TxsOf(E) = TxsOf(E \cup Changed(k))
    <3> HIDE DEF E
    <3> QED
        BY <2>2 DEF TxsOf
  <2> QED
      BY <2>1, <2>3
<1> QED
    BY <1>10, <1>11

LEMMA PrepareCosts == BooksInv /\ CostsInv /\ (\E k \in Keys : Prepare(k)) => CostsInv'
<1> SUFFICES ASSUME BooksInv, CostsInv, NEW k \in Keys, Prepare(k) PROVE CostsInv'
    OBVIOUS
<1>1. PICK new : new = Preparation(k)
    OBVIOUS
<1>2. /\ UNCHANGED <<ev, keyOf, gas, pending, owing, eff, cost, epGas, epoch, phase, cursor, moved>>
      /\ k \in pass
      /\ prep' = IF pending[k] = NULL THEN prep ELSE prep \cup {new}
    BY <1>1 DEF Prepare, eventVars, queueVars, bookVars, bootVars, runVars
<1>3. BookTypes /\ PrepsOK
    BY DEF BooksInv
<1>4. CASE pending[k] = NULL
  <2>1. prep' \subseteq prep
      BY <1>2, <1>4
  <2> QED
      BY <1>2, <1>3, <2>1, CostsQuiet
<1>5. CASE pending[k] # NULL
  <2>1. /\ prep' = prep \cup {new}
        /\ new.key = k /\ new.epoch = epoch /\ new.gen = pending[k].gen
        /\ pending[k].cost => new.writes = {} /\ new.deletes = {}
      BY <1>1, <1>2, <1>5, PreparationIs
  <2>2. /\ owing[k] \subseteq new.txs
        /\ ~pending[k].cost =>
              /\ new.writes = EffectRows(Changed(k))
              /\ \A i \in new.deletes \cup Changed(k) : TxOf[i] \in new.txs
              /\ Full(k) /\ Mapped(k) # {} =>
                    \A t \in TxsOf(EffectsOf(eff, k)) : GasMissing(t) => t \in new.txs
      BY <1>1, PreparationAsks
  <2>3. pending[k].cost \in BOOLEAN /\ pending[k].append \in BOOLEAN
      BY <1>3, <1>5 DEF BookTypes, PendingType
  <2>4. ASSUME NEW r \in new.writes PROVE r.id \in Mapped(k) /\ TxOf[r.id] \in new.txs
    <3>1. ~pending[k].cost
        BY <2>1, <2>3
    <3>2. r.id \in Changed(k)
        BY <2>2, <3>1 DEF EffectRows
    <3> QED
        BY <2>2, <3>1, <3>2 DEF Changed, Desired, Missing
  <2>5. \A p \in prep : p.key # k
      BY <1>2, <1>3 DEF PrepsOK, PrepType
  <2>6. /\ Stored' = Stored /\ \A i : Unvisited(i)' <=> Unvisited(i)
        /\ \A t : CostOf(eff, t)' = CostOf(eff, t)
        /\ \A y : EffectsOf(eff, y)' = EffectsOf(eff, y)
        /\ \A t : (Unwritten(t)' <=> Unwritten(t)) /\ (GasMissing(t)' <=> GasMissing(t))
      BY <1>2 DEF Stored, Unvisited, CostOf, CostIn, EffectsOf, Unwritten, GasMissing
  \* A full replay that was due of this position asks for the receipt.
  <2>7. ASSUME NEW t, GasMissing(t), NEW i \in Stored, TxOf[i] = t, eff[i] # NULL, ~Unvisited(i),
               ev[i].key = k, ~pending[k].append, ~pending[k].cost
        PROVE  t \in new.txs
    <3>1. keyOf[i] = k /\ i \in Mapped(k)
        BY <2>7 DEF CostsInv, KeysVisited, Mapped
    <3>2. Full(k)
        BY <2>7 DEF Full, Appends
    <3>3. CASE Agrees(i, k)
      <4>1. i \in EffectsOf(eff, k)
          BY <1>3, <3>1, <3>3, AgreesIs
      <4>2. t \in TxsOf(EffectsOf(eff, k))
          BY <2>7, <4>1 DEF TxsOf
      <4> QED
          BY <2>2, <2>7, <3>1, <3>2, <4>2
    <3>4. CASE ~Agrees(i, k)
      <4>1. i \in Changed(k)
          BY <3>1, <3>2, <3>4 DEF Changed, Desired
      <4> QED
          BY <2>2, <2>7, <4>1
    <3> QED
        BY <3>3, <3>4
  <2>8. ASSUME NEW t, GasMissing(t), WillResolve(t) PROVE WillResolve(t)'
    <3>1. PICK i \in Stored : TxOf[i] = t /\ eff[i] # NULL /\ (Unvisited(i) \/ FullReplay(ev[i].key, t))
        BY <2>8 DEF WillResolve
    <3>2. CASE Unvisited(i)
        BY <1>2, <2>6, <3>1, <3>2 DEF WillResolve
    <3>3. CASE ~Unvisited(i)
      <4>1. FullReplay(ev[i].key, t)
          BY <3>1, <3>3
      <4>2. FullReplay(ev[i].key, t)'
        <5>1. CASE ev[i].key # k
            BY <1>2, <2>1, <4>1, <5>1 DEF FullReplay
        <5>2. CASE ev[i].key = k
          <6>1. t \in new.txs
              BY <2>7, <2>8, <3>1, <3>3, <4>1, <5>2 DEF FullReplay
          <6> QED
              BY <1>2, <2>1, <2>5, <4>1, <5>2, <6>1 DEF FullReplay
        <5> QED
            BY <5>1, <5>2
      <4> QED
          BY <1>2, <2>6, <3>1, <4>2 DEF WillResolve
    <3> QED
        BY <3>2, <3>3
  <2>9. CostsOwed'
      BY <1>2, <2>6, <2>8 DEF CostsInv, CostsOwed
  <2>10. CostsBacked' /\ EffectsStored' /\ KeysVisited' /\ OwingQueued'
      BY <1>2, <2>6 DEF CostsInv, CostsBacked, EffectsStored, KeysVisited, OwingQueued
  <2>11. PrepCosts'
    <3>1. ASSUME NEW p \in prep, p.epoch = epoch PROVE Refreshes(p)'
        BY <1>2, <3>1 DEF CostsInv, PrepCosts, Refreshes
    <3>2. Refreshes(new)'
      <4>1. \A i \in new.deletes : TxOf[i] \in new.txs
          BY <2>1, <2>2, <2>3
      <4>2. \A r \in new.writes : TxOf[r.id] \in new.txs /\ ev[r.id] # NULL
          BY <2>4 DEF Mapped, Stored
      <4> QED
          BY <1>2, <2>1, <2>2, <4>1, <4>2 DEF Refreshes
    <3> QED
        BY <1>2, <2>1, <3>1, <3>2 DEF PrepCosts
  <2>12. ASSUME ~moved' PROVE OwnEffects' /\ OwnWrites' /\ GasExact'
    <3>1. OwnEffects /\ OwnWrites /\ GasExact
        BY <1>2, <2>12 DEF CostsInv
    <3>2. OwnEffects'
        BY <1>2, <2>6, <3>1 DEF OwnEffects
    <3>3. EpisodeNoticed(new)'
      <4>0. new.key = k /\ EffectsOf(eff, k)' = EffectsOf(eff, k)
          BY <2>1, <2>6
      <4>1. EpisodeNoticed(new) => EpisodeNoticed(new)'
        <5>1. EpisodeNoticed(new) <=>
                 \/ k \in new.episodes
                 \/ TxsOf(EffectsOf(eff, k))
                      = TxsOf((EffectsOf(eff, k) \ new.deletes) \cup IdsOf(new.writes))
            BY <4>0 DEF EpisodeNoticed
        <5>2. EpisodeNoticed(new)' <=>
                 \/ k \in new.episodes
                 \/ TxsOf(EffectsOf(eff, k)')
                      = TxsOf((EffectsOf(eff, k)' \ new.deletes) \cup IdsOf(new.writes))
            BY <4>0 DEF EpisodeNoticed
        <5> QED
            BY <4>0, <5>1, <5>2
      <4>2. CASE pending[k].cost
        <5>1. (EffectsOf(eff, k) \ new.deletes) \cup IdsOf(new.writes) = EffectsOf(eff, k)
            BY <2>1, <4>2 DEF IdsOf
        <5> QED
            BY <4>0, <4>1, <5>1 DEF EpisodeNoticed
      <4>3. CASE ~pending[k].cost /\ k \notin new.episodes
        <5>1. TxsOf(EffectsOf(eff, k)) = TxsOf((EffectsOf(eff, k) \ new.deletes) \cup IdsOf(new.writes))
            BY <1>1, <3>1, <4>3, PreparationEpisodes
        <5> QED
            BY <4>0, <4>1, <5>1 DEF EpisodeNoticed
      <4>4. CASE k \in new.episodes
          BY <4>0, <4>1, <4>4 DEF EpisodeNoticed
      <4> QED
          BY <4>2, <4>3, <4>4
    <3>4. \A r \in new.writes : keyOf'[r.id] = k
        BY <1>2, <2>4 DEF Mapped
    <3>5. ASSUME NEW p \in prep, p.epoch = epoch
          PROVE  EpisodeNoticed(p)' /\ \A r \in p.writes : keyOf'[r.id] = p.key
      <4>1. EpisodeNoticed(p) /\ \A r \in p.writes : keyOf[r.id] = p.key
          BY <3>1, <3>5 DEF OwnWrites
      <4> QED
          BY <1>2, <2>6, <4>1 DEF EpisodeNoticed
    <3>6. OwnWrites'
        BY <1>2, <2>1, <3>3, <3>4, <3>5 DEF OwnWrites
    <3>7. GasExact'
        BY <1>2, <2>6, <3>1 DEF GasExact, GasOf
    <3> QED
        BY <3>2, <3>6, <3>7
  <2> QED
      BY <2>9, <2>10, <2>11, <2>12 DEF CostsInv
<1> QED
    BY <1>4, <1>5

LEMMA ApplyCosts ==
    ASSUME BooksInv, CostsInv, NEW D \in SUBSET Ids, NEW new \in [D -> EventType],
           NEW transactionOnly \in BOOLEAN, Apply(new, transactionOnly),
           IF transactionOnly
           THEN \E t \in Txs : /\ t \notin gas /\ gas' = gas \cup {t}
                               /\ D = {i \in Stored : TxOf[i] = t} /\ D # {}
                               /\ \A i \in D : new[i] = ev[i]
           ELSE gas' = gas /\ \A i, j \in D : i = j
    PROVE  CostsInv'
<1>1. BookTypes /\ PrepsOK /\ CostsOwed /\ EffectsStored
    BY DEF BooksInv, CostsInv
<1>2. /\ Ingested(D, new, transactionOnly)
      /\ ev' = [i \in Ids |-> IF i \in D THEN new[i] ELSE ev[i]]
      /\ keyOf' = [i \in Ids |-> IF i \in D THEN new[i].key ELSE keyOf[i]]
      /\ UNCHANGED <<eff, cost, epGas, epoch, phase, cursor, prep>>
      /\ \A i \in D : keyOf[i] \in Keys \cup {NULL} /\ new[i].key \in Keys /\ new[i] # NULL
  <2>1. Ingested(D, new, transactionOnly)
      BY <1>1, ApplyIs
  <2> QED
      BY <2>1 DEF Ingested
<1>3. PICK K \in SUBSET Keys : \E append, costOnly :
         QueuedFor(K, append, costOnly, D, new, transactionOnly)
    BY <1>1, ApplyIs
<1>4. PICK append, costOnly : QueuedFor(K, append, costOnly, D, new, transactionOnly)
    BY <1>3
<1>a. /\ Requeue(K, append, costOnly, TRUE)
      /\ \A k \in Keys : k \in K <=> \E i \in D : keyOf[i] = k \/ new[i].key = k
      /\ \A k \in append : \A i \in D : keyOf[i] = k \/ new[i].key = k =>
             keyOf[i] = NULL /\ eff[i] = NULL /\ k = new[i].key
      /\ \A k \in costOnly : \A i \in D : keyOf[i] = k \/ new[i].key = k =>
             transactionOnly /\ keyOf[i] = new[i].key /\ k = keyOf[i]
    BY <1>4 DEF QueuedFor
<1>b. \A k \in Keys : owing'[k] = owing[k] \cup
          {TxOf[i] : i \in {j \in D : /\ transactionOnly /\ eff[j] # NULL
                                      /\ keyOf[j] = k /\ new[j].key = k}}
    BY <1>2 DEF Ingested
<1>c. moved' = (moved \/ \E i \in D : \/ keyOf[i] \notin {NULL, new[i].key}
                                      \/ ev[i] # NULL /\ ev[i].key # new[i].key)
    BY <1>2 DEF Ingested
<1>5. pending' = QueuedKeys(K, append, costOnly, TRUE)
    BY <1>a DEF Requeue
<1>6. \A k \in Keys :
         /\ k \notin K => pending'[k] = pending[k]
         /\ k \in K => /\ pending'[k] # NULL
                       /\ pending'[k].append => k \in append /\ (pending[k] = NULL \/ pending[k].append)
                       /\ pending'[k].cost => k \in costOnly /\ (pending[k] = NULL \/ pending[k].cost)
  <2>1. \A k \in Keys :
           /\ k \notin K => pending'[k] = pending[k]
           /\ k \in K => /\ pending'[k] \in PendingType /\ pending'[k] # NULL
                         /\ pending[k] # NULL => pending'[k].gen = pending[k].gen + 1
                         /\ pending'[k].append => k \in append /\ (pending[k] = NULL \/ pending[k].append)
                         /\ pending'[k].cost => k \in costOnly /\ (pending[k] = NULL \/ pending[k].cost)
      BY <1>1, <1>5, QueuedIs, Zenon
  <2> QED
      BY <2>1
<1>7. \A p \in prep : p.key \in K => p.gen # pending'[p.key].gen
    BY <1>1, <1>5, RequeuedPreps DEF PrepsOK, PrepType
<1>8. /\ Stored' = Stored \cup D /\ Stored \subseteq Ids /\ Stored' \subseteq Ids
      /\ \A i : Unvisited(i)' <=> Unvisited(i)
      /\ \A k : EffectsOf(eff, k)' = EffectsOf(eff, k)
      /\ \A i \in D : ev'[i] = new[i] /\ keyOf'[i] = new[i].key
      /\ \A i \in Ids : i \notin D => ev'[i] = ev[i] /\ keyOf'[i] = keyOf[i]
  <2>1. Stored' = Stored \cup D /\ Stored \subseteq Ids /\ Stored' \subseteq Ids
      BY <1>2 DEF Stored
  <2> QED
      BY <1>2, <2>1 DEF Unvisited, EffectsOf
\* A replay of a position that was due is still due.
<1>9. ASSUME NEW t, NEW y \in Keys, FullReplay(y, t) PROVE FullReplay(y, t)'
  <2>1. pending[y] # NULL /\ ~pending[y].append /\ ~pending[y].cost
      BY <1>9 DEF FullReplay
  <2>2. pending'[y] # NULL /\ ~pending'[y].append /\ ~pending'[y].cost
      BY <1>6, <2>1
  <2>3. ASSUME NEW p \in prep, p.key = y, p.epoch = epoch, p.gen = pending'[y].gen PROVE t \in p.txs
    <3>1. y \notin K
        BY <1>7, <2>3
    <3>2. p.gen = pending[y].gen
        BY <1>6, <2>3, <3>1
    <3> QED
        BY <1>9, <2>3, <3>2 DEF FullReplay
  <2> QED
      BY <1>2, <2>2, <2>3 DEF FullReplay
\* An event of the change whose position is not proven to be unaffected.
<1>10. ASSUME NEW t, NEW i \in D, eff[i] # NULL, ~transactionOnly PROVE FullReplay(new[i].key, t)'
  <2> DEFINE y == new[i].key
  <2>1. y \in Keys /\ y \in K
      BY <1>2, <1>a
  <2>2. pending'[y] # NULL /\ ~pending'[y].append /\ ~pending'[y].cost
      BY <1>a, <1>6, <1>10, <2>1
  <2>3. \A p \in prep : p.key = y => p.gen # pending'[y].gen
      BY <1>7, <2>1
  <2> QED
      BY <1>2, <2>2, <2>3 DEF FullReplay
<1>11. ASSUME NEW t \in Txs, NEW i \in D, TxOf[i] = t, eff[i] = NULL PROVE Unwritten(t)'
    BY <1>2, <1>8, <1>11 DEF Unwritten
\* A transaction whose receipt and events are known as before.
<1>12. ASSUME NEW t \in Txs, t \in gas' <=> t \in gas, \A i \in D : TxOf[i] = t => eff[i] # NULL,
              transactionOnly => \A i \in D : TxOf[i] # t
       PROVE  \/ cost'[t] = CostOf(eff, t)'
              \/ \E k \in Keys : t \in owing'[k]
              \/ Unwritten(t)'
              \/ GasMissing(t)' /\ WillResolve(t)'
  <2>1. \A i \in Ids : TxOf[i] = t => eff'[i] = eff[i] /\ (i \in Stored' <=> i \in Stored)
      BY <1>1, <1>2, <1>8, <1>12 DEF EffectsStored, Stored
  <2>2. CostOf(eff, t)' = CostOf(eff, t)
    <3>1. CostIn(eff', Stored', gas', t) = CostIn(eff, Stored, gas, t)
        BY <1>8, <1>12, <2>1, CostCongruence
    <3> QED
        BY <3>1 DEF CostOf
  <2>3. Unwritten(t) => Unwritten(t)'
      BY <1>2, <1>8 DEF Unwritten
  <2>4. GasMissing(t) => GasMissing(t)'
      BY <1>2, <1>12 DEF GasMissing
  <2>5. WillResolve(t) => WillResolve(t)'
    <3>1. ASSUME NEW i \in Stored, TxOf[i] = t, eff[i] # NULL, Unvisited(i) \/ FullReplay(ev[i].key, t)
          PROVE  /\ i \in Stored' /\ eff'[i] # NULL
                 /\ Unvisited(i)' \/ \E y \in Keys : y = ev'[i].key /\ FullReplay(y, t)'
      <4>1. i \in Stored' /\ eff'[i] # NULL /\ ev[i].key \in Keys
          BY <1>1, <1>2, <1>8, <3>1 DEF Stored, BookTypes, EventType
      <4>2. CASE Unvisited(i)
          BY <1>8, <4>1, <4>2
      <4>3. CASE FullReplay(ev[i].key, t) /\ i \notin D
        <5> DEFINE y == ev[i].key
        <5>1. y \in Keys /\ FullReplay(y, t) /\ y = ev'[i].key
            BY <1>8, <4>1, <4>3
        <5>2. PICK z \in Keys : z = y
            BY <5>1
        <5>3. FullReplay(z, t)'
            BY <1>9, <5>1, <5>2
        <5> QED
            BY <4>1, <5>1, <5>2, <5>3
      <4>4. CASE i \in D
        <5>1. FullReplay(new[i].key, t)' /\ ev'[i] = new[i] /\ new[i].key \in Keys
            BY <1>2, <1>8, <1>10, <1>12, <3>1, <4>4
        <5> QED
            BY <4>1, <5>1
      <4> QED
          BY <3>1, <4>2, <4>3, <4>4
    <3> QED
        BY <3>1 DEF WillResolve
  <2>6. \A k \in Keys : owing[k] \subseteq owing'[k]
      BY <1>b
  <2>7. \/ cost[t] = CostOf(eff, t)
        \/ \E k \in Keys : t \in owing[k]
        \/ Unwritten(t)
        \/ GasMissing(t) /\ WillResolve(t)
      BY <1>1 DEF CostsOwed
  <2> QED
      BY <1>2, <2>2, <2>3, <2>4, <2>5, <2>6, <2>7
\* The transaction whose receipt arrives.
<1>13. ASSUME NEW t \in Txs, transactionOnly, t \notin gas, gas' = gas \cup {t},
              D = {i \in Stored : TxOf[i] = t}, \A i \in D : new[i] = ev[i],
              NEW x \in D, \A i \in D : eff[i] # NULL
       PROVE  (\E k \in Keys : t \in owing'[k]) \/ (GasMissing(t)' /\ WillResolve(t)')
  <2>1. x \in Stored /\ x \in Ids /\ TxOf[x] = t /\ eff[x] # NULL /\ new[x] = ev[x]
      BY <1>8, <1>13
  <2>2. CASE keyOf[x] = new[x].key
    <3>1. new[x].key \in Keys /\ t \in owing'[new[x].key]
        BY <1>2, <1>b, <1>13, <2>1, <2>2
    <3> QED
        BY <3>1
  <2>3. CASE keyOf[x] # new[x].key
    <3>1. Unvisited(x)
        BY <2>1, <2>3 DEF CostsInv, KeysVisited
    <3>2. WillResolve(t)'
        BY <1>2, <1>8, <1>13, <2>1, <3>1 DEF WillResolve
    <3>3. \/ cost[t] = CostOf(eff, t)
          \/ \E k \in Keys : t \in owing[k]
          \/ Unwritten(t)
          \/ GasMissing(t) /\ WillResolve(t)
        BY <1>1 DEF CostsOwed
    <3>4. CASE cost[t] = CostOf(eff, t)
      <4>1. eff \in [Ids -> EventType \cup {NULL}] /\ cost[t] = CostIn(eff, Stored, gas, t)
          BY <1>1, <3>4 DEF BookTypes, CostOf
      <4>2. /\ CostIn(eff, Stored, gas, t) # NULL
            /\ CostIn(eff, Stored, gas, t).gas <=> t \in gas
          BY <2>1, <4>1, CostIs
      <4>3. cost[t] # NULL /\ ~cost[t].gas
          BY <1>13, <4>1, <4>2
      <4> QED
          BY <1>2, <1>13, <3>2, <4>3 DEF GasMissing
    <3>5. CASE \E k \in Keys : t \in owing[k]
        BY <1>b, <3>5
    <3>6. ~Unwritten(t)
        BY <1>13 DEF Unwritten
    <3>7. ~GasMissing(t)
        BY <1>13 DEF GasMissing
    <3> QED
        BY <3>3, <3>4, <3>5, <3>6, <3>7
  <2> QED
      BY <2>2, <2>3
<1>14. CostsOwed'
  <2> SUFFICES ASSUME NEW t \in Txs
               PROVE  \/ cost'[t] = CostOf(eff, t)'
                      \/ \E k \in Keys : t \in owing'[k]
                      \/ Unwritten(t)'
                      \/ GasMissing(t)' /\ WillResolve(t)'
      BY DEF CostsOwed
  <2>1. CASE \E i \in D : TxOf[i] = t /\ eff[i] = NULL
      BY <1>11, <2>1
  <2>2. CASE ~\E i \in D : TxOf[i] = t /\ eff[i] = NULL
    <3>1. CASE ~transactionOnly
        BY <1>12, <2>2, <3>1
    <3>2. CASE transactionOnly
      <4>1. PICK t0 \in Txs : /\ t0 \notin gas /\ gas' = gas \cup {t0}
                              /\ D = {i \in Stored : TxOf[i] = t0} /\ D # {}
                              /\ \A i \in D : new[i] = ev[i]
          BY <3>2
      <4>2. CASE t = t0
        <5>1. PICK x \in D : TRUE
            BY <4>1
        <5>2. \A i \in D : eff[i] # NULL
            BY <2>2, <4>1, <4>2
        <5> QED
            BY <1>13, <3>2, <4>1, <4>2, <5>2
      <4>3. CASE t # t0
          BY <1>12, <2>2, <4>1, <4>3
      <4> QED
          BY <4>2, <4>3
    <3> QED
        BY <3>1, <3>2
  <2> QED
      BY <2>1, <2>2
<1>15. CostsBacked' /\ EffectsStored'
  <2>1. CostsBacked'
      BY <1>2 DEF CostsInv, CostsBacked
  <2>2. EffectsStored'
      BY <1>1, <1>2, <1>8 DEF EffectsStored
  <2> QED
      BY <2>1, <2>2
<1>16. KeysVisited'
  <2>1. ASSUME NEW i \in Stored', ~Unvisited(i)' PROVE keyOf'[i] = ev'[i].key
      BY <1>8, <2>1 DEF CostsInv, KeysVisited
  <2> QED
      BY <2>1 DEF KeysVisited
<1>17. ASSUME NEW k \in Keys, k \notin K PROVE owing'[k] = owing[k] /\ pending'[k] = pending[k]
  <2>1. \A i \in D : ~(keyOf[i] = k /\ new[i].key = k)
      BY <1>a, <1>17
  <2> DEFINE proven == {j \in D : transactionOnly /\ eff[j] # NULL /\ keyOf[j] = k /\ new[j].key = k}
  <2>2. owing'[k] = owing[k] \cup {TxOf[i] : i \in proven}
      BY <1>b
  <2>3. proven = {}
      BY <2>1
  <2> HIDE DEF proven
  <2>4. owing'[k] = owing[k]
      BY <2>2, <2>3
  <2> QED
      BY <1>6, <1>17, <2>4
<1>18. OwingQueued'
  <2>1. owing' = [k \in Keys |-> owing'[k]]
      BY <1>2 DEF Ingested
  <2>2. \A k \in Keys : pending'[k] = NULL => owing'[k] = {}
      BY <1>6, <1>17 DEF CostsInv, OwingQueued
  <2> QED
      BY <2>1, <2>2 DEF OwingQueued
<1>19. PrepCosts'
  <2>1. ASSUME NEW p \in prep, p.epoch = epoch PROVE Refreshes(p)'
    <3>1. Refreshes(p) /\ p.key \in Keys /\ p.writes \subseteq LedgerRow
        BY <1>1, <2>1 DEF CostsInv, PrepCosts, PrepsOK, PrepType
    <3>2. \A r \in p.writes : ev'[r.id] # NULL
        BY <1>2, <1>8, <3>1 DEF Refreshes, LedgerRow
    <3>3. p.gen = pending'[p.key].gen => owing'[p.key] \subseteq p.txs
        BY <1>7, <1>17, <3>1 DEF Refreshes
    <3> QED
        BY <3>1, <3>2, <3>3 DEF Refreshes
  <2> QED
      BY <1>2, <2>1 DEF PrepCosts
<1>20. ASSUME ~moved' PROVE OwnEffects' /\ OwnWrites' /\ GasExact'
  <2>1. ~moved
      BY <1>c, <1>20
  <2>2. OwnEffects /\ OwnWrites /\ GasExact
      BY <2>1 DEF CostsInv
  <2>3. ASSUME NEW i \in D PROVE keyOf[i] \in {NULL, new[i].key} /\ (ev[i] # NULL => ev[i].key = new[i].key)
      BY <1>c, <1>20, <2>3
  <2>a. \A k : EffectsOf(eff, k)' = EffectsOf(eff, k)
      BY <1>8
  <2>4. OwnEffects'
    <3>1. ASSUME NEW i \in Stored'
          PROVE  keyOf'[i] \in {NULL, ev'[i].key} /\ (eff'[i] # NULL => eff'[i].key = ev'[i].key)
      <4>1. i \in Ids
          BY <1>8
      <4>2. CASE i \in D
        <5>1. eff[i] # NULL => i \in Stored /\ ev[i] # NULL
            BY <1>1, <4>1 DEF EffectsStored, Stored
        <5>2. eff[i] # NULL => eff[i].key = new[i].key
            BY <2>2, <2>3, <4>2, <5>1 DEF OwnEffects
        <5> QED
            BY <1>2, <1>8, <4>2, <5>2
      <4>3. CASE i \notin D
          BY <1>2, <1>8, <2>2, <4>1, <4>3 DEF OwnEffects
      <4> QED
          BY <4>2, <4>3
    <3> QED
        BY <3>1 DEF OwnEffects
  <2>5. OwnWrites'
    <3>1. ASSUME NEW p \in prep, p.epoch = epoch
          PROVE  EpisodeNoticed(p)' /\ \A r \in p.writes : keyOf'[r.id] = p.key
      <4>1. EpisodeNoticed(p) /\ (\A r \in p.writes : keyOf[r.id] = p.key)
            /\ p.key \in Keys /\ p.writes \subseteq LedgerRow
          BY <1>1, <2>2, <3>1 DEF OwnWrites, PrepsOK, PrepType
      <4>2. EpisodeNoticed(p)'
        <5>1. EffectsOf(eff, p.key)' = EffectsOf(eff, p.key)
            BY <2>a
        <5> QED
            BY <4>1, <5>1 DEF EpisodeNoticed
      <4>3. ASSUME NEW r \in p.writes PROVE keyOf'[r.id] = p.key
        <5>1. r.id \in Ids /\ keyOf[r.id] = p.key /\ p.key # NULL
            BY <4>1, BooksNull DEF LedgerRow
        <5> QED
            BY <1>8, <2>3, <5>1
      <4> QED
          BY <4>2, <4>3
    <3> QED
        BY <1>2, <3>1 DEF OwnWrites
  <2>6. GasExact'
      BY <1>2, <2>a, <2>2 DEF GasExact, GasOf
  <2> QED
      BY <2>4, <2>5, <2>6
<1> QED
    BY <1>14, <1>15, <1>16, <1>18, <1>19, <1>20 DEF CostsInv

LEMMA NewEventCosts == BooksInv /\ CostsInv /\ (\E v \in Feeds : NewEvent(v.id, v.key, v.owner)) => CostsInv'
<1> SUFFICES ASSUME BooksInv, CostsInv, NEW v \in Feeds, NewEvent(v.id, v.key, v.owner) PROVE CostsInv'
    OBVIOUS
<1> DEFINE D == {v.id}
           new == [x \in D |-> [key |-> v.key, owner |-> v.owner]]
<1>1. D \in SUBSET Ids /\ new \in [D -> EventType]
    BY BooksAssumption DEF EventType
<1>2. Apply(new, FALSE) /\ gas' = gas /\ \A i, j \in D : i = j
    BY DEF NewEvent
<1> HIDE DEF D, new
<1> QED
    BY <1>1, <1>2, ApplyCosts

LEMMA CorrectCosts == BooksInv /\ CostsInv /\ (\E v \in Feeds : Correct(v.id, v.key, v.owner)) => CostsInv'
<1> SUFFICES ASSUME BooksInv, CostsInv, NEW v \in Feeds, Correct(v.id, v.key, v.owner) PROVE CostsInv'
    OBVIOUS
<1> DEFINE D == {v.id}
           new == [x \in D |-> [key |-> v.key, owner |-> v.owner]]
<1>1. D \in SUBSET Ids /\ new \in [D -> EventType]
    BY BooksAssumption DEF EventType
<1>2. Apply(new, FALSE) /\ gas' = gas /\ \A i, j \in D : i = j
    BY DEF Correct
<1> HIDE DEF D, new
<1> QED
    BY <1>1, <1>2, ApplyCosts

LEMMA ReceiptCosts == BooksInv /\ CostsInv /\ (\E t \in Txs : Receipt(t)) => CostsInv'
<1> SUFFICES ASSUME BooksInv, CostsInv, NEW t \in Txs, Receipt(t) PROVE CostsInv'
    OBVIOUS
<1> DEFINE D == {j \in Stored : TxOf[j] = t}
           new == [i \in D |-> ev[i]]
<1>1. D \in SUBSET Ids /\ new \in [D -> EventType] /\ D # {} /\ \A i \in D : new[i] = ev[i]
    BY DEF Stored, BooksInv, BookTypes, Receipt
<1>2. Apply(new, TRUE) /\ t \notin gas /\ gas' = gas \cup {t}
    BY DEF Receipt
<1>3. \E u \in Txs : /\ u \notin gas /\ gas' = gas \cup {u}
                     /\ D = {i \in Stored : TxOf[i] = u} /\ D # {}
                     /\ \A i \in D : new[i] = ev[i]
    BY <1>1, <1>2
<1> HIDE DEF D, new
<1> QED
    BY <1>1, <1>2, <1>3, ApplyCosts

LEMMA RollbackCosts == BooksInv /\ CostsInv /\ (\E a \in Txs \cup {0} : RollbackBook(a)) => CostsInv'
<1> SUFFICES ASSUME BooksInv, CostsInv, NEW a \in Txs \cup {0}, RollbackBook(a) PROVE CostsInv'
    OBVIOUS
<1> DEFINE above(i) == TxOf[i] > a
           K == {k \in Keys : \/ \E i \in Mapped(k) : above(i)
                              \/ \E i \in EffectsOf(eff, k) : above(i)
                              \/ posn[k] # NULL /\ \E r \in posn[k] : above(r.id)}
           txs == {TxOf[i] : i \in UNION {EffectsOf(eff, k) : k \in K}}
<1>1. /\ epoch' = epoch + 1 /\ UNCHANGED <<phase, cursor, prep, owing, moved>>
      /\ ev' = [i \in Ids |-> IF above(i) THEN NULL ELSE ev[i]]
      /\ keyOf' = [i \in Ids |-> IF ev'[i] = NULL THEN NULL ELSE keyOf[i]]
      /\ gas' = {t \in gas : t <= a}
      /\ Requeue(K, {}, {}, FALSE)
      /\ eff' = [i \in Ids |-> IF eff[i] # NULL /\ eff[i].key \in K THEN NULL ELSE eff[i]]
      /\ epGas' = [k \in Keys |-> IF k \in K THEN NULL ELSE epGas[k]]
      /\ cost' = [t \in Txs |-> IF t \in txs THEN NULL ELSE cost[t]]
    BY DEF RollbackBook, bootVars, passVars, runVars
<1>2. \A k \in Keys : k \notin K => \A i \in EffectsOf(eff, k) : ~above(i)
    OBVIOUS
<1>3. BookTypes /\ K \subseteq Keys
    BY DEF BooksInv
<1>4. \A t : t \in txs <=> \E i \in Ids : TxOf[i] = t /\ eff[i] # NULL /\ eff[i].key \in K
  <2>1. \A t : t \in txs <=> \E k \in K : \E i \in EffectsOf(eff, k) : TxOf[i] = t
      OBVIOUS
  <2> HIDE DEF txs, K
  <2> QED
      BY <2>1 DEF EffectsOf
<1>5. \A i \in Ids : eff[i] # NULL => eff[i].key \in Keys /\ (above(i) => eff[i].key \in K)
  <2>1. ASSUME NEW i \in Ids, eff[i] # NULL PROVE eff[i].key \in Keys /\ i \in EffectsOf(eff, eff[i].key)
      BY <1>3, <2>1 DEF BookTypes, EventType, EffectsOf
  <2> HIDE DEF K, above
  <2> QED
      BY <1>2, <2>1
<1>6. \A i \in Ids : TxOf[i] \in Nat /\ TxOf[i] \in Txs /\ a \in Nat
    BY BooksAssumption
<1> HIDE DEF K, txs
<1>7. \A k \in Keys : /\ k \notin K => pending'[k] = pending[k]
                      /\ k \in K => pending'[k] # NULL /\ ~pending'[k].append /\ ~pending'[k].cost
  <2>1. pending' = QueuedKeys(K, {}, {}, FALSE)
      BY <1>1 DEF Requeue
  <2> QED
      BY <1>3, <2>1, QueuedWithoutProof
<1>8. ASSUME NEW p \in prep PROVE p.epoch # epoch'
    BY <1>1, <1>3 DEF BooksInv, PrepsOK, PrepType, BookTypes
<1>9. /\ EffectsStored /\ CostsBacked /\ CostsOwed
      /\ Stored' = {i \in Stored : ~above(i)}
      /\ \A i \in Stored' : i \in Stored /\ ev'[i] = ev[i] /\ keyOf'[i] = keyOf[i]
  <2>1. Stored' = {i \in Stored : ~above(i)}
      BY <1>1 DEF Stored
  <2>2. ASSUME NEW i \in Stored' PROVE i \in Stored /\ ev'[i] = ev[i] /\ keyOf'[i] = keyOf[i]
      BY <1>1, <2>1, <2>2 DEF Stored
  <2> QED
      BY <2>1, <2>2 DEF CostsInv
<1>10. /\ \A i \in Ids : eff'[i] = IF eff[i] # NULL /\ eff[i].key \in K THEN NULL ELSE eff[i]
       /\ \A t \in Txs : cost'[t] = IF t \in txs THEN NULL ELSE cost[t]
       /\ eff' \in [Ids -> EventType \cup {NULL}]
    BY <1>1, <1>3 DEF BookTypes
<1> HIDE DEF above
<1>11. ASSUME NEW t \in Txs, t > a PROVE cost'[t] = CostOf(eff, t)'
  <2>1. \A i \in Ids : eff'[i] # NULL => TxOf[i] # t
      BY <1>5, <1>10, <1>11 DEF above
  <2>2. CostOf(eff, t)' = NULL
    <3>1. CostIn(eff', Stored', gas', t) = NULL
        BY <1>10, <2>1, CostIs
    <3> QED
        BY <3>1 DEF CostOf
  <2>3. cost'[t] = NULL
    <3>1. CASE t \in txs
        BY <1>10, <3>1
    <3>2. CASE cost[t] = NULL
        BY <1>10, <3>2
    <3>3. CASE cost[t] # NULL
      <4>1. PICK i \in Ids : TxOf[i] = t /\ eff[i] # NULL
          BY <1>9, <3>3 DEF CostsBacked
      <4>2. eff[i].key \in K
          BY <1>5, <1>11, <4>1 DEF above
      <4>3. t \in txs
          BY <1>4, <4>1, <4>2
      <4> QED
          BY <1>10, <4>3
    <3> QED
        BY <3>2, <3>3
  <2> QED
      BY <2>2, <2>3
<1>12. ASSUME NEW t \in Txs, ~(t > a), NEW i \in Ids, TxOf[i] = t, eff[i] # NULL, eff[i].key \in K
       PROVE  Unwritten(t)'
  <2>1. i \in Stored'
      BY <1>9, <1>12 DEF EffectsStored, Stored, above
  <2>2. eff'[i] = NULL
      BY <1>10, <1>12
  <2> QED
      BY <1>12, <2>1, <2>2 DEF Unwritten
\* A transaction that keeps its effects.
<1>13. ASSUME NEW t \in Txs, ~(t > a), ~\E i \in Ids : TxOf[i] = t /\ eff[i] # NULL /\ eff[i].key \in K
       PROVE  /\ cost'[t] = cost[t] /\ CostOf(eff, t)' = CostOf(eff, t)
              /\ Unwritten(t) => Unwritten(t)'
              /\ GasMissing(t) => GasMissing(t)'
              /\ WillResolve(t) => WillResolve(t)'
  <2>1. cost'[t] = cost[t]
      BY <1>4, <1>10, <1>13
  <2>2. \A i \in Ids : TxOf[i] = t => eff'[i] = eff[i] /\ (i \in Stored' <=> i \in Stored)
    <3>1. \A i \in Ids : TxOf[i] = t => eff'[i] = eff[i]
        BY <1>10, <1>13
    <3>2. \A i \in Ids : TxOf[i] = t => (i \in Stored' <=> i \in Stored)
        BY <1>9, <1>13 DEF above
    <3> QED
        BY <3>1, <3>2
  <2>3. t \in gas' <=> t \in gas
      BY <1>1, <1>6, <1>13, BooksAssumption
  <2>4. CostOf(eff, t)' = CostOf(eff, t)
    <3>1. Stored \subseteq Ids /\ Stored' \subseteq Ids
        BY DEF Stored
    <3>2. CostIn(eff', Stored', gas', t) = CostIn(eff, Stored, gas, t)
        BY <2>2, <2>3, <3>1, CostCongruence
    <3> QED
        BY <3>2 DEF CostOf
  <2>5. Unwritten(t) => Unwritten(t)'
    <3>1. ASSUME NEW i \in Stored, TxOf[i] = t, eff[i] = NULL PROVE i \in Stored' /\ eff'[i] = NULL
        BY <2>2, <3>1, StoredIn
    <3> QED
        BY <3>1 DEF Unwritten
  <2>6. GasMissing(t) => GasMissing(t)'
      BY <2>1, <2>3 DEF GasMissing
  <2>7. WillResolve(t) => WillResolve(t)'
    <3>1. ASSUME NEW i \in Stored, TxOf[i] = t, eff[i] # NULL, Unvisited(i) \/ FullReplay(ev[i].key, t)
          PROVE  /\ i \in Stored' /\ eff'[i] # NULL
                 /\ Unvisited(i)' \/ FullReplay(ev[i].key, t)'
      <4>1. i \in Ids /\ i \in Stored' /\ eff'[i] # NULL
          BY <2>2, <3>1, StoredIn
      <4>2. Unvisited(i) => Unvisited(i)'
          BY <1>1 DEF Unvisited
      <4>3. ev[i].key \in Keys /\ ev'[i] = ev[i]
          BY <1>3, <1>9, <3>1, <4>1 DEF Stored, BookTypes, EventType
      <4>4. FullReplay(ev[i].key, t) => FullReplay(ev[i].key, t)'
          BY <1>1, <1>7, <1>8, <4>3 DEF FullReplay
      <4> QED
          BY <3>1, <4>1, <4>2, <4>4
    <3> QED
        BY <3>1 DEF WillResolve
  <2> QED
      BY <2>1, <2>4, <2>5, <2>6, <2>7
<1>14. CostsOwed'
  <2> SUFFICES ASSUME NEW t \in Txs
               PROVE  \/ cost'[t] = CostOf(eff, t)'
                      \/ \E k \in Keys : t \in owing'[k]
                      \/ Unwritten(t)'
                      \/ GasMissing(t)' /\ WillResolve(t)'
      BY DEF CostsOwed
  <2>1. CASE t > a
      BY <1>11, <2>1
  <2>2. CASE ~(t > a) /\ \E i \in Ids : TxOf[i] = t /\ eff[i] # NULL /\ eff[i].key \in K
      BY <1>12, <2>2
  <2>3. CASE ~(t > a) /\ ~\E i \in Ids : TxOf[i] = t /\ eff[i] # NULL /\ eff[i].key \in K
    <3>1. \/ cost[t] = CostOf(eff, t)
          \/ \E k \in Keys : t \in owing[k]
          \/ Unwritten(t)
          \/ GasMissing(t) /\ WillResolve(t)
        BY <1>9 DEF CostsOwed
    <3> QED
        BY <1>1, <1>13, <2>3, <3>1
  <2> QED
      BY <2>1, <2>2, <2>3
<1>15. CostsBacked'
  <2> SUFFICES ASSUME NEW t \in Txs, cost'[t] # NULL
               PROVE  /\ \E i \in Ids : TxOf[i] = t /\ eff'[i] # NULL
                      /\ cost'[t].key # NULL =>
                            \A i \in Ids : TxOf[i] = t /\ eff'[i] # NULL => eff'[i].key = cost'[t].key
      BY DEF CostsBacked
  <2>1. t \notin txs /\ cost'[t] = cost[t]
      BY <1>10
  <2>2. \A i \in Ids : TxOf[i] = t => eff'[i] = eff[i]
      BY <1>4, <1>10, <2>1
  <2>3. /\ \E i \in Ids : TxOf[i] = t /\ eff[i] # NULL
        /\ cost[t].key # NULL =>
              \A i \in Ids : TxOf[i] = t /\ eff[i] # NULL => eff[i].key = cost[t].key
      BY <1>9, <2>1 DEF CostsBacked
  <2> QED
      BY <2>1, <2>2, <2>3
<1>16. EffectsStored'
  <2> SUFFICES ASSUME NEW i \in Ids, eff'[i] # NULL PROVE ev'[i] # NULL
      BY DEF EffectsStored
  <2>1. eff[i] # NULL /\ eff[i].key \notin K
      BY <1>10
  <2>2. i \in Stored' 
      BY <1>5, <1>9, <2>1 DEF EffectsStored, Stored
  <2> QED
      BY <2>2 DEF Stored
<1>17. KeysVisited'
  <2>1. ASSUME NEW i \in Stored', ~Unvisited(i)' PROVE keyOf'[i] = ev'[i].key
      BY <1>1, <1>9, <2>1 DEF CostsInv, KeysVisited, Unvisited
  <2> QED
      BY <2>1 DEF KeysVisited
<1>18. OwingQueued' /\ PrepCosts'
    BY <1>1, <1>7, <1>8 DEF CostsInv, OwingQueued, PrepCosts
<1>19. ASSUME ~moved' PROVE OwnEffects' /\ OwnWrites' /\ GasExact'
  <2>1. OwnEffects /\ GasExact
      BY <1>1, <1>19 DEF CostsInv
  <2>2. OwnEffects'
    <3>1. ASSUME NEW i \in Stored'
          PROVE  keyOf'[i] \in {NULL, ev'[i].key} /\ (eff'[i] # NULL => eff'[i].key = ev'[i].key)
      <4>1. i \in Ids /\ i \in Stored /\ ev'[i] = ev[i] /\ keyOf'[i] = keyOf[i]
          BY <1>9, StoredIn
      <4> QED
          BY <1>10, <2>1, <4>1 DEF OwnEffects
    <3> QED
        BY <3>1 DEF OwnEffects
  <2>3. OwnWrites'
      BY <1>1, <1>8 DEF OwnWrites
  <2>4. ASSUME NEW y \in Keys PROVE epGas'[y] = GasOf(eff', cost', y)
    <3>1. CASE y \in K
      <4>1. EffectsOf(eff', y) = {}
          BY <1>10, <3>1 DEF EffectsOf
      <4>2. GasOf(eff', cost', y) = NULL
          BY <4>1 DEF GasOf
      <4> QED
          BY <1>1, <3>1, <4>2
    <3>2. CASE y \notin K
      <4>1. EffectsOf(eff', y) = EffectsOf(eff, y)
          BY <1>10, <3>2 DEF EffectsOf
      <4>2. epGas'[y] = GasOf(eff, cost, y)
          BY <1>1, <2>1, <3>2 DEF GasExact
      <4>3. CASE \E t \in TxsOf(EffectsOf(eff, y)) : t \in txs
        <5>1. PICK i \in EffectsOf(eff, y) : TxOf[i] \in txs
            BY <4>3 DEF TxsOf
        <5> DEFINE t == TxOf[i]
        <5>2. i \in Ids /\ eff[i] # NULL /\ eff[i].key = y /\ t \in Txs
            BY <1>6 DEF EffectsOf
        <5>3. PICK j \in Ids : TxOf[j] = t /\ eff[j] # NULL /\ eff[j].key \in K
            BY <1>4, <5>1
        <5>4. ~(cost[t] # NULL /\ cost[t].key = y)
            BY <1>9, <3>2, <5>2, <5>3, BooksNull DEF CostsBacked
        <5>5. cost'[t] = NULL
            BY <1>10, <5>1, <5>2
        <5>6. t \in {TxOf[x] : x \in EffectsOf(eff, y)}
            OBVIOUS
        <5>7. GasOf(eff, cost, y) = NULL
            BY <5>4, <5>6 DEF GasOf
        <5>8. GasOf(eff', cost', y) = NULL
            BY <4>1, <5>5, <5>6 DEF GasOf
        <5> QED
            BY <4>2, <5>7, <5>8
      <4>4. CASE ~\E t \in TxsOf(EffectsOf(eff, y)) : t \in txs
        <5>1. TxsOf(EffectsOf(eff', y)) = TxsOf(EffectsOf(eff, y))
            BY <4>1
        <5>2. \A t \in TxsOf(EffectsOf(eff, y)) : cost'[t] = cost[t]
          <6>1. TxsOf(EffectsOf(eff, y)) \subseteq Txs
              BY <1>6 DEF TxsOf, EffectsOf
          <6> QED
              BY <1>10, <4>4, <6>1
        <5> QED
            BY <4>2, <5>1, <5>2, GasCongruence
      <4> QED
          BY <4>3, <4>4
    <3> QED
        BY <3>1, <3>2
  <2>5. GasExact'
      BY <2>4 DEF GasExact
  <2> QED
      BY <2>2, <2>3, <2>5
<1> QED
    BY <1>14, <1>15, <1>16, <1>17, <1>18, <1>19 DEF CostsInv

\* The bootstrap.
LEMMA BootstrapCosts ==
    ASSUME BooksInv, CostsInv, prep = {}, prep' = {},
           UNCHANGED <<ev, gas, eff, cost, epGas, owing, epoch, moved>>,
           NEW K, pending' = QueuedKeys(K, {}, {}, FALSE),
           \A i \in Stored : Unvisited(i) => Unvisited(i)' \/ ev[i].key \in K,
           \A i \in Stored : keyOf'[i] = keyOf[i] \/ keyOf'[i] = ev[i].key,
           KeysVisited'
    PROVE  CostsInv'
<1>1. /\ Stored' = Stored /\ BookTypes
      /\ \A t : CostOf(eff, t)' = CostOf(eff, t)
      /\ \A t : (Unwritten(t)' <=> Unwritten(t)) /\ (GasMissing(t)' <=> GasMissing(t))
    BY DEF Stored, CostOf, CostIn, Unwritten, GasMissing, BooksInv
<1>2. \A k \in Keys : /\ k \notin K => pending'[k] = pending[k]
                      /\ k \in K => pending'[k] # NULL /\ ~pending'[k].append /\ ~pending'[k].cost
    BY <1>1, QueuedWithoutProof
<1>3. ASSUME NEW t, WillResolve(t) PROVE WillResolve(t)'
  <2>1. PICK i \in Stored : TxOf[i] = t /\ eff[i] # NULL /\ (Unvisited(i) \/ FullReplay(ev[i].key, t))
      BY <1>3 DEF WillResolve
  <2>2. ev[i].key \in Keys
      BY <1>1 DEF Stored, BookTypes, EventType
  <2>3. ev[i].key \in K => FullReplay(ev[i].key, t)'
      BY <1>2, <2>2 DEF FullReplay
  <2>4. FullReplay(ev[i].key, t) => FullReplay(ev[i].key, t)'
      BY <1>2, <2>2 DEF FullReplay
  <2> QED
      BY <1>1, <2>1, <2>3, <2>4 DEF WillResolve
<1>4. CostsOwed'
    BY <1>1, <1>3 DEF CostsInv, CostsOwed
<1>5. CostsBacked' /\ EffectsStored' /\ PrepCosts'
    BY DEF CostsInv, CostsBacked, EffectsStored, PrepCosts
<1>6. OwingQueued'
    BY <1>2 DEF CostsInv, OwingQueued
<1>7. ASSUME ~moved' PROVE OwnEffects' /\ OwnWrites' /\ GasExact'
  <2>1. OwnEffects /\ GasExact
      BY <1>7 DEF CostsInv
  <2>2. OwnEffects'
      BY <1>1, <2>1 DEF OwnEffects
  <2>3. OwnWrites'
      BY DEF OwnWrites
  <2>4. GasExact'
      BY <2>1 DEF GasExact, GasOf, EffectsOf
  <2> QED
      BY <2>2, <2>3, <2>4
<1> QED
    BY <1>4, <1>5, <1>6, <1>7 DEF CostsInv

LEMMA BootstrapEventCosts == BooksInv /\ CostsInv /\ Between /\ BootstrapEvent => CostsInv'
<1> SUFFICES ASSUME BooksInv, CostsInv, Between, BootstrapEvent PROVE CostsInv'
    OBVIOUS
<1> DEFINE rest == {i \in Stored : i > cursor}
           i == CHOOSE j \in rest : \A x \in rest : j <= x
           K == Known({keyOf[i], ev[i].key})
<1>1. /\ UNCHANGED <<ev, gas, eff, cost, epGas, owing, epoch, moved>>
      /\ phase = "events" /\ prep = {} /\ prep' = {}
    BY DEF BootstrapEvent, Between, bookVars, passVars, runVars
<1>2. BookTypes /\ rest \in SUBSET Nat /\ KeysVisited
    BY BooksAssumption DEF BooksInv, Stored, CostsInv
<1>3. CASE rest = {}
  <2>1. phase' = "stale" /\ Requeue({}, {}, {}, FALSE) /\ UNCHANGED <<cursor, keyOf>>
      BY <1>3 DEF BootstrapEvent
  <2>2. pending' = QueuedKeys({}, {}, {}, FALSE)
      BY <2>1 DEF Requeue
  <2>3. \A j \in Stored : ~Unvisited(j)
      BY <1>3 DEF Unvisited
  <2>4. KeysVisited'
      BY <1>1, <1>2, <2>1, <2>3 DEF KeysVisited, Stored
  <2> QED
      BY <1>1, <2>1, <2>2, <2>3, <2>4, BootstrapCosts
<1>4. CASE rest # {}
  <2>1. /\ cursor' = i /\ keyOf' = [keyOf EXCEPT ![i] = ev[i].key]
        /\ Requeue(K, {}, {}, FALSE) /\ UNCHANGED phase
      BY <1>4 DEF BootstrapEvent
  <2>2. i \in rest /\ \A x \in rest : i <= x
    <3> HIDE DEF rest
    <3> QED
        BY <1>2, <1>4, FirstOf
  <2>3. i \in Ids /\ ev[i] \in EventType /\ i \in Nat
      BY <1>2, <2>2 DEF Stored, BookTypes
  <2> HIDE DEF i
  <2>4. ev[i].key \in K
      BY <2>3, BooksNull DEF Known, EventType
  <2> HIDE DEF K
  <2>5. ASSUME NEW j \in Stored
        PROVE  /\ Unvisited(j) => Unvisited(j)' \/ j = i
               /\ ~Unvisited(j)' => ~Unvisited(j) \/ j = i
               /\ j = i => keyOf'[j] = ev[i].key
               /\ j # i => keyOf'[j] = keyOf[j]
    <3>1. j \in Nat /\ j \in Ids /\ cursor \in Nat
        BY <1>2, BooksAssumption DEF Stored, BookTypes
    <3>2. j > cursor => i <= j
        BY <2>2, <3>1
    <3>3. i > cursor
        BY <2>2
    <3>4. keyOf'[j] = IF j = i THEN ev[i].key ELSE keyOf[j]
        BY <1>2, <2>1, <3>1 DEF BookTypes
    <3> QED
        BY <1>1, <2>1, <2>3, <3>1, <3>2, <3>3, <3>4 DEF Unvisited
  <2>6. KeysVisited'
      BY <1>1, <1>2, <2>5 DEF KeysVisited, Stored
  <2>7. pending' = QueuedKeys(K, {}, {}, FALSE)
      BY <2>1 DEF Requeue
  <2>8. \A j \in Stored : Unvisited(j) => Unvisited(j)' \/ ev[j].key \in K
      BY <2>4, <2>5
  <2>9. \A j \in Stored : keyOf'[j] = keyOf[j] \/ keyOf'[j] = ev[j].key
      BY <2>5
  <2> QED
      BY <1>1, <2>6, <2>7, <2>8, <2>9, BootstrapCosts
<1> QED
    BY <1>3, <1>4

LEMMA BootstrapStaleCosts == BooksInv /\ CostsInv /\ Between /\ BootstrapStale => CostsInv'
<1> SUFFICES ASSUME BooksInv, CostsInv, Between, BootstrapStale PROVE CostsInv'
    OBVIOUS
<1> DEFINE orphans == {i \in Ids : keyOf[i] # NULL /\ ev[i] = NULL}
           K == {keyOf[i] : i \in orphans}
<1>1. /\ UNCHANGED <<ev, gas, eff, cost, epGas, owing, epoch, moved>>
      /\ phase = "stale" /\ prep = {} /\ prep' = {} /\ phase' # "events"
    BY DEF BootstrapStale, Between, bookVars, passVars, runVars
<1>2. BookTypes /\ KeysVisited
    BY DEF BooksInv, CostsInv
<1>3. \A j : ~Unvisited(j) /\ ~Unvisited(j)'
    BY <1>1 DEF Unvisited
<1>4. \A j \in Stored : keyOf'[j] = keyOf[j]
    BY <1>2 DEF BootstrapStale, Stored, BookTypes
<1>5. KeysVisited'
    BY <1>1, <1>2, <1>3, <1>4 DEF KeysVisited, Stored
<1>6. CASE orphans = {}
  <2>1. UNCHANGED pending
      BY <1>6 DEF BootstrapStale
  <2>2. pending' = QueuedKeys({}, {}, {}, FALSE)
      BY <1>2, <2>1 DEF QueuedKeys, BookTypes
  <2> QED
      BY <1>1, <1>3, <1>4, <1>5, <2>2, BootstrapCosts
<1>7. CASE orphans # {}
  <2>1. pending' = QueuedKeys(K, {}, {}, FALSE)
      BY <1>7 DEF BootstrapStale, Requeue
  <2> HIDE DEF K
  <2> QED
      BY <1>1, <1>3, <1>4, <1>5, <2>1, BootstrapCosts
<1> QED
    BY <1>6, <1>7

LEMMA BootstrapPositionCosts == BooksInv /\ CostsInv /\ Between /\ BootstrapPosition => CostsInv'
<1> SUFFICES ASSUME BooksInv, CostsInv, Between, BootstrapPosition PROVE CostsInv'
    OBVIOUS
<1>1. /\ UNCHANGED <<ev, gas, keyOf, eff, cost, epGas, owing, epoch, moved>>
      /\ phase = "positions" /\ prep = {} /\ prep' = {} /\ phase' # "events"
    BY DEF BootstrapPosition, Between, eventVars, bookVars, passVars, runVars
<1>2. KeysVisited
    BY DEF CostsInv
<1>3. \A j : ~Unvisited(j) /\ ~Unvisited(j)'
    BY <1>1 DEF Unvisited
<1>4. KeysVisited'
    BY <1>1, <1>2, <1>3 DEF KeysVisited, Stored
<1>5. PICK K : pending' = QueuedKeys(K, {}, {}, FALSE)
    BY DEF BootstrapPosition, Requeue
<1> QED
    BY <1>1, <1>3, <1>4, <1>5, BootstrapCosts

\* The steps that only run the queue.
LEMMA QueueCosts ==
    ASSUME BooksInv, CostsInv,
           \/ StartPass \/ RestartBooks \/ UNCHANGED booksAll
           \/ \E k \in Keys : RetryDue(k) \/ HintPage(k)
           \/ \E W \in SUBSET Keys : PrepareFails(W)
    PROVE  CostsInv'
<1>1. BookTypes /\ PrepsOK
    BY DEF BooksInv
<1>2. /\ UNCHANGED <<ev, keyOf, gas, eff, cost, epGas, owing, moved, epoch, phase, cursor>>
      /\ prep' \subseteq prep /\ UNCHANGED pending
    BY DEF StartPass, RestartBooks, RetryDue, HintPage, PrepareFails, booksAll, eventVars, bookVars,
       queueVars, bootVars, passVars, runVars
<1> QED
    BY <1>1, <1>2, CostsQuiet

LEMMA HintPublishCosts == BooksInv /\ CostsInv /\ HintPublish => CostsInv'
<1> SUFFICES ASSUME BooksInv, CostsInv, HintPublish PROVE CostsInv'
    OBVIOUS
<1>1. BookTypes /\ PrepsOK
    BY DEF BooksInv
<1>2. /\ UNCHANGED <<ev, keyOf, gas, eff, cost, epGas, owing, moved, epoch, phase, cursor>>
      /\ prep' \subseteq prep
    BY DEF HintPublish, eventVars, bookVars, bootVars, passVars, runVars
<1>3. \A k \in Keys : /\ pending'[k] = NULL <=> pending[k] = NULL
                      /\ pending'[k].gen = pending[k].gen
                      /\ pending'[k].append = pending[k].append
                      /\ pending'[k].cost = pending[k].cost
  <2>1. CASE UNCHANGED pending
      BY <2>1
  <2>2. CASE pending' # pending
    <3> DEFINE x == hp.key
    <3>1. /\ hp # NULL /\ pending[x] # NULL
          /\ pending' = [pending EXCEPT ![x].cursor = hp.next, ![x].ready = hp.complete]
        BY <2>2 DEF HintPublish
    <3>2. x \in Keys /\ pending \in [Keys -> PendingType \cup {NULL}]
          /\ hp.next \in Nat /\ hp.complete \in BOOLEAN
        BY <1>1, <3>1 DEF BookTypes
    <3>3. pending'[x] = [pending[x] EXCEPT !.cursor = hp.next, !.ready = hp.complete]
        BY <3>1, <3>2
    <3>4. pending[x] \in PendingType
        BY <3>1, <3>2
    <3>5. pending'[x] \in PendingType /\ pending'[x].gen = pending[x].gen
          /\ pending'[x].append = pending[x].append /\ pending'[x].cost = pending[x].cost
        BY <3>2, <3>3, <3>4 DEF PendingType
    <3>6. \A k \in Keys : k # x => pending'[k] = pending[k]
        BY <3>1, <3>2
    <3> HIDE DEF x
    <3> QED
        BY <3>1, <3>5, <3>6, BooksNull
  <2> QED
      BY <2>1, <2>2
<1> QED
    BY <1>1, <1>2, <1>3, CostsQuiet

\* The costs and gas of an accepted publication.
Refreshed(p) ==
    LET f == PublishedEffects(p)
        c == [t \in Txs |-> IF t \in p.txs THEN CostOf(f, t) ELSE cost[t]]
        changed == {t \in p.txs : c[t] # cost[t]}
        K == p.episodes \cup {f[i].key : i \in {j \in Ids : f[j] # NULL /\ TxOf[j] \in changed}}
    IN  /\ cost' = c
        /\ epGas' = [k \in Keys |-> IF k \in K THEN GasOf(f, c, k) ELSE epGas[k]]

LEMMA PublicationRefreshes ==
    ASSUME NEW p \in prep, PublishBooks(p), p.epoch = epoch, pending[p.key] # NULL
    PROVE  /\ Refreshed(p)
           /\ owing' = (IF pending[p.key].gen = p.gen THEN [owing EXCEPT ![p.key] = {}] ELSE owing)
           /\ UNCHANGED <<gas, moved>>
BY DEF PublishBooks, PublishedEffects, Wanted, eventVars, runVars, RefreshCosts, Refreshed

LEMMA RefreshedIs ==
    ASSUME NEW p, Refreshed(p), eff' = PublishedEffects(p), UNCHANGED <<ev, gas>>
    PROVE  /\ \A t \in Txs : t \in p.txs => cost'[t] = CostOf(eff, t)'
           /\ \A t \in Txs : t \notin p.txs => cost'[t] = cost[t]
           /\ \A k \in Keys : \/ epGas'[k] = GasOf(eff', cost', k)
                              \/ /\ epGas'[k] = epGas[k] /\ k \notin p.episodes
                                 /\ \A i \in Ids : eff'[i] # NULL /\ eff'[i].key = k /\ TxOf[i] \in p.txs =>
                                                      cost'[TxOf[i]] = cost[TxOf[i]]
<1> DEFINE f == PublishedEffects(p)
           c == [t \in Txs |-> IF t \in p.txs THEN CostOf(f, t) ELSE cost[t]]
           changed == {t \in p.txs : c[t] # cost[t]}
           K == p.episodes \cup {f[i].key : i \in {j \in Ids : f[j] # NULL /\ TxOf[j] \in changed}}
<1>1. cost' = c /\ epGas' = [k \in Keys |-> IF k \in K THEN GasOf(f, c, k) ELSE epGas[k]] /\ eff' = f
    BY DEF Refreshed
<1>2. ASSUME NEW t \in Txs, t \in p.txs PROVE cost'[t] = CostOf(eff, t)'
  <2>1. Stored' = Stored
      BY DEF Stored
  <2>2. cost'[t] = CostOf(f, t)
      BY <1>1, <1>2
  <2> HIDE DEF f
  <2> QED
      BY <1>1, <2>1, <2>2 DEF CostOf
<1>3. ASSUME NEW t \in Txs, t \notin p.txs PROVE cost'[t] = cost[t]
  <2> HIDE DEF f
  <2> QED
      BY <1>1, <1>3
<1>4. ASSUME NEW k \in Keys
      PROVE  \/ epGas'[k] = GasOf(eff', cost', k)
             \/ /\ epGas'[k] = epGas[k] /\ k \notin p.episodes
                /\ \A i \in Ids : eff'[i] # NULL /\ eff'[i].key = k /\ TxOf[i] \in p.txs =>
                                     cost'[TxOf[i]] = cost[TxOf[i]]
  <2>1. CASE k \in K
    <3> HIDE DEF f, c, K
    <3> QED
        BY <1>1, <2>1
  <2>2. CASE k \notin K
    <3>1. epGas'[k] = epGas[k]
      <4> HIDE DEF f, c, K
      <4> QED
          BY <1>1, <2>2
    <3>2. k \notin p.episodes
        BY <2>2
    <3>3. ASSUME NEW i \in Ids, eff'[i] # NULL, eff'[i].key = k, TxOf[i] \in p.txs
          PROVE  cost'[TxOf[i]] = cost[TxOf[i]]
      <4> HIDE DEF f, c
      <4>1. TxOf[i] \notin changed
          BY <1>1, <2>2, <3>3
      <4> QED
          BY <1>1, <3>3, <4>1
    <3> QED
        BY <3>1, <3>2, <3>3
  <2> QED
      BY <2>1, <2>2
<1> QED
    BY <1>2, <1>3, <1>4

LEMMA PublishCosts == BooksInv /\ CostsInv /\ (\E p \in prep : PublishBooks(p)) => CostsInv'
<1> SUFFICES ASSUME BooksInv, CostsInv, NEW p \in prep, PublishBooks(p) PROVE CostsInv'
    OBVIOUS
<1> DEFINE k == p.key
           done == pending[k].gen = p.gen
<1>1. BookTypes /\ PrepsOK /\ PrepType(p) /\ Counted(p) /\ k \in Keys
    BY DEF BooksInv, PrepsOK, PrepType
<1>2. CASE ~(p.epoch = epoch /\ pending[k] # NULL)
  <2>1. /\ UNCHANGED <<ev, keyOf, gas, eff, cost, epGas, owing, moved, epoch, phase, cursor>>
        /\ prep' \subseteq prep /\ UNCHANGED pending
      BY <1>2 DEF PublishBooks, eventVars, queueVars, bookVars, bootVars, runVars
  <2> QED
      BY <1>1, <2>1, CostsQuiet
<1>3. CASE p.epoch = epoch /\ pending[k] # NULL
  <2>1. /\ UNCHANGED <<ev, keyOf, epoch, phase, cursor>>
        /\ prep' = prep \ {p} /\ eff' = PublishedEffects(p)
        /\ pending' = IF done THEN [pending EXCEPT ![k] = NULL] ELSE pending
      BY <1>3, PublicationAccepted DEF Accepted
  <2>2. /\ Refreshed(p) /\ UNCHANGED <<gas, moved>>
        /\ owing' = IF done THEN [owing EXCEPT ![k] = {}] ELSE owing
      BY <1>3, PublicationRefreshes
  <2>3. Refreshes(p)
      BY <1>3 DEF CostsInv, PrepCosts
  <2>4. /\ \A t \in Txs : t \in p.txs => cost'[t] = CostOf(eff, t)'
        /\ \A t \in Txs : t \notin p.txs => cost'[t] = cost[t]
        /\ \A y \in Keys : \/ epGas'[y] = GasOf(eff', cost', y)
                           \/ /\ epGas'[y] = epGas[y] /\ y \notin p.episodes
                              /\ \A i \in Ids : eff'[i] # NULL /\ eff'[i].key = y /\ TxOf[i] \in p.txs =>
                                                   cost'[TxOf[i]] = cost[TxOf[i]]
      BY <2>1, <2>2, RefreshedIs
  <2>5. Stored' = Stored /\ Stored \subseteq Ids /\ \A i : Unvisited(i)' <=> Unvisited(i)
      BY <2>1 DEF Stored, Unvisited
  <2>6. \A i \in Ids : eff'[i] # eff[i] => \/ \E r \in Wanted(p) : r.id = i
                                           \/ i \in p.deletes
      BY <2>1, PublishedEffectsAre
  <2>7. \A i \in Ids : TxOf[i] \notin p.txs => eff'[i] = eff[i]
      BY <2>3, <2>6 DEF Refreshes, Wanted
  <2>8. eff' \in [Ids -> EventType \cup {NULL}]
    <3>1. \A i \in Ids : PublishedEffects(p)[i] \in EventType \cup {NULL}
        BY <1>1, PublishedEffectsAre DEF BookTypes
    <3>2. PublishedEffects(p) = [i \in Ids |-> PublishedEffects(p)[i]]
        BY DEF PublishedEffects
    <3> QED
        BY <2>1, <3>1, <3>2
  <2>9. /\ \A y \in Keys : y # k => pending'[y] = pending[y] /\ owing'[y] = owing[y]
        /\ pending'[k] = (IF done THEN NULL ELSE pending[k])
        /\ done => owing'[k] = {}
        /\ ~done => owing' = owing /\ pending' = pending
    <3>1. /\ \A y \in Keys : y # k => pending'[y] = pending[y]
          /\ pending'[k] = (IF done THEN NULL ELSE pending[k])
        BY <1>1, <2>1 DEF BookTypes
    <3>2. CASE done
      <4>1. \A y \in Keys : (y # k => owing'[y] = owing[y]) /\ (y = k => owing'[y] = {})
          BY <2>2, <3>2, <1>1 DEF CostsInv, OwingQueued
      <4> QED
          BY <1>1, <3>1, <3>2, <4>1
    <3>3. CASE ~done
        BY <2>1, <2>2, <3>1, <3>3
    <3> QED
        BY <3>2, <3>3
  <2>10. CostsOwed'
    <3> SUFFICES ASSUME NEW t \in Txs
                 PROVE  \/ cost'[t] = CostOf(eff, t)'
                        \/ \E y \in Keys : t \in owing'[y]
                        \/ Unwritten(t)'
                        \/ GasMissing(t)' /\ WillResolve(t)'
        BY DEF CostsOwed
    <3>1. CASE t \in p.txs
        BY <2>4, <3>1
    <3>2. CASE t \notin p.txs
      <4>1. \A i \in Ids : TxOf[i] = t => eff'[i] = eff[i] /\ (i \in Stored' <=> i \in Stored)
          BY <2>5, <2>7, <3>2
      <4>2. CostOf(eff, t)' = CostOf(eff, t) /\ cost'[t] = cost[t]
        <5>1. CostIn(eff', Stored', gas', t) = CostIn(eff, Stored, gas, t)
            BY <2>2, <2>5, <4>1, CostCongruence
        <5> QED
            BY <2>4, <3>2, <5>1 DEF CostOf
      <4>3. ASSUME NEW y \in Keys, t \in owing[y] PROVE t \in owing'[y]
        <5>1. y = k => ~done
            BY <2>3, <3>2, <4>3 DEF Refreshes
        <5> QED
            BY <2>9, <4>3, <5>1
      <4>4. Unwritten(t) => Unwritten(t)'
          BY <2>5, <4>1 DEF Unwritten
      <4>5. GasMissing(t) => GasMissing(t)'
          BY <2>2, <4>2 DEF GasMissing
      <4>6. ASSUME NEW y \in Keys, FullReplay(y, t) PROVE FullReplay(y, t)'
        <5>1. y = k => ~done
            BY <1>3, <3>2, <4>6 DEF FullReplay
        <5>2. pending'[y] = pending[y]
            BY <2>9, <5>1
        <5> QED
            BY <2>1, <4>6, <5>2 DEF FullReplay
      <4>7. WillResolve(t) => WillResolve(t)'
        <5>1. ASSUME NEW i \in Stored, TxOf[i] = t, eff[i] # NULL, Unvisited(i) \/ FullReplay(ev[i].key, t)
              PROVE  i \in Stored' /\ eff'[i] # NULL /\ (Unvisited(i)' \/ FullReplay(ev[i].key, t)')
          <6>1. ev[i].key \in Keys
              BY <1>1 DEF Stored, BookTypes, EventType
          <6>2. PICK y \in Keys : y = ev[i].key
              BY <6>1
          <6>3. FullReplay(ev[i].key, t) => FullReplay(ev[i].key, t)'
              BY <2>1, <4>6, <6>2
          <6> QED
              BY <2>5, <4>1, <5>1, <6>3
        <5> QED
            BY <5>1 DEF WillResolve
      <4>8. \/ cost[t] = CostOf(eff, t)
            \/ \E y \in Keys : t \in owing[y]
            \/ Unwritten(t)
            \/ GasMissing(t) /\ WillResolve(t)
          BY DEF CostsInv, CostsOwed
      <4> QED
          BY <4>2, <4>3, <4>4, <4>5, <4>7, <4>8
    <3> QED
        BY <3>1, <3>2
  <2>11. CostsBacked'
    <3> SUFFICES ASSUME NEW t \in Txs, cost'[t] # NULL
                 PROVE  /\ \E i \in Ids : TxOf[i] = t /\ eff'[i] # NULL
                        /\ cost'[t].key # NULL =>
                              \A i \in Ids : TxOf[i] = t /\ eff'[i] # NULL => eff'[i].key = cost'[t].key
        BY DEF CostsBacked
    <3>1. CASE t \in p.txs
      <4>1. cost'[t] = CostIn(eff', Stored', gas', t)
          BY <2>4, <3>1 DEF CostOf
      <4> QED
          BY <2>8, <4>1, CostIs
    <3>2. CASE t \notin p.txs
      <4>1. cost'[t] = cost[t] /\ \A i \in Ids : TxOf[i] = t => eff'[i] = eff[i]
          BY <2>4, <2>7, <3>2
      <4> QED
          BY <4>1 DEF CostsInv, CostsBacked
    <3> QED
        BY <3>1, <3>2
  <2>12. EffectsStored'
    <3> SUFFICES ASSUME NEW i \in Ids, eff'[i] # NULL PROVE ev'[i] # NULL
        BY DEF EffectsStored
    <3>1. CASE \E r \in Wanted(p) : r.id = i
        BY <2>1, <2>3, <3>1 DEF Refreshes, Wanted
    <3>2. CASE ~\E r \in Wanted(p) : r.id = i
      <4>1. eff'[i] = eff[i]
          BY <2>1, <3>2, PublishedEffectsAre
      <4> QED
          BY <2>1, <4>1 DEF CostsInv, EffectsStored
    <3> QED
        BY <3>1, <3>2
  <2>13. KeysVisited'
      BY <2>1, <2>5 DEF CostsInv, KeysVisited
  <2>14. OwingQueued'
    <3>a. owing = [y \in Keys |-> owing[y]]
        BY DEF CostsInv, OwingQueued
    <3>b. owing' = [y \in Keys |-> owing'[y]]
        BY <2>2, <3>a
    <3> SUFFICES ASSUME NEW y \in Keys, pending'[y] = NULL PROVE owing'[y] = {}
        BY <3>b DEF OwingQueued
    <3>1. CASE y # k \/ ~done
        BY <2>9, <3>1 DEF CostsInv, OwingQueued
    <3>2. CASE y = k /\ done
        BY <2>9, <3>2
    <3> QED
        BY <3>1, <3>2
  <2>15. ASSUME NEW q \in prep' PROVE q \in prep /\ q.key # k /\ q.key \in Keys
      BY <1>1, <2>1 DEF PrepsOK, PrepType
  <2>16. PrepCosts'
    <3>1. ASSUME NEW q \in prep', q.epoch = epoch' PROVE Refreshes(q)'
      <4>1. /\ q \in prep /\ q.key # k /\ q.key \in Keys /\ Refreshes(q)
          BY <2>1, <2>15, <3>1 DEF CostsInv, PrepCosts
      <4>2. pending'[q.key] = pending[q.key] /\ owing'[q.key] = owing[q.key]
          BY <2>9, <4>1
      <4> QED
          BY <2>1, <4>1, <4>2 DEF Refreshes
    <3> QED
        BY <3>1 DEF PrepCosts
  <2>17. ASSUME ~moved' PROVE OwnEffects' /\ OwnWrites' /\ GasExact'
    <3>1. OwnEffects /\ OwnWrites /\ GasExact
        BY <2>2, <2>17 DEF CostsInv
    <3>2. /\ EpisodeNoticed(p)
          /\ \A r \in p.writes : keyOf[r.id] = k /\ r.id \in Ids
        BY <1>1, <1>3, <3>1 DEF OwnWrites, PrepType, LedgerRow
    <3>3. Wanted(p) = p.writes
        BY <3>2 DEF Wanted, MayWrite
    <3>4. ASSUME NEW r \in p.writes PROVE r.id \in Stored /\ ev[r.id].key = k
      <4>1. r.id \in Stored
          BY <2>3, <3>2 DEF Refreshes, Stored
      <4> QED
          BY <1>1, <3>1, <3>2, <4>1, BooksNull DEF OwnEffects
    <3>5. OwnEffects'
      <4>1. ASSUME NEW i \in Stored', eff'[i] # NULL PROVE eff'[i].key = ev'[i].key
        <5>1. i \in Ids
            BY <2>5
        <5>2. CASE \E r \in Wanted(p) : r.id = i
          <6>1. eff'[i].key = k
              BY <2>1, <5>1, <5>2, PublishedEffectsAre
          <6> QED
              BY <2>1, <3>3, <3>4, <5>2, <6>1
        <5>3. CASE ~\E r \in Wanted(p) : r.id = i
          <6>1. eff'[i] = eff[i]
              BY <2>1, <4>1, <5>1, <5>3, PublishedEffectsAre
          <6> QED
              BY <2>1, <2>5, <3>1, <4>1, <6>1 DEF OwnEffects
        <5> QED
            BY <5>2, <5>3
      <4> QED
          BY <2>1, <2>5, <3>1, <4>1 DEF OwnEffects
    <3>6. ASSUME NEW y \in Keys, y # k PROVE EffectsOf(eff, y)' = EffectsOf(eff, y)
      <4>1. ASSUME NEW i \in Ids, eff[i] # NULL, eff[i].key = y PROVE eff'[i] = eff[i]
        <5>1. i \in Stored /\ ev[i].key = y
            BY <3>1, <4>1 DEF CostsInv, EffectsStored, OwnEffects, Stored
        <5>2. ~\E r \in Wanted(p) : r.id = i
            BY <3>3, <3>4, <3>6, <5>1
        <5> QED
            BY <2>1, <3>6, <4>1, <5>2, PublishedEffectsAre
      <4>2. ASSUME NEW i \in Ids, eff'[i] # NULL, eff'[i].key = y PROVE eff'[i] = eff[i]
        <5>1. ~\E r \in Wanted(p) : r.id = i
            BY <2>1, <3>6, <4>2, PublishedEffectsAre
        <5> QED
            BY <2>1, <4>2, <5>1, PublishedEffectsAre
      <4> QED
          BY <4>1, <4>2 DEF EffectsOf
    <3>7. EffectsOf(eff, k)' = (EffectsOf(eff, k) \ p.deletes) \cup IdsOf(p.writes)
      <4>1. ASSUME NEW i \in Ids, \E r \in Wanted(p) : r.id = i
            PROVE  eff'[i] # NULL /\ eff'[i].key = k
          BY <2>1, <4>1, PublishedEffectsAre, BooksNull
      <4>2. ASSUME NEW i \in Ids, ~\E r \in Wanted(p) : r.id = i
            PROVE  eff'[i] # NULL /\ eff'[i].key = k <=> eff[i] # NULL /\ eff[i].key = k /\ i \notin p.deletes
          BY <2>1, <4>2, PublishedEffectsAre
      <4>3. \A i \in Ids : i \in IdsOf(p.writes) <=> \E r \in Wanted(p) : r.id = i
          BY <3>3 DEF IdsOf
      <4>4. IdsOf(p.writes) \subseteq Ids
          BY <3>2 DEF IdsOf
      <4>5. \A i \in Ids : eff'[i] # NULL /\ eff'[i].key = k
                             <=> i \in (EffectsOf(eff, k) \ p.deletes) \cup IdsOf(p.writes)
          BY <4>1, <4>2, <4>3 DEF EffectsOf
      <4>6. EffectsOf(eff, k) \subseteq Ids
          BY DEF EffectsOf
      <4>7. EffectsOf(eff, k)' = {i \in Ids : eff'[i] # NULL /\ eff'[i].key = k}
          BY DEF EffectsOf
      <4> HIDE DEF k
      <4> QED
          BY <4>4, <4>5, <4>6, <4>7
    <3>8. OwnWrites'
      <4>1. ASSUME NEW q \in prep', q.epoch = epoch'
            PROVE  EpisodeNoticed(q)' /\ \A r \in q.writes : keyOf'[r.id] = q.key
        <5>1. q \in prep /\ q.key # k /\ q.key \in Keys /\ q.epoch = epoch
            BY <2>1, <2>15, <4>1
        <5>2. EpisodeNoticed(q) /\ \A r \in q.writes : keyOf[r.id] = q.key
            BY <3>1, <5>1 DEF OwnWrites
        <5>3. EffectsOf(eff, q.key)' = EffectsOf(eff, q.key)
            BY <3>6, <5>1
        <5> QED
            BY <2>1, <5>2, <5>3 DEF EpisodeNoticed
      <4> QED
          BY <4>1 DEF OwnWrites
    <3>9. ASSUME NEW y \in Keys PROVE epGas'[y] = GasOf(eff', cost', y)
      <4>1. CASE epGas'[y] = GasOf(eff', cost', y)
          BY <4>1
      <4>2. CASE /\ epGas'[y] = epGas[y] /\ y \notin p.episodes
                 /\ \A i \in Ids : eff'[i] # NULL /\ eff'[i].key = y /\ TxOf[i] \in p.txs =>
                                      cost'[TxOf[i]] = cost[TxOf[i]]
        <5>1. TxsOf(EffectsOf(eff', y)) = TxsOf(EffectsOf(eff, y))
          <6>1. CASE y # k
              BY <3>6, <6>1
          <6>2. CASE y = k
              BY <3>2, <3>7, <4>2, <6>2 DEF EpisodeNoticed
          <6> QED
              BY <6>1, <6>2
        <5>2. ASSUME NEW t \in TxsOf(EffectsOf(eff, y)) PROVE cost'[t] = cost[t]
          <6>1. PICK i \in EffectsOf(eff', y) : TxOf[i] = t
              BY <5>1, <5>2 DEF TxsOf
          <6>2. i \in Ids /\ eff'[i] # NULL /\ eff'[i].key = y /\ t \in Txs
              BY <6>1, BooksAssumption DEF EffectsOf
          <6> QED
              BY <2>4, <4>2, <6>1, <6>2
        <5>3. GasOf(eff', cost', y) = GasOf(eff, cost, y)
            BY <5>1, <5>2, GasCongruence
        <5> QED
            BY <3>1, <4>2, <5>3 DEF GasExact
      <4> QED
          BY <2>4, <4>1, <4>2
    <3>10. GasExact'
        BY <3>9 DEF GasExact
    <3> QED
        BY <3>5, <3>8, <3>10
  <2> QED
      BY <2>10, <2>11, <2>12, <2>13, <2>14, <2>16, <2>17 DEF CostsInv
<1> QED
    BY <1>2, <1>3

LEMMA CostsStep == BooksInv /\ CostsInv /\ [BooksNext]_booksAll => CostsInv'
<1> SUFFICES ASSUME BooksInv, CostsInv, [BooksNext]_booksAll PROVE CostsInv'
    OBVIOUS
<1>1. CASE Ingestion
    BY <1>1, NewEventCosts, CorrectCosts, ReceiptCosts, RollbackCosts DEF Ingestion
<1>2. CASE Bootstrap
    BY <1>2, BootstrapEventCosts, BootstrapStaleCosts, BootstrapPositionCosts DEF Bootstrap
<1>3. CASE Projection
    BY <1>3, QueueCosts, PrepareCosts, PublishCosts DEF Projection
<1>4. CASE \/ \E W \in SUBSET Keys : PrepareFails(W)
           \/ \E k \in Keys : HintPage(k)
           \/ RestartBooks \/ UNCHANGED booksAll
    BY <1>4, QueueCosts
<1>5. CASE HintPublish
    BY <1>5, HintPublishCosts
<1> QED
    BY <1>1, <1>2, <1>3, <1>4, <1>5 DEF BooksNext

LEMMA CostsInvariant == BooksSpec => [](BooksInv /\ CostsInv)
BY BooksInitInv, BooksStep, CostsInit, CostsStep, PTL DEF BooksSpec

\* With nothing queued no cost is owed any more: everything stored is mapped to
\* its position and has its effect there.
LEMMA CostsSettled == BooksInv /\ CostsInv => CostsExact
<1> SUFFICES ASSUME BooksInv, CostsInv, \A k \in Keys : Published(k)
             PROVE  /\ \A t \in Txs : cost[t] = CostOf(eff, t)
                    /\ ~moved => \A k \in Keys : posn[k] # NULL => epGas[k] = GasOf(eff, cost, k)
    BY DEF CostsExact
<1>1. ASSUME NEW t \in Txs PROVE cost[t] = CostOf(eff, t)
  <2>1. \A k \in Keys : owing[k] = {} /\ pending[k] = NULL
      BY DEF CostsInv, OwingQueued, Published
  <2>2. ASSUME NEW i \in Stored PROVE eff[i] # NULL /\ ev[i].key \in Keys /\ ~Unvisited(i)
    <3>1. ev[i].key \in Keys /\ i \in Ids
        BY DEF BooksInv, BookTypes, EventType, Stored
    <3>2. PICK k \in Keys : k = ev[i].key
        BY <3>1
    <3>3. ~Unvisited(i) /\ Published(k)
        BY <3>2 DEF Published, Unvisited
    <3>4. keyOf[i] = k
        BY <3>2, <3>3 DEF CostsInv, KeysVisited
    <3>5. Agrees(i, k)
      <4>1. Exact(k)
          BY <3>3 DEF BooksInv, PositionsOK, Published, Due
      <4>2. i \in Visited(k)
          BY <3>3, <3>4 DEF Visited, Mapped
      <4> QED
          BY <4>1, <4>2 DEF Exact
    <3>6. eff[i] # NULL
      <4>1. ev[i].owner \in Holders
          BY <3>1 DEF BooksInv, BookTypes, EventType, Stored
      <4> QED
          BY <3>5, <4>1, BooksNull DEF Agrees, EventType
    <3> QED
        BY <3>1, <3>3, <3>6
  <2>3. ~Unwritten(t)
      BY <2>2 DEF Unwritten
  <2>4. ~WillResolve(t)
      BY <2>1, <2>2 DEF WillResolve, FullReplay
  <2> QED
      BY <2>1, <2>3, <2>4 DEF CostsInv, CostsOwed
<1>2. ASSUME ~moved, NEW k \in Keys PROVE epGas[k] = GasOf(eff, cost, k)
    BY <1>2 DEF CostsInv, GasExact
<1> QED
    BY <1>1, <1>2

\* The deferred books are exact: a position that is not queued is published
\* from exactly its events, with nothing queued every transaction's cost is
\* what a full rebuild computes (and, while no event changed its position, the
\* gas of every episode), and the book calls itself clean only then: whatever
\* is ingested, corrected, moved, rolled back or bootstrapped while preparations
\* are read on old snapshots and published in any order (project_pending,
\* _publish_pending, _rebuild_tx_costs, _refresh_episode_costs,
\* _rollback_deferred, _resume_bootstrap).
THEOREM BooksStayExact == BooksSpec => []AccountingExact
<1>1. BooksInv /\ CostsInv => AccountingExact
    BY LedgerSettled, CostsSettled DEF AccountingExact, BooksInv
<1> QED
    BY <1>1, CostsInvariant, PTL
=============================================================================
