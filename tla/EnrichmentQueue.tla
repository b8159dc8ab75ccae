--------------------------- MODULE EnrichmentQueue ---------------------------
(***************************************************************************)
(* The queue pending_enrichment and everything that writes it: interval    *)
(* commits and rollbacks, the receipt enrichment worker with its fetch     *)
(* waves, the worker that replays logs whose pool identity was deferred,   *)
(* the seeding of such logs at startup, and restarts (lp_market_index.py,  *)
(* lp_market_store.py).                                                    *)
(*                                                                         *)
(* Transactions are numbered in chain order.  A reorganisation at p moves  *)
(* the transactions from p on to new blocks; a block hash never comes      *)
(* back.  A stored transaction has its header stored; its logs are named   *)
(* by their pools.  Retry delays are not counted: a job that will be due   *)
(* may be picked, a dead-lettered one may not.                             *)
(***************************************************************************)
EXTENDS Integers, FiniteSets, FiniteSetsExt

CONSTANTS
    Tx,             \* transactions, a set of positive numbers
    Pool,           \* pool identities that appear in logs
    V4,             \* the V4 ones: their logs decode without a known pool
    Real,           \* the ones a factory or PoolKey confirms
    Touch,          \* the pools of a transaction's logs
    Lp,             \* those of them with a log of LP_ENRICHMENT_KINDS
    Undecodable,    \* transactions whose receipt raises ProtocolDecodeError
    DecodeLimit,    \* ENRICHMENT_DECODE_TERMINAL_ATTEMPTS
    MaxAttempts,    \* ENRICHMENT_MAX_ATTEMPTS
    MaxForks,       \* bound: reorganisations
    MaxFaults,      \* bound: failed provider or store calls, and restarts
    MaxGen,         \* bound: the generation of a row
    Overflow,       \* transactions that may exceed an interval's candidates per pool
    Seeding         \* transactions whose stored V4 events startup seeds

ASSUME QueueAssumption ==
    /\ Tx \subseteq Nat \ {0} /\ IsFiniteSet(Tx)
    /\ V4 \subseteq Pool /\ Real \subseteq Pool /\ Undecodable \subseteq Tx
    /\ Touch \in [Tx -> SUBSET Pool] /\ Lp \in [Tx -> SUBSET Pool]
    /\ \A t \in Tx : Lp[t] \subseteq Touch[t]
    /\ DecodeLimit \in Nat /\ MaxAttempts \in Nat
    /\ MaxForks \in Nat /\ MaxFaults \in Nat /\ MaxGen \in Nat
    /\ Overflow \subseteq Tx /\ Seeding \subseteq Tx

VARIABLES
    at,             \* the block each transaction is in, on the chain
    forks,          \* reorganisations so far
    held,           \* the stored block of each transaction, 0 when none
    events,         \* the pools of each transaction's stored events
    receipts,       \* transactions table: what receipt evidence covers, and
                    \* the verified pools it was decoded with
    replayed,       \* history: pools a replay verified for a transaction
    known,          \* verified rows of the pools table
    row,            \* pending_enrichment
    cached,         \* _pool_cache: pools verified in memory only
    checked,        \* _identity_checked: no network check needed
    clearing,       \* a recovery has rolled back but not yet cleared both
    job,            \* _enrichment_jobs, one entry per transaction
    coord,          \* where _enrich_once is, and what it has in hand
    replay,         \* the rows in hand of the identity replay pass
    verdict,        \* what the pass learned from the network
    seed,           \* the seeding's place, and the logs it has read
    faults          \* failed calls so far

storeVars == <<held, events, receipts, replayed, known, row>>
memoryVars == <<cached, checked, clearing>>
enrichVars == <<job, coord>>
replayVars == <<replay, verdict>>
vars == <<at, forks, storeVars, memoryVars, enrichVars, replayVars, seed, faults>>

Block == 1..(MaxForks + 1)

\* A row: its block, generation, attempts and last error; deferred holds the
\* logs of its pool-identity marker, with the block they were read from.
\* While there is a marker, error is the prior_error it remembers.
Row == [block : 0..(MaxForks + 1), gen : 0..MaxGen, attempts : 0..MaxGen,
        error : {"none", "error", "terminal"}, deferred : SUBSET (Pool \X Block)]

NoRow == [block |-> 0, gen |-> 0, attempts |-> 0, error |-> "none", deferred |-> {}]

NoReceipt == [block |-> 0, covers |-> {}, pools |-> {}]

NoJob == [block |-> 0, gen |-> 0, attempts |-> 0, out |-> "none", covers |-> {},
          pools |-> {}]

NoReplay == [stage |-> "none", block |-> 0, gen |-> 0, logs |-> {}, error |-> "none",
             net |-> {}, done |-> {}, found |-> {}, pools |-> {}, failed |-> FALSE]

NoVerdict == [transient |-> {}, anchor |-> FALSE, keys |-> {}]

Unseeded == [stage |-> "new", logs |-> {}]

Idle == [pc |-> "idle", failed |-> {}, ready |-> {}]

Pending(t) == row[t].block # 0

PoolsOf(logs) == { l[1] : l \in logs }

\* Pools an interval, a receipt or a replay can be decoded with.
Verified == known \cup cached

Init ==
    /\ at = [t \in Tx |-> 1] /\ forks = 0
    /\ held = [t \in Tx |-> 0]
    /\ events = [t \in Tx |-> {}]
    /\ receipts = [t \in Tx |-> NoReceipt]
    /\ replayed = [t \in Tx |-> {}]
    /\ known = {} /\ cached = {} /\ checked = {} /\ clearing = FALSE
    /\ row = [t \in Tx |-> NoRow]
    /\ job = [t \in Tx |-> NoJob] /\ coord = Idle
    /\ replay = [t \in Tx |-> NoReplay] /\ verdict = NoVerdict
    /\ seed = [t \in Tx |-> Unseeded]
    /\ faults = 0

-----------------------------------------------------------------------------
(* The chain, and what other lanes do.                                     *)

Reorg(p) ==
    /\ forks < MaxForks
    /\ forks' = forks + 1
    /\ at' = [t \in Tx |-> IF t >= p THEN forks + 2 ELSE at[t]]
    /\ UNCHANGED <<storeVars, memoryVars, enrichVars, replayVars, seed, faults>>

\* A creation log of the history lane or a resolution of the current lane.
LearnPool(p) ==
    /\ p \in Real \ known
    /\ known' = known \cup {p}
    /\ UNCHANGED <<at, forks, held, events, receipts, replayed, row, memoryVars,
                   enrichVars, replayVars, seed, faults>>

-----------------------------------------------------------------------------
(* Interval commits and rollbacks.                                         *)

\* _queue_enrichment: INSERT OR IGNORE of a new job.
Queued(r, b) == IF r.block # 0 THEN r ELSE [NoRow EXCEPT !.block = b]

\* _queue_deferred_pool_identities: the row carries a marker with the logs.
Deferred(r, logs) ==
    [Queued(r, (CHOOSE l \in logs : TRUE)[2]) EXCEPT !.deferred = @ \cup logs, !.gen = @ + 1]

Commit(t, unknown, decoded) ==
    IF unknown # {} THEN Deferred(row[t], unknown \X {at[t]})
    ELSE IF decoded \cap Lp[t] # {} THEN Queued(row[t], at[t])
    ELSE row[t]

\* One interval's transaction: deferred identities, then ingest.
IngestInterval(t) ==
    LET decoded == Touch[t] \cap (Verified \cup V4)
        unknown == Touch[t] \ Verified
    IN  \E deferred \in (IF t \in Overflow THEN SUBSET unknown ELSE {unknown}) :
            /\ held[t] = 0
            /\ \A s \in Tx : s < t /\ held[s] # 0 => held[s] = at[s]
            /\ row[t].gen < MaxGen
            /\ held' = [held EXCEPT ![t] = at[t]]
            /\ events' = [events EXCEPT ![t] = decoded]
            /\ known' = known \cup (decoded \cap cached)
            /\ row' = [row EXCEPT ![t] = Commit(t, deferred, decoded)]
            /\ UNCHANGED <<at, forks, receipts, replayed, memoryVars, enrichVars, replayVars,
                           seed, faults>>

Stale == { t \in Tx : held[t] # 0 /\ held[t] # at[t] }

KeptRows(p) == [t \in Tx |-> IF t >= p THEN NoRow ELSE row[t]]

\* Mutant: a rollback leaves the receipts of the transactions it removes.
Mutant_KeptReceipts(p) == receipts

KeptReceipts(p) == [t \in Tx |-> IF t >= p THEN NoReceipt ELSE receipts[t]]

\* store.rollback below position p, inside _recover_reorg.  It forgets pools
\* that were created or first observed above the ancestor.
Rollback(p) ==
    /\ ~clearing
    /\ held' = [t \in Tx |-> IF t >= p THEN 0 ELSE held[t]]
    /\ events' = [t \in Tx |-> IF t >= p THEN {} ELSE events[t]]
    /\ receipts' = KeptReceipts(p)
    /\ replayed' = [t \in Tx |-> IF t >= p THEN {} ELSE replayed[t]]
    /\ row' = KeptRows(p)
    /\ \E gone \in SUBSET (known \ UNION { events[t] : t \in { s \in Tx : s < p } }) :
           known' = known \ gone
    /\ clearing' = TRUE
    /\ UNCHANGED <<cached, checked>>

RecoverLive ==
    /\ Stale # {}
    /\ Rollback(Min(Stale))
    /\ UNCHANGED <<at, forks, enrichVars, replayVars, seed, faults>>

\* The end of _recover_reorg.
ClearCaches ==
    /\ clearing
    /\ clearing' = FALSE /\ cached' = {} /\ checked' = {}
    /\ UNCHANGED <<at, forks, storeVars, enrichVars, replayVars, seed, faults>>

-----------------------------------------------------------------------------
(* Receipt enrichment: _enrich_once and its fetch waves.  Decoded events   *)
(* carry the verified pools they were decoded with.                        *)

Mutant_EligibleOnce(t) == Pending(t) /\ row[t].error = "none" /\ row[t].deferred = {}

\* pending_enrichments: due, not dead-lettered and without a marker.
Eligible(t) == Pending(t) /\ row[t].error # "terminal" /\ row[t].deferred = {}

\* _fill_enrichment_jobs, at the start of a pass or while completed jobs wait
\* for the writer: jobs in flight and jobs in hand are not selected.
FillJobs(chosen) ==
    /\ coord.pc \in {"idle", "mark"}
    /\ chosen # {}
    /\ \A t \in chosen : Eligible(t) /\ job[t] = NoJob
    /\ job' = [t \in Tx |->
                  IF t \in chosen
                  THEN [NoJob EXCEPT !.block = row[t].block, !.gen = row[t].gen,
                                     !.attempts = row[t].attempts, !.out = "running"]
                  ELSE job[t]]
    /\ UNCHANGED <<at, forks, storeVars, memoryVars, coord, replayVars, seed, faults>>

\* What _enrich_transactions finds for a transaction: its receipt and header
\* name another block, or its logs decode to events of the verified pools.
Evidence(t) ==
    LET covers == Touch[t] \cap (Verified \cup V4)
    IN  IF at[t] # job[t].block THEN [out |-> "orphan", covers |-> {}]
        ELSE IF t \in Undecodable \/ covers = {} THEN [out |-> "decode", covers |-> {}]
        ELSE [out |-> "ok", covers |-> covers]

FetchEvidence(t) ==
    /\ job[t].out = "running"
    /\ job' = [job EXCEPT ![t].out = Evidence(t).out,
                          ![t].covers = Evidence(t).covers,
                          ![t].pools = Evidence(t).covers \cap Verified]
    /\ UNCHANGED <<at, forks, storeVars, memoryVars, coord, replayVars, seed, faults>>

FetchFails(t) ==
    /\ job[t].out = "running"
    /\ faults < MaxFaults
    /\ faults' = faults + 1
    /\ job' = [job EXCEPT ![t].out = "transient"]
    /\ UNCHANGED <<at, forks, storeVars, memoryVars, coord, replayVars, seed>>

Completed == { t \in Tx : job[t].out \in {"ok", "orphan", "decode", "transient"} }

Dropped(done) == [t \in Tx |-> IF t \in done THEN NoJob ELSE job[t]]

\* _recover_reorg with the block of a job as the supplied anchor: the common
\* ancestor is a parent of that block, or the highest canonical stored header.
RecoverAnchor(t) ==
    IF at[t] = job[t].block THEN UNCHANGED <<storeVars, memoryVars>>
    ELSE \/ Rollback(Min(Stale \cup {t}))
         \/ held[t] = at[t] /\ Rollback(t + 1)

\* A completed job saw another block: recovery first, and all completed jobs
\* are dropped with their rows still queued.
CollectOrphan(done) ==
    /\ coord.pc = "idle"
    /\ \E t \in done : job[t].out = "orphan" /\ RecoverAnchor(t)
    /\ job' = Dropped(done)
    /\ UNCHANGED <<at, forks, coord, replayVars, seed, faults>>

Collect(done) ==
    /\ coord.pc = "idle"
    /\ \A t \in done : job[t].out # "orphan"
    /\ coord' = [pc |-> "mark",
                 failed |-> { t \in done : job[t].out # "ok" },
                 ready |-> { t \in done : job[t].out = "ok" }]
    /\ UNCHANGED <<at, forks, storeVars, memoryVars, job, replayVars, seed, faults>>

Mutant_Current(t) ==
    /\ row[t].block = job[t].block
    /\ row[t].deferred = {}

\* _current_enrichment_jobs: the row is still the one this job was made for.
Current(t) ==
    /\ row[t].block = job[t].block
    /\ row[t].gen = job[t].gen
    /\ row[t].deferred = {}

\* _mark_enrichment_failure: another attempt, or the dead letter.
Failed(t, limit) ==
    [row[t] EXCEPT !.attempts = @ + 1, !.gen = @ + 1,
                   !.error = IF job[t].attempts + 1 >= limit THEN "terminal" ELSE "error"]

Limit(t) == IF job[t].out = "decode" THEN DecodeLimit ELSE MaxAttempts

MarkFailures ==
    /\ coord.pc = "mark"
    /\ \A t \in coord.failed : row[t].gen < MaxGen
    /\ row' = [t \in Tx |->
                  IF t \in coord.failed /\ Current(t) THEN Failed(t, Limit(t)) ELSE row[t]]
    /\ job' = Dropped(coord.failed)
    /\ coord' = IF coord.ready = {} THEN Idle
                ELSE [coord EXCEPT !.pc = "publish", !.failed = {}]
    /\ UNCHANGED <<at, forks, held, events, receipts, replayed, known, memoryVars,
                   replayVars, seed, faults>>

Publishable == { t \in coord.ready : Current(t) }

\* store.enrich raises CanonicalConflict: the stored header is another one.
Orphaned(t) == held[t] # job[t].block

\* store.enrich: events, transaction rows and the queue change together.
Publish ==
    /\ coord.pc = "publish"
    /\ \A t \in Publishable : ~Orphaned(t)
    /\ events' = [t \in Tx |->
                     IF t \in Publishable THEN events[t] \cup job[t].covers ELSE events[t]]
    /\ receipts' = [t \in Tx |->
                       IF t \in Publishable
                       THEN [block |-> job[t].block, covers |-> job[t].covers,
                             pools |-> job[t].pools]
                       ELSE receipts[t]]
    /\ known' = known \cup UNION { job[t].pools : t \in Publishable }
    /\ row' = [t \in Tx |-> IF t \in Publishable THEN NoRow ELSE row[t]]
    /\ job' = Dropped(coord.ready)
    /\ coord' = Idle
    /\ UNCHANGED <<at, forks, held, replayed, memoryVars, replayVars, seed, faults>>

\* After a conflict nothing is written and recovery runs.
PublishConflict ==
    /\ coord.pc = "publish"
    /\ \E t \in Publishable : Orphaned(t)
    /\ \E t \in Publishable : RecoverAnchor(t)
    /\ job' = Dropped(coord.ready)
    /\ coord' = Idle
    /\ UNCHANGED <<at, forks, replayVars, seed, faults>>

\* store.enrich failed otherwise: every job of the batch counts an attempt.
PublishFails ==
    /\ coord.pc = "publish"
    /\ faults < MaxFaults
    /\ faults' = faults + 1
    /\ \A t \in Publishable : row[t].gen < MaxGen
    /\ row' = [t \in Tx |->
                  IF t \in Publishable THEN Failed(t, MaxAttempts) ELSE row[t]]
    /\ job' = Dropped(coord.ready)
    /\ coord' = Idle
    /\ UNCHANGED <<at, forks, held, events, receipts, replayed, known, memoryVars,
                   replayVars, seed>>

-----------------------------------------------------------------------------
(* Identity replay: one pass of _resolve_deferred_pool_identities_once.    *)

\* The pass selects rows that carry a marker.
ReplaySelect(chosen) ==
    /\ chosen # {}
    /\ \A t \in Tx : replay[t] = NoReplay
    /\ \A t \in chosen : row[t].deferred # {}
    /\ replay' = [t \in Tx |->
                     IF t \in chosen
                     THEN [NoReplay EXCEPT !.stage = "read", !.block = row[t].block,
                              !.gen = row[t].gen, !.logs = row[t].deferred,
                              !.error = row[t].error]
                     ELSE NoReplay]
    /\ verdict' = NoVerdict
    /\ UNCHANGED <<at, forks, storeVars, memoryVars, enrichVars, seed, faults>>

\* The row still has the marker the pass read (WHERE last_error = marker).
SameMarker(t) ==
    /\ row[t].deferred = replay[t].logs
    /\ row[t].error = replay[t].error

\* _mark_pool_identity_replay_error: only the retry time and the marker's own
\* error change.
ReplayError(t) ==
    IF SameMarker(t) THEN [row[t] EXCEPT !.gen = @ + 1] ELSE row[t]

\* _finish_pool_identity_replay: identities left over keep the marker; else
\* the prior error comes back, a dead letter is re-armed, and a row that only
\* carried the marker goes.  stored are the transaction's events.
Finished(t, done, stored) ==
    LET left == { l \in replay[t].logs : l[1] \notin done }
    IN  IF ~SameMarker(t) THEN row[t]
        ELSE IF left # {} THEN [row[t] EXCEPT !.deferred = left, !.gen = @ + 1]
        ELSE IF stored \cap Lp[t] # {}
             THEN [row[t] EXCEPT !.deferred = {}, !.gen = @ + 1,
                                 !.error = IF @ = "terminal" THEN "none" ELSE @]
        ELSE NoRow

\* The stored header no longer names the row's block: the marker is dropped.
ReplayOrphaned(t) ==
    /\ replay[t].stage = "read"
    /\ held[t] # replay[t].block
    /\ row[t].gen < MaxGen
    /\ row' = [row EXCEPT ![t] = Finished(t, PoolsOf(replay[t].logs), events[t])]
    /\ replay' = [replay EXCEPT ![t] = NoReplay]
    /\ UNCHANGED <<at, forks, held, events, receipts, replayed, known, memoryVars, enrichVars,
                   verdict, seed, faults>>

\* A log of another block: the row is put back and retried later.
ReplayMismatch(t) ==
    /\ replay[t].stage = "read"
    /\ held[t] = replay[t].block
    /\ \E l \in replay[t].logs : l[2] # replay[t].block
    /\ row[t].gen < MaxGen
    /\ row' = [row EXCEPT ![t] = ReplayError(t)]
    /\ replay' = [replay EXCEPT ![t] = NoReplay]
    /\ UNCHANGED <<at, forks, held, events, receipts, replayed, known, memoryVars,
                   enrichVars, verdict, seed, faults>>

\* Identities neither verified nor checked before go to the network.
ReplayPrepare(t) ==
    /\ replay[t].stage = "read"
    /\ held[t] = replay[t].block
    /\ \A l \in replay[t].logs : l[2] = replay[t].block
    /\ replay' = [replay EXCEPT
                     ![t].stage = "prepared",
                     ![t].net = PoolsOf(replay[t].logs) \ (Verified \cup checked)]
    /\ UNCHANGED <<at, forks, storeVars, memoryVars, enrichVars, verdict, seed, faults>>

Prepared == { t \in Tx : replay[t].stage = "prepared" }

\* _resolve_unknown_pools: a contract is a pool when its factory says so.
FactoryMembers(ids) == (ids \cap Real) \ V4

\* _resolve_current_v4_pools and _resolve_current_v4_inputs: a V4 id is a pool
\* when a PoolKey with that hash is found on chain or in transaction inputs.
PoolKeys(ids) == ids \cap Real \cap V4

\* The network part: every identity is confirmed, rejected or fails for now;
\* a failed anchor check discards all of it.  V4 keys travel with the pass,
\* other verified pools go to the memory cache.
ReplayResolve ==
    LET wanted == UNION { replay[t].net : t \in Prepared }
    IN  /\ Prepared # {}
        /\ \A t \in Tx : replay[t].stage \in {"none", "prepared"}
        /\ \E transient \in SUBSET wanted, anchor \in BOOLEAN :
               LET faulty == transient # {} \/ anchor
                   answered == IF anchor THEN {} ELSE wanted \ transient
               IN  /\ anchor => wanted # {} /\ transient = {}
                   /\ faulty => faults < MaxFaults
                   /\ faults' = IF faulty THEN faults + 1 ELSE faults
                   /\ cached' = cached \cup FactoryMembers(answered)
                   /\ checked' = checked \cup (answered \ V4)
                   /\ verdict' = [transient |-> transient, anchor |-> anchor,
                                  keys |-> PoolKeys(answered)]
        /\ replay' = [t \in Tx |->
                         IF t \in Prepared THEN [replay[t] EXCEPT !.stage = "resolved"]
                         ELSE replay[t]]
        /\ UNCHANGED <<at, forks, storeVars, clearing, enrichVars, seed>>

Mutant_Processed(t) == PoolsOf(replay[t].logs)

\* Identities of a row that are settled: confirmed or rejected.
Processed(t) == PoolsOf(replay[t].logs) \ verdict.transient

\* Decoding, outside the writer: events of V4 pools and of verified ones.
ReplayDecode(t) ==
    LET failed == \/ verdict.anchor /\ replay[t].net # {}
                  \/ Processed(t) = {}
    IN  /\ replay[t].stage = "resolved"
        /\ replay' = [replay EXCEPT
                         ![t].stage = "decoded",
                         ![t].failed = failed,
                         ![t].done = IF failed THEN {} ELSE Processed(t),
                         ![t].found = IF failed THEN {}
                                      ELSE Processed(t) \cap (V4 \cup Verified),
                         ![t].pools = IF failed THEN {}
                                      ELSE Processed(t) \cap (Verified \cup verdict.keys)]
        /\ UNCHANGED <<at, forks, storeVars, memoryVars, enrichVars, verdict, seed, faults>>

\* The guards inside the publication's transaction.
Replayable(t) ==
    /\ Pending(t)
    /\ row[t].gen = replay[t].gen
    /\ SameMarker(t)
    /\ row[t].block = replay[t].block

\* One row's savepoint of the publication: ingest, then the marker's end.
ReplayPublish(t) ==
    /\ replay[t].stage = "decoded"
    /\ Replayable(t) /\ held[t] = replay[t].block /\ ~replay[t].failed
    /\ row[t].gen < MaxGen
    /\ events' = [events EXCEPT ![t] = @ \cup replay[t].found]
    /\ known' = known \cup replay[t].pools
    /\ replayed' = [replayed EXCEPT ![t] = @ \cup replay[t].pools]
    /\ row' = [row EXCEPT ![t] = Finished(t, replay[t].done, events'[t])]
    /\ replay' = [replay EXCEPT ![t] = NoReplay]
    /\ UNCHANGED <<at, forks, held, receipts, memoryVars, enrichVars, verdict,
                   seed, faults>>

\* The row failed, before publication or in its savepoint.
ReplayFails(t) ==
    /\ replay[t].stage = "decoded"
    /\ Replayable(t)
    /\ row[t].gen < MaxGen
    /\ \/ replay[t].failed /\ faults' = faults
       \/ held[t] # replay[t].block /\ faults' = faults
       \/ faults < MaxFaults /\ faults' = faults + 1
    /\ row' = [row EXCEPT ![t] = ReplayError(t)]
    /\ replay' = [replay EXCEPT ![t] = NoReplay]
    /\ UNCHANGED <<at, forks, held, events, receipts, replayed, known, memoryVars,
                   enrichVars, verdict, seed>>

\* The row is no longer the one the pass read.
ReplaySkip(t) ==
    /\ replay[t].stage = "decoded"
    /\ ~Replayable(t)
    /\ replay' = [replay EXCEPT ![t] = NoReplay]
    /\ UNCHANGED <<at, forks, storeVars, memoryVars, enrichVars, verdict, seed, faults>>

-----------------------------------------------------------------------------
(* Seeding at startup, and restarts.                                       *)

\* _seed_deferred_v4_pool_identities reads a stored liquidity event whose V4
\* pool is not verified and not in the row's marker.
SeedCandidates(t) ==
    (events[t] \cap Lp[t] \cap V4) \ (known \cup PoolsOf(row[t].deferred))

SeedRead(t) ==
    /\ t \in Seeding
    /\ seed[t].stage = "new"
    /\ SeedCandidates(t) # {}
    /\ seed' = [seed EXCEPT ![t] = [stage |-> "read",
                                   logs |-> SeedCandidates(t) \X {held[t]}]]
    /\ UNCHANGED <<at, forks, storeVars, memoryVars, enrichVars, replayVars, faults>>

\* Its transaction: the logs read before are queued, whatever happened since.
SeedQueue(t) ==
    LET logs == { l \in seed[t].logs : l[1] \notin Verified }
    IN  /\ seed[t].stage = "read"
        /\ row[t].gen < MaxGen
        /\ row' = [row EXCEPT ![t] = IF logs = {} THEN @ ELSE Deferred(@, logs)]
        /\ seed' = [seed EXCEPT ![t] = [stage |-> "done", logs |-> {}]]
        /\ UNCHANGED <<at, forks, held, events, receipts, replayed, known, memoryVars, enrichVars,
                       replayVars, faults>>

\* A restart keeps the tables and loses everything in memory.
Restart ==
    /\ faults < MaxFaults
    /\ faults' = faults + 1
    /\ cached' = {} /\ checked' = {} /\ clearing' = FALSE
    /\ job' = [t \in Tx |-> NoJob] /\ coord' = Idle
    /\ replay' = [t \in Tx |-> NoReplay] /\ verdict' = NoVerdict
    /\ seed' = [t \in Tx |-> Unseeded]
    /\ UNCHANGED <<at, forks, storeVars>>

-----------------------------------------------------------------------------
LaneStep ==
    \/ \E t \in Tx : IngestInterval(t)
    \/ RecoverLive
    \/ ClearCaches

EnrichStep ==
    \/ \E chosen \in SUBSET Tx : FillJobs(chosen)
    \/ \E t \in Tx : FetchEvidence(t)
    \/ \E done \in (SUBSET Completed) \ {{}} : CollectOrphan(done) \/ Collect(done)
    \/ MarkFailures
    \/ Publish
    \/ PublishConflict

ReplayStep ==
    \/ \E chosen \in SUBSET Tx : ReplaySelect(chosen)
    \/ \E t \in Tx : ReplayOrphaned(t) \/ ReplayMismatch(t) \/ ReplayPrepare(t)
    \/ ReplayResolve
    \/ \E t \in Tx : ReplayDecode(t) \/ ReplayPublish(t) \/ ReplayFails(t) \/ ReplaySkip(t)

SeedStep == \E t \in Tx : SeedRead(t) \/ SeedQueue(t)

Next ==
    \/ \E p \in Tx : Reorg(p)
    \/ \E p \in Pool : LearnPool(p)
    \/ LaneStep
    \/ EnrichStep
    \/ \E t \in Tx : FetchFails(t)
    \/ PublishFails
    \/ ReplayStep
    \/ SeedStep
    \/ Restart

Spec == Init /\ [][Next]_vars

\* Each worker thread keeps running, and the executors keep fetching.
FairSpec ==
    /\ Spec
    /\ WF_vars(LaneStep) /\ WF_vars(EnrichStep) /\ WF_vars(ReplayStep) /\ WF_vars(SeedStep)
    /\ \A t \in Tx : WF_vars(FetchEvidence(t))

-----------------------------------------------------------------------------
TypeOK ==
    /\ at \in [Tx -> Block] /\ forks \in 0..MaxForks
    /\ held \in [Tx -> 0..(MaxForks + 1)]
    /\ events \in [Tx -> SUBSET Pool]
    /\ receipts \in [Tx -> [block : 0..(MaxForks + 1), covers : SUBSET Pool,
                            pools : SUBSET Pool]]
    /\ replayed \in [Tx -> SUBSET Pool]
    /\ known \subseteq Pool /\ cached \subseteq Pool /\ checked \subseteq Pool
    /\ clearing \in BOOLEAN
    /\ row \in [Tx -> Row]
    /\ job \in [Tx -> {NoJob} \cup
                     [block : Block, gen : 0..MaxGen, attempts : 0..MaxGen,
                      covers : SUBSET Pool, pools : SUBSET Pool,
                      out : {"running", "ok", "orphan", "decode", "transient"}]]
    /\ coord \in [pc : {"idle", "mark", "publish"}, failed : SUBSET Tx, ready : SUBSET Tx]
    /\ faults \in 0..MaxFaults

\* docs/RPC_OPERATIONS.md: "an older in-flight receipt cannot erase newer
\* identity or retry work".  A stored liquidity event has a queued job or is
\* covered by receipt evidence of its block, and that evidence was decoded with
\* the pools that were verified for the transaction by then.
EvidenceOwed ==
    \A t \in Tx : ~Pending(t) /\ events[t] \cap Lp[t] # {} =>
        /\ receipts[t].block = held[t]
        /\ events[t] \cap Lp[t] \subseteq receipts[t].covers
        /\ replayed[t] \cap Lp[t] \subseteq receipts[t].pools

\* docs/RPC_OPERATIONS.md: "Transient failures retain their obligations;
\* canonical events and queue completion commit together."  A log of a real
\* pool in a stored transaction is stored as an event or still deferred, but
\* for the transactions an interval had no room to defer.
NoLogLost ==
    \A t \in Tx \ Overflow : held[t] # 0 =>
        Touch[t] \cap Real \subseteq events[t] \cup PoolsOf(row[t].deferred)

\* Receipt evidence is kept only for the block its transaction is stored in:
\* an answer that was fetched before a reorganisation is never applied after.
EvidenceOfStoredBlock ==
    \A t \in Tx : receipts[t].block \in {0, held[t]}

=============================================================================
