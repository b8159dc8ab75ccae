------------------------------ MODULE OwnerRollup ------------------------------
(***************************************************************************)
(* The owner rollup (lp_owner_rollup.py and the rollup half of AccountBook *)
(* in lp_market_accounting.py).  Triggers journal every change of the      *)
(* ledger's rows; a worker process keeps a private replica, copied page by *)
(* page on short snapshots while the ledger changes and then brought       *)
(* forward through the journal; the book publishes aggregates of it,       *)
(* acknowledges the journal and prunes what is acknowledged.               *)
(*                                                                         *)
(* The three replicated tables go through the same loop and are one table  *)
(* of episodes here, a page is one row.  Receipt costs are left out of the *)
(* aggregates, and an age is the recency tier it falls in.                 *)
(***************************************************************************)
EXTENDS Integers, FiniteSets, FiniteSetsExt, Absent

CONSTANTS
    Episodes,     \* row keys (the episode ids)
    Versions,     \* Versions[e]: the images row e may have: [owner, proto, pos, tier, open, gross]
    MaxSeq,       \* journal entries ever written
    MaxFaults     \* worker deadlines, failures and deaths, and process restarts

\* A ledger row: its rowid and its image.
RowType == [rid : Nat, image : UNION {Versions[e] : e \in Episodes}]

ASSUME RollupAssumption ==
    /\ NULL \notin Episodes /\ NULL \notin Int /\ NULL \notin RowType
    /\ MaxSeq \in Nat /\ MaxFaults \in Nat
    /\ IsFiniteSet(Episodes)
    /\ \A e \in Episodes : \A v \in Versions[e] : v.tier \in 0..2 /\ v.gross \in Int \cup {NULL}

VARIABLES
    src,          \* the ledger's rows: NULL or [rid, image]
    nextRid,
    head,         \* sqlite_sequence of the journal
    journal,      \* its rows: [seq, key, image], image NULL for a delete
    ack,          \* lp_accounting_meta 'owner_rollup_ack', NULL before the first
    past,         \* past[n]: the images when the journal stood at n
    ledgerEpoch,
    revision,     \* _owners_generation
    generation,   \* _rollup_generation
    liveReplica,         \* _rollup_replica_live
    stage,        \* what the submitted build does next; "idle" without a future
    asked,        \* the revision the build was requested for
    rep,          \* the worker's replica: NULL or [bound, cursor, through, rows]
    goal,         \* the snapshot a build brings its replica to: [seq, epoch]
    built,        \* the future's result
    pub,          \* the published rollup
    rollupFaults

ledgerVars == <<src, nextRid, head, journal, past, ledgerEpoch>>
rollupVars == <<ledgerVars, ack, revision, generation, liveReplica, stage, asked, rep, goal, built, pub,
                rollupFaults>>

LedgerImages == [e \in Episodes |-> IF src[e] = NULL THEN NULL ELSE src[e].image]
NoRows == [e \in Episodes |-> NULL]

----------------------------------------------------------------------------
(* Aggregation *)

Tiers == 0..2
Scopes == {"v3", "v4", ""}
InScope(r, scope) == scope = "" \/ r.proto = scope
LatestTier(S) == Min({r.tier : r \in S})

\* _sql_sum and SUM: NULL rows do not count, and no row at all is NULL.
NullableSum(value) ==
    LET known == {x \in DOMAIN value : value[x] # NULL}
    IN  IF known = {} THEN NULL ELSE FoldSet(LAMBDA x, n : n + value[x], 0, known)

NoActivity == [episodes |-> 0, missing |-> 0, gross |-> NULL, positions |-> 0, open |-> 0]

\* _owner_activity_snapshot: per owner, protocol and tier.  A position counts
\* once, in the tier of its latest episode, and as open in the tier of its
\* latest open episode unless a newer event of it is still queued.
Partial(rows, stale, owner, scope, tier) ==
    LET mine == {e \in Episodes : rows[e] # NULL /\ rows[e].owner = owner /\ InScope(rows[e], scope)}
        here == {e \in mine : rows[e].tier = tier}
        of(p) == {rows[e] : e \in {x \in mine : rows[x].pos = p}}
        openOf(p) == {r \in of(p) : r.open /\ p \notin stale}
        all == {rows[e].pos : e \in mine}
    IN  [episodes |-> Cardinality(here),
         missing |-> Cardinality({e \in here : rows[e].gross = NULL}),
         gross |-> NullableSum([e \in here |-> rows[e].gross]),
         positions |-> Cardinality({p \in all : LatestTier(of(p)) = tier}),
         open |-> Cardinality({p \in all : openOf(p) # {} /\ LatestTier(openOf(p)) = tier})]

OwnersOf(rows) == {rows[e].owner : e \in {x \in Episodes : rows[x] # NULL}} \ {NULL}

Partials(rows, stale) ==
    [group \in OwnersOf(rows) \X Scopes \X Tiers |->
        Partial(rows, stale, group[1], group[2], group[3])]

\* _merge_activity
MergeActivity(a, b) ==
    [episodes |-> a.episodes + b.episodes, missing |-> a.missing + b.missing,
     gross |-> IF a.gross = NULL THEN b.gross ELSE IF b.gross = NULL THEN a.gross
               ELSE a.gross + b.gross,
     positions |-> a.positions + b.positions, open |-> a.open + b.open]

\* _rollup_view: a window is the sum of the tiers it contains, and a profit is
\* shown only when every episode of the window has one.
RollupView(partials, owner, scope, depth) ==
    LET sum == FoldSet(LAMBDA t, total : MergeActivity(total, partials[<<owner, scope, t>>]), NoActivity, 0..depth)
    IN  [positions |-> sum.positions, open |-> sum.open, episodes |-> sum.episodes,
         profit |-> IF sum.missing = 0 THEN sum.gross ELSE NULL]

----------------------------------------------------------------------------
(* The ledger and its triggers *)

\* Appends to the journal, in the transaction of the change.
Journalled(entries) ==
    LET n == Cardinality(DOMAIN entries)
    IN  /\ head + n <= MaxSeq
        /\ head' = head + n
        /\ journal' = journal \cup
             {[seq |-> head + i, key |-> entries[i].key, image |-> entries[i].image]
                : i \in DOMAIN entries}
        /\ past' = [past EXCEPT ![head + n] = LedgerImages']
        /\ revision' = revision + 1    \* _invalidate_cache
        /\ UNCHANGED <<ack, generation, liveReplica, stage, asked, rep, goal, built, pub, rollupFaults>>

\* INSERT OR REPLACE: with recursive triggers a replaced row logs its deletion
\* too, and the new row takes a rowid past every other one.
InsertRow(e, v) ==
    /\ src' = [src EXCEPT ![e] = [rid |-> nextRid, image |-> v]]
    /\ nextRid' = nextRid + 1
    /\ Journalled(IF src[e] = NULL THEN <<[key |-> e, image |-> v]>>
                  ELSE <<[key |-> e, image |-> NULL], [key |-> e, image |-> v]>>)
    /\ UNCHANGED ledgerEpoch

UpdateRow(e, v) ==
    /\ src[e] # NULL /\ src[e].image # v
    /\ src' = [src EXCEPT ![e].image = v]
    /\ Journalled(<<[key |-> e, image |-> v]>>)
    /\ UNCHANGED <<nextRid, ledgerEpoch>>

\* A rollback deletes the rows of a position under the next epoch.
DeleteRow(e) ==
    /\ src[e] # NULL
    /\ src' = [src EXCEPT ![e] = NULL]
    /\ ledgerEpoch' = ledgerEpoch + 1
    /\ Journalled(<<[key |-> e, image |-> NULL]>>)
    /\ UNCHANGED nextRid

\* prune_journal, which every pass of the projector also calls.
Unacknowledged(j, a) == IF a = NULL THEN j ELSE {r \in j : r.seq > a}
PruneJournal ==
    /\ journal' = Unacknowledged(journal, ack)
    /\ journal' # journal
    /\ UNCHANGED <<src, nextRid, head, past, ledgerEpoch, ack, revision, generation, liveReplica, stage,
                   asked, rep, goal, built, pub, rollupFaults>>

----------------------------------------------------------------------------
(* The worker: RollupReplica.synchronize, a snapshot per step *)

WorkerStep == UNCHANGED <<ledgerVars, ack, revision, generation, liveReplica, asked, pub, rollupFaults>>

\* The replica's first snapshot fixes where the journal starts and what to copy.
BeginReplica ==
    /\ stage = "begin"
    /\ rep' = IF rep # NULL THEN rep
              ELSE [bound |-> nextRid - 1, cursor |-> 0, through |-> head, rows |-> NoRows]
    /\ stage' = "copy"
    /\ UNCHANGED <<goal, built>> /\ WorkerStep

CopyReplicaPage ==
    /\ stage = "copy"
    /\ LET left == {e \in Episodes : src[e] # NULL /\ src[e].rid > rep.cursor /\ src[e].rid <= rep.bound}
           e == CHOOSE x \in left : \A y \in left : src[x].rid <= src[y].rid
       IN  IF left = {} THEN stage' = "target" /\ rep' = [rep EXCEPT !.cursor = rep.bound]
           ELSE /\ rep' = [rep EXCEPT !.rows[e] = src[e].image, !.cursor = src[e].rid]
                /\ UNCHANGED stage
    /\ UNCHANGED <<goal, built>> /\ WorkerStep

TargetSnapshot ==
    /\ stage = "target"
    /\ goal' = [seq |-> head, epoch |-> ledgerEpoch]
    /\ stage' = IF head < rep.through THEN "behind" ELSE "apply"
    /\ UNCHANGED <<rep, built>> /\ WorkerStep

ApplyJournalPage ==
    /\ stage = "apply"
    /\ LET due == {r \in journal : r.seq > rep.through /\ r.seq <= goal.seq}
           r == CHOOSE x \in due : \A y \in due : x.seq <= y.seq
       IN  IF rep.through >= goal.seq THEN stage' = "aggregate" /\ UNCHANGED rep
           ELSE IF due = {} THEN stage' = "pruned" /\ UNCHANGED rep
           ELSE rep' = [rep EXCEPT !.rows[r.key] = r.image, !.through = r.seq] /\ UNCHANGED stage
    /\ UNCHANGED <<goal, built>> /\ WorkerStep

\* The positions queued again are read on a snapshot of their own.
AggregateReplica(stale) ==
    /\ stage = "aggregate"
    /\ built' = [partials |-> Partials(rep.rows, stale), epoch |-> goal.epoch,
                 through |-> rep.through, stale |-> stale]
    /\ stage' = "built"
    /\ UNCHANGED <<rep, goal>> /\ WorkerStep

\* A deadline keeps the replica where it stands, any other failure discards it.
WorkerFails(deadline) ==
    /\ stage \in {"begin", "copy", "target", "apply", "aggregate"}
    /\ rollupFaults < MaxFaults /\ rollupFaults' = rollupFaults + 1
    /\ stage' = IF deadline THEN "deadline" ELSE "failed"
    /\ rep' = IF deadline THEN rep ELSE NULL
    /\ UNCHANGED <<ledgerVars, ack, revision, generation, liveReplica, asked, goal, built, pub>>

----------------------------------------------------------------------------
(* The book: _advance_rollup *)

\* Mutant: the journal is released up to its head, replica or not.
Mutant_SubmitBuild ==
    /\ stage = "idle" /\ revision # generation
    /\ ack' = IF ack = NULL THEN head ELSE Max({ack, head})
    /\ stage' = "begin"
    /\ asked' = revision
    /\ UNCHANGED <<ledgerVars, revision, generation, liveReplica, rep, goal, built, pub, rollupFaults>>

\* Without a replica nothing reads the journal up to its head any more.
ReleasedAck == IF ack = NULL THEN head ELSE Max({ack, head})

SubmitBuild ==
    /\ stage = "idle" /\ revision # generation
    /\ ack' = IF liveReplica THEN ack ELSE ReleasedAck
    /\ stage' = "begin"
    /\ asked' = revision
    /\ UNCHANGED <<ledgerVars, revision, generation, liveReplica, rep, goal, built, pub, rollupFaults>>

\* The future's exception: only a deadline means the worker kept its replica.
CollectFailure ==
    /\ stage \in {"deadline", "failed", "behind", "pruned"}
    /\ liveReplica' = (stage = "deadline")
    /\ rep' = IF stage = "deadline" THEN rep ELSE NULL
    /\ stage' = "idle"
    /\ UNCHANGED <<ledgerVars, ack, revision, generation, asked, goal, built, pub, rollupFaults>>

\* _publish_owner_activity: refused in another epoch.
PublishRollup ==
    /\ stage = "built"
    /\ liveReplica' = TRUE
    /\ stage' = "idle" /\ built' = NULL
    /\ IF built.epoch # ledgerEpoch
       THEN UNCHANGED <<journal, ack, revision, generation, pub>>
       ELSE /\ pub' = built
            /\ ack' = built.through
            /\ journal' = Unacknowledged(journal, ack')
            /\ revision' = revision + 1
            /\ generation' = IF asked = revision THEN revision' ELSE -1
    /\ UNCHANGED <<src, nextRid, head, past, ledgerEpoch, asked, rep, goal, rollupFaults>>

\* A worker process dies (BrokenProcessPool), or the whole service restarts.
WorkerDies ==
    /\ rollupFaults < MaxFaults /\ rollupFaults' = rollupFaults + 1
    /\ stage' = "idle" /\ liveReplica' = FALSE /\ rep' = NULL /\ built' = NULL
    /\ generation' \in {generation, -1}
    /\ UNCHANGED <<ledgerVars, ack, revision, asked, goal, pub>>

RollupInit ==
    /\ src = [e \in Episodes |-> NULL] /\ nextRid = 1 /\ head = 0 /\ journal = {} /\ ack = NULL
    /\ past = [n \in 0..MaxSeq |-> NoRows] /\ ledgerEpoch = 0
    /\ revision = 0 /\ generation = -1 /\ liveReplica = FALSE
    /\ stage = "idle" /\ asked = 0 /\ rep = NULL /\ goal = NULL /\ built = NULL /\ pub = NULL
    /\ rollupFaults = 0

RollupNext ==
    \/ \E e \in Episodes : \E v \in Versions[e] : InsertRow(e, v) \/ UpdateRow(e, v)
    \/ \E e \in Episodes : DeleteRow(e)
    \/ PruneJournal
    \/ BeginReplica \/ CopyReplicaPage \/ TargetSnapshot \/ ApplyJournalPage
    \/ \E stale \in SUBSET {v.pos : v \in UNION {Versions[e] : e \in Episodes}} : AggregateReplica(stale)
    \/ \E deadline \in BOOLEAN : WorkerFails(deadline)
    \/ SubmitBuild \/ CollectFailure \/ PublishRollup \/ WorkerDies

RollupSpec == RollupInit /\ [][RollupNext]_rollupVars

----------------------------------------------------------------------------
\* What a window shows when it is computed from the episodes themselves.
DirectView(rows, stale, owner, scope, depth) ==
    LET in == {e \in Episodes : /\ rows[e] # NULL /\ rows[e].owner = owner
                                /\ InScope(rows[e], scope) /\ rows[e].tier <= depth}
    IN  [positions |-> Cardinality({rows[e].pos : e \in in}),
         open |-> Cardinality({rows[e].pos : e \in {x \in in : rows[x].open /\ rows[x].pos \notin stale}}),
         episodes |-> Cardinality(in),
         profit |-> IF \E e \in in : rows[e].gross = NULL THEN NULL
                    ELSE NullableSum([e \in in |-> rows[e].gross])]

\* No build finds its part of the journal pruned away, or its replica ahead.
JournalKept == stage \notin {"pruned", "behind"}

\* What is published is the ledger as it stood at one point of the journal.
PublishedPast == pub # NULL => pub.partials = Partials(past[pub.through], pub.stale)

\* Every window of what is published is the aggregate of its episodes.
ViewsExact ==
    pub # NULL =>
        \A o \in OwnersOf(past[pub.through]), scope \in Scopes, depth \in Tiers :
            RollupView(pub.partials, o, scope, depth) = DirectView(past[pub.through], pub.stale, o, scope, depth)

\* Although the replica is copied from many snapshots of a changing ledger and
\* resumed after deadlines, what is published is the ledger as it stood at one
\* point of the journal, every window of it is the aggregate of the episodes of
\* that window, and no build finds its part of the journal pruned away.
RollupExact == JournalKept /\ PublishedPast /\ ViewsExact
=============================================================================
