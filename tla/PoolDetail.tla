------------------------------ MODULE PoolDetail ------------------------------
(***************************************************************************)
(* The detail of one selected pool (workbench_market.py): a live thread    *)
(* seeds it from a block-pinned read and follows the head, a maintenance   *)
(* thread loads recent and older events through a lane of its own, and the *)
(* index hands over the blocks and events it observes.  Each published     *)
(* snapshot says how far its depth curve and its events are verified.      *)
(*                                                                         *)
(* The live thread holds the selection's lock for a whole poll; the        *)
(* maintenance thread takes it to begin and to finish a phase and reads    *)
(* without it in between.  The chain moves between any two requests.       *)
(*                                                                         *)
(* Data: a block may hold one swap and one change of the curve's shape, by *)
(* one participant.  A word of the curve is the hash of the block it was   *)
(* read at.                                                                *)
(***************************************************************************)
EXTENDS Chain, FiniteSets, FiniteSetsExt, Absent

CONSTANTS
    PoolKinds,      \* the protocols of the selected pool
    SwapBlocks,     \* the <<fork, number>> of the blocks with a swap in the pool
    ShapeBlocks,    \* the <<fork, number>> of the blocks that change its curve
    CatchUp,        \* MAX_CATCHUP_BLOCKS
    SeedDistance,   \* MAX_SWAP_LOOKBACK_BLOCKS
    ScanChunk,      \* PARTICIPANT_SCAN_CHUNK
    KeptBlocks,     \* CURRENT_BLOCK_CACHE
    HeadLag,        \* bound: blocks a provider's latest header lags behind
    Failing         \* whether requests may fail

ASSUME DetailAssumption ==
    /\ PoolKinds \subseteq {"v2", "v3", "v4"}
    /\ SwapBlocks \subseteq (0..MaxForks) \X (1..MaxHeight)
    /\ ShapeBlocks \subseteq (0..MaxForks) \X (1..MaxHeight)
    /\ {CatchUp, SeedDistance, ScanChunk, KeptBlocks} \subseteq Nat \ {0}
    /\ HeadLag \in Nat /\ Failing \in BOOLEAN
    /\ NULL \notin Int /\ NULL \notin Hashes

VARIABLES
    kind,       \* the protocol of the selected pool
    feed,       \* _current_blocks: [blocks, carried (events)]
    view,       \* the selection
    poll,       \* the live thread before its confirmation: [pc, mode, head, loaded]
    errand,     \* the maintenance thread: [pc, at, from, to, mark, logs, same]
    torn        \* a loaded curve lost its confirmation to a failed request

detailVars == <<kind, feed, view, poll, errand, torn>>
envVars == <<chain, forks, kind, feed>>

----------------------------------------------------------------------------
(* What the chain holds for the pool *)

HasSwap(h) == h # <<>> /\ <<Last(h), Len(h)>> \in SwapBlocks
HasShape(h) == h # <<>> /\ <<Last(h), Len(h)>> \in ShapeBlocks
Branch(h, from, to) == {Ancestor(h, n) : n \in {k \in from..to : k <= Len(h)}}
Swaps(h, from, to) == {b \in Branch(h, from, to) : HasSwap(b)}
Shapes(h, from, to) == {b \in Branch(h, from, to) : HasShape(b)}
Numbers(blocks) == {Len(b) : b \in blocks}

\* _viewport_words: the words around the price, which every swap moves.
Viewport(h) == IF Cardinality(Swaps(h, 1, Len(h))) % 2 = 0 THEN {0, 1} ELSE {1, 2}
\* _seed_selection: of the words around the price only the nearest are read first
\* (a word stands for several).
FirstPaint == {1}

Concentrated == kind \in {"v3", "v4"}
Or(n, m) == IF n = NULL THEN m ELSE n

----------------------------------------------------------------------------
(* What the index observes *)

TopBlock == IF feed.blocks = {} THEN NULL ELSE CHOOSE b \in feed.blocks : Len(b) = Max(Numbers(feed.blocks))

Continues(h) == Len(h) = Len(TopBlock) + 1 /\ HashParent(h) = TopBlock

\* observe_current_block: a gap, a replaced block or another parent starts a new
\* epoch; the one the selection last synchronised with is then over.
ObserveBlock(h) ==
    /\ h \notin feed.blocks
    /\ TopBlock # NULL => Len(h) >= Len(TopBlock)
    /\ LET on == TopBlock = NULL \/ Continues(h)
           kept == IF on THEN feed.blocks ELSE {}
           blocks == {b \in kept : Len(b) > Len(h) - KeptBlocks} \cup {h}
       IN /\ feed' = [blocks |-> blocks, carried |-> feed.carried \cap blocks]
          /\ view' = IF on THEN view ELSE [view EXCEPT !.fed = IF @ = "same" THEN "broken" ELSE @]
    /\ UNCHANGED <<chain, forks, kind, poll, errand, torn>>

\* observe_current_events: the pool's rows of a retained block.
ObserveEvents(h) ==
    /\ h \in feed.blocks \ feed.carried /\ (HasSwap(h) \/ HasShape(h))
    /\ feed' = [feed EXCEPT !.carried = @ \cup {h}]
    /\ UNCHANGED <<chain, forks, kind, view, poll, errand, torn>>

----------------------------------------------------------------------------
(* The selection *)

FreshView ==
    [needsSeed |-> TRUE, cursor |-> NULL, net |-> <<>>, state |-> NULL, verified |-> NULL,
     dirty |-> NULL, fed |-> "never", swaps |-> {}, lp |-> {}, start |-> NULL, through |-> NULL,
     pending |-> FALSE, base |-> 0, floor |-> 0, frontier |-> NULL,
     complete |-> FALSE, ranges |-> NULL]

RestingPoll == [pc |-> "rest", mode |-> NULL, head |-> NULL, loaded |-> FALSE]
RestingJob == [pc |-> "rest", at |-> NULL, from |-> NULL, to |-> NULL, mark |-> NULL,
               logs |-> {}, same |-> FALSE]

\* The newest shape changes first found above the curve's block.
Earliest(dirty, blocks) ==
    IF blocks = {} THEN dirty
    ELSE LET first == Min(blocks) IN IF dirty = NULL THEN first ELSE Min({first, dirty})

\* The participants a V3 pool's lifecycle events name, at their last block.
Remembered(v, shapes) ==
    IF kind # "v3" \/ shapes = {} THEN v
    ELSE [v EXCEPT !.ranges = Max(Numbers(shapes) \cup (IF @ = NULL THEN {} ELSE {@}))]

\* Swaps and lifecycle events already there are not added again.
WithSwaps(v, logs) == [v EXCEPT !.swaps = @ \cup {b \in logs : HasSwap(b)}]
WithLp(v, events) == [v EXCEPT !.lp = @ \cup events]
\* Lifecycle events, from logs and from the index's rows.
LpEvents(logs) == {b \in logs : HasShape(b)}
CurrentLp(blocks) == {b \in blocks : HasShape(b)}
\* The changes above the block the curve was read at.
Above(v, shapes) == {n \in Numbers(shapes) : v.state # NULL => n > Len(v.state)}

\* _apply_current_events: the same row applied again changes nothing.
WithEvents(v, blocks) ==
    LET lp == CurrentLp(blocks)
        dirty == [v EXCEPT !.dirty = Earliest(@, Above(v, lp))]
    IN Remembered(WithLp(WithSwaps(dirty, blocks), lp), lp)

\* _sync_current_events, unless the epoch it last saw is over.
Synced(v, through) ==
    LET on == WithEvents(v, {b \in feed.carried : Len(b) <= through})
    IN [on EXCEPT !.fed = "same",
                  !.verified = IF on.state # NULL /\ on.dirty # NULL
                               THEN Min({Or(@, Len(on.state)), on.dirty - 1})
                               ELSE @]

\* _snapshot calls the curve complete through the cursor.
CurveComplete(v) ==
    /\ DOMAIN v.net # {} /\ v.dirty = NULL
    /\ v.verified # NULL /\ v.verified >= Len(v.cursor)

\* ReorgDetected: the accounting is invalidated and the next poll seeds.
Invalidated(v) == [v EXCEPT !.needsSeed = TRUE]
ReorgDetected(v) ==
    /\ view' = Invalidated(v)
    /\ poll' = RestingPoll
    /\ UNCHANGED <<errand, torn>>

\* _publish_detail: the selection is shown as it now stands.
Publish(v) ==
    /\ view' = v
    /\ poll' = RestingPoll
    /\ UNCHANGED <<errand, torn>>

----------------------------------------------------------------------------
(* The live thread: one poll of the selection *)

\* _head_header: the latest block of a provider, or a head read before.
PollHeads == ({At(n) : n \in Max({1, Len(chain) - HeadLag})..Len(chain)} \cup {TopBlock, view.cursor}) \ {NULL}

\* A poll of a selection at rest finds head h.
Polls(h) == poll.pc = "rest" /\ h \in PollHeads
\* _read_core: the pool's price and liquidity at block h, not yet confirmed.
CoreRead(mode, h) == [pc |-> "confirm", mode |-> mode, head |-> h, loaded |-> FALSE]

\* Mutant: words read before an unincorporated change are kept.
Mutant_Reusable(v, n) == v.verified # NULL

\* _load_curve_state: words known to be unchanged up to the block are reused.
Reusable(v, n) ==
    \/ v.state # NULL /\ Len(v.state) = n
    \/ v.dirty = NULL /\ v.verified # NULL /\ v.verified >= n
LoadedCurve(v, words, n) ==
    LET reused == IF Reusable(v, n) THEN DOMAIN v.net \cap words ELSE {}
    IN [w \in words |-> IF w \in reused THEN v.net[w] ELSE At(n)]

Loads(mode, h, v, words) ==
    /\ view' = [v EXCEPT !.net = LoadedCurve(v, words, Len(h))]
    /\ torn' = (torn /\ \E w \in words : view'.net[w] # At(Len(h)))
    /\ poll' = [CoreRead(mode, h) EXCEPT !.loaded = TRUE]

\* _seed_selection up to its confirmation: everything but the cursor starts afresh.
Cleared == [FreshView EXCEPT !.cursor = view.cursor]
SeedRead(h) ==
    /\ Polls(h) /\ view.needsSeed /\ Len(h) <= Len(chain)
    /\ IF Concentrated THEN Loads("seed", h, Cleared, FirstPaint)
       ELSE view' = Cleared /\ torn' = FALSE /\ poll' = CoreRead("seed", h)
    /\ errand' = [errand EXCEPT !.same = FALSE]
    /\ UNCHANGED envVars

\* The curve is read where the viewport moved or its shape changed.
NeedsCurve(v, h, n) ==
    Concentrated /\ (Viewport(h) # DOMAIN v.net \/ (v.dirty # NULL /\ v.dirty <= n))

\* _advance_selection up to its confirmation: the cursor's block must still be
\* canonical; then the pool at the head, the observed events and the curve.
AdvanceRead(h) ==
    /\ Polls(h) /\ ~view.needsSeed
    /\ Len(h) \in Len(view.cursor) + 1 .. Min({Len(chain), Len(view.cursor) + CatchUp})
    /\ IF ~Canonical(view.cursor) \/ view.fed = "broken" THEN ReorgDetected(view)
       ELSE LET v == Synced(view, Len(h)) IN
            IF NeedsCurve(v, At(Len(h)), Len(h))
            THEN Loads("advance", h, v, Viewport(At(Len(h)))) /\ UNCHANGED errand
            ELSE view' = v /\ poll' = CoreRead("advance", h) /\ UNCHANGED <<errand, torn>>
    /\ UNCHANGED envVars

\* The head has not moved: publish what changed since.
Revisit ==
    /\ Polls(view.cursor) /\ ~view.needsSeed
    /\ IF view.fed = "broken" THEN ReorgDetected(view)
       ELSE LET v == Synced(view, Len(view.cursor)) IN
            IF NeedsCurve(v, view.cursor, Len(view.cursor))
            THEN /\ Len(view.cursor) <= Len(chain)
                 /\ Loads("same", view.cursor, v, Viewport(view.cursor)) /\ UNCHANGED errand
            ELSE v # view /\ Publish(v)
    /\ UNCHANGED envVars

\* The head fell back, was replaced, or is too far ahead.
HeadBroken(h) ==
    /\ Polls(h) /\ ~view.needsSeed /\ h # view.cursor
    /\ Len(h) \notin Len(view.cursor) + 1 .. Len(view.cursor) + CatchUp
    /\ ReorgDetected(view)
    /\ UNCHANGED envVars

\* A poll of a hidden view stops before it loads the curve.
Superseded(h) ==
    /\ Polls(h) /\ Concentrated
    /\ \/ view.needsSeed /\ view' = Cleared /\ errand' = [errand EXCEPT !.same = FALSE]
       \/ /\ ~view.needsSeed /\ view.fed # "broken" /\ Len(h) \in Len(view.cursor)..Len(view.cursor) + CatchUp
          /\ NeedsCurve(Synced(view, Len(h)), h, Len(h))
          /\ view' = Synced(view, Len(h)) /\ UNCHANGED errand
    /\ UNCHANGED <<envVars, poll, torn>>

WithCurve(v) == [v EXCEPT !.state = v.cursor, !.verified = Len(v.cursor), !.dirty = NULL]
SeededAt(h) ==
    LET v == [view EXCEPT !.needsSeed = FALSE, !.cursor = h, !.floor = Len(h) + 1,
                          !.base = Len(h) + 1, !.frontier = NULL, !.complete = FALSE,
                          !.pending = TRUE]
    IN Synced(WithCurve(v), Len(h))
Advanced(h) ==
    LET v == [view EXCEPT !.cursor = h, !.pending = @ \/ poll.mode = "advance"]
    IN IF poll.loaded \/ (kind = "v2" /\ poll.mode = "advance") THEN WithCurve(v) ELSE v

\* _confirm_header, then everything read is adopted and published at once.
Confirm ==
    /\ poll.pc = "confirm"
    /\ IF ~Canonical(poll.head) THEN ReorgDetected(view)
       ELSE Publish(IF poll.mode = "seed" THEN SeededAt(poll.head) ELSE Advanced(poll.head))
    /\ UNCHANGED envVars

\* _poll_selection: a failed request leaves the selection as it stands; any
\* other error makes the next poll seed.
PollFails(transport) ==
    /\ poll.pc = "confirm" /\ Failing
    /\ view' = IF transport THEN view ELSE Invalidated(view)
    /\ poll' = RestingPoll
    /\ torn' = (torn \/ poll.loaded)
    /\ UNCHANGED <<envVars, errand>>

----------------------------------------------------------------------------
(* The maintenance thread *)

Unlocked == poll.pc = "rest"
Following == ~view.needsSeed /\ view.cursor # NULL

\* A header the reader no longer finds fails the errand; another hash is a reorganisation.
Orphaned(h) == Len(h) <= Len(chain) /\ ~Canonical(h)

\* _load_recent_history: from where the last scan ended, or a first window.
RecentStart == IF view.through # NULL THEN view.through + 1
               ELSE Max({0, Len(view.cursor) - SeedDistance})
RecentRead ==
    /\ errand.pc = "rest" /\ Unlocked /\ Following /\ view.pending /\ RecentStart <= Len(chain)
    /\ errand' = [pc |-> "recent", at |-> view.cursor, from |-> RecentStart,
               to |-> Len(view.cursor), mark |-> At(RecentStart), same |-> TRUE,
               logs |-> Swaps(chain, RecentStart, Len(view.cursor))
                        \cup Shapes(chain, RecentStart, Len(view.cursor))]
    /\ UNCHANGED <<envVars, view, poll, torn>>

\* Mutant: a selection seeded again meanwhile still takes the result.
Mutant_Stands == ~view.needsSeed
\* The selection is still the one the errand began with.
Stands == errand.same /\ ~view.needsSeed

\* The scan continues what is verified of the curve.
Joins(v, from) == v.state # NULL /\ from <= Or(v.verified, Len(v.state)) + 1

Verified(v, from, to, shapes) ==
    LET above == Above(v, shapes)
        base == IF v.state = NULL THEN -1 ELSE Len(v.state)
    IN IF above # {}
       THEN [v EXCEPT !.dirty = Earliest(@, above),
                      !.verified = Min({Or(@, base), Min(above) - 1})]
       ELSE IF Joins(v, from) THEN [v EXCEPT !.verified = Max({to, Or(@, base)})]
       ELSE v

\* Exact logs of an interval, and how far the swaps are covered.
Covered(v, from, to, logs) ==
    LET first == v.start = NULL \/ from < v.start
    IN [WithSwaps(v, logs) EXCEPT !.start = IF first THEN from ELSE @,
                                  !.through = IF @ = NULL THEN to ELSE Max({@, to})]

\* Lifecycle events and their floor, which only a V3 pool has.
Historic(v, from, mark, logs) ==
    IF kind # "v3" THEN [v EXCEPT !.floor = 0, !.frontier = NULL, !.complete = TRUE]
    ELSE LET lp == LpEvents(logs)
             w == Remembered([WithLp(v, lp) EXCEPT !.complete = @ \/ from = 0], lp)
         IN IF v.floor <= 0 \/ from < v.floor THEN [w EXCEPT !.floor = from, !.frontier = mark]
            ELSE w

\* The logs must lie on canonical blocks and the interval's ends be unchanged.
RecentCommit ==
    /\ errand.pc = "recent" /\ Unlocked
    /\ LET read == errand.logs \cup IF Stands THEN {errand.mark, errand.at} ELSE {}
           shapes == LpEvents(errand.logs)
           v == Covered(view, errand.from, errand.to, errand.logs)
           w == Historic(Verified(v, errand.from, errand.to, shapes), errand.from, errand.mark, errand.logs)
       IN view' = IF \E b \in read : Orphaned(b) THEN Invalidated(view)
                  ELSE IF ~Stands \/ Len(view.cursor) < errand.to \/ \E b \in read : ~Canonical(b) THEN view
                  ELSE [w EXCEPT !.pending = Len(view.cursor) > errand.to]
    /\ errand' = RestingJob
    /\ UNCHANGED <<envVars, poll, torn>>

\* _refresh_selected_participants comes before the older events.  Of a pool with
\* participants it reads the tick of the tracked points, which have none: the
\* round ends with that error, unless a poll holds the lock and it is passed over.
Participates == kind = "v3" /\ Following /\ view.ranges # NULL
RefreshSkipped ==
    /\ errand.pc = "rest" /\ poll.pc = "confirm" /\ Participates
    /\ errand' = [RestingJob EXCEPT !.pc = "older"]
    /\ UNCHANGED <<envVars, view, poll, torn>>

\* _scan_older_positions: one chunk of lifecycle events below the floor, read
\* while the cursor's and the floor's blocks are canonical.
Scans == Unlocked /\ kind = "v3" /\ Following /\ ~view.complete
Chunk == [pc |-> "olderRead", at |-> view.cursor, from |-> Max({0, view.floor - ScanChunk}),
          to |-> view.floor - 1, mark |-> At(Max({0, view.floor - ScanChunk})), same |-> TRUE,
          logs |-> Shapes(chain, Max({0, view.floor - ScanChunk}), view.floor - 1)]
OlderTurn == errand.pc = "older" \/ (errand.pc = "rest" /\ ~Participates)
OlderRead ==
    /\ OlderTurn /\ Scans /\ view.floor > 0
    /\ LET read == {view.cursor, view.frontier} \ {NULL} IN
       /\ view' = IF \E b \in read : Orphaned(b) THEN Invalidated(view) ELSE view
       /\ errand' = IF \A b \in read : Canonical(b) THEN Chunk ELSE RestingJob
    /\ UNCHANGED <<envVars, poll, torn>>
OlderSkipped ==
    /\ OlderTurn
    /\ IF Scans THEN view.floor = 0 ELSE errand.pc = "older"
    /\ view' = IF Scans THEN [view EXCEPT !.complete = TRUE] ELSE view
    /\ errand' = RestingJob
    /\ UNCHANGED <<envVars, poll, torn>>

\* The headers are read again, and the floor must be where the errand found it.
OlderCommit ==
    /\ errand.pc = "olderRead" /\ Unlocked
    /\ LET read == {errand.at, errand.mark} IN
       view' = IF \E b \in read : Orphaned(b) THEN Invalidated(view)
               ELSE IF ~Stands \/ view.floor # errand.to + 1 \/ \E b \in read : ~Canonical(b) THEN view
               ELSE Remembered([WithLp(view, LpEvents(errand.logs)) EXCEPT
                                    !.floor = errand.from, !.frontier = errand.mark,
                                    !.complete = (errand.from = 0)],
                               errand.logs)
    /\ errand' = RestingJob
    /\ UNCHANGED <<envVars, poll, torn>>

JobFails ==
    /\ errand.pc \in {"recent", "olderRead"} /\ Failing
    /\ errand' = RestingJob
    /\ UNCHANGED <<envVars, view, poll, torn>>

----------------------------------------------------------------------------
DetailInit ==
    /\ kind \in PoolKinds
    /\ feed = [blocks |-> {}, carried |-> {}]
    /\ view = FreshView
    /\ poll = RestingPoll /\ errand = RestingJob
    /\ torn = FALSE

ChainMoves == (Mine \/ Reorganise) /\ UNCHANGED detailVars
Feed ==
    \/ \E n \in 1..Len(chain) : ObserveBlock(At(n))
    \/ \E h \in feed.blocks : ObserveEvents(h)
Poll ==
    \/ \E h \in PollHeads : SeedRead(h) \/ AdvanceRead(h) \/ HeadBroken(h) \/ Superseded(h)
    \/ Revisit \/ Confirm
Maintain ==
    \/ RecentRead \/ RecentCommit \/ RefreshSkipped
    \/ OlderRead \/ OlderSkipped \/ OlderCommit
Fails == JobFails \/ \E transport \in BOOLEAN : PollFails(transport)

DetailNext == ChainMoves \/ Feed \/ Poll \/ Maintain \/ Fails

DetailSpec == ChainInit /\ DetailInit /\ [][DetailNext]_<<chainVars, detailVars>>

----------------------------------------------------------------------------
SameCurve(h, at) == Shapes(h, 1, Len(h)) = Shapes(at, 1, Len(at))
\* The lock is free and the selection follows the chain: what it may publish.
Shown == Unlocked /\ Following

\* "Selected pools are read directly from a block-pinned RPC snapshot": a curve
\* shown as complete is the curve of the shown block, word by word.
CurvePinned ==
    /\ Shown /\ Concentrated /\ CurveComplete(view)
    /\ ~NeedsCurve(view, view.cursor, Len(view.cursor))
    => \A w \in DOMAIN view.net : SameCurve(view.net[w], view.cursor)

\* The same, unless a request failed between a curve's reads and its confirmation:
\* those words were kept without the block they were read at.
CurveExact == ~torn => CurvePinned

\* A shown pool has every swap of its chain in the interval it calls covered and,
\* for a V3 pool, every lifecycle event of that interval and of the older one it
\* scanned below its seed.
EventsCovered ==
    Shown =>
        /\ view.start # NULL =>
              /\ Swaps(view.cursor, view.start, view.through) \subseteq view.swaps
              /\ kind = "v3" => Shapes(view.cursor, view.start, view.through) \subseteq view.lp
        /\ kind = "v3" => Shapes(view.cursor, view.floor, view.base - 1) \subseteq view.lp

=============================================================================
