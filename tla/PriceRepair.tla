----------------------------- MODULE PriceRepair -----------------------------
(***************************************************************************)
(* Pricing of stored events: samples of a pool's own price, marks of the   *)
(* anchor token, the cached state of each pool, and the queue of events to *)
(* price again when an earlier sample or a token's decimals arrive late.   *)
(*                                                                         *)
(* An event is its place in chain order, which is also its time.  A        *)
(* "direct" pool pairs the anchor token with dollars, and its sources seed *)
(* the marks; a "cross" pool is valued through them.  A source carries its *)
(* own price, any other event takes the one its pool had.  Prices are      *)
(* abstract: the place of the source they come from.                       *)
(***************************************************************************)
EXTENDS Integers, Sequences, FiniteSets, FiniteSetsExt, Absent

CONSTANTS
    PoolAt,        \* place |-> "direct" or "cross"
    Sources,       \* places whose event carries sqrt_price_x96
    MaxAge,        \* seconds an anchor stays usable
    MaxDelivery,   \* bound on the events of one delivery
    MaxRollback    \* bound on rollbacks

Places == DOMAIN PoolAt

ASSUME PriceAssumption ==
    /\ PoolAt \in Seq({"direct", "cross"}) /\ Sources \subseteq Places
    /\ {MaxAge, MaxDelivery, MaxRollback} \subseteq Nat /\ NULL \notin Nat

VARIABLES
    decimals,   \* whether the cross pool's token metadata is known
    storedAt,   \* events in the store
    samples,    \* place |-> the ratio of its sample, NULL without decimals
    marks,      \* places with a mark of the anchor token
    stateOf,    \* lp_pool_state: pool |-> [at, ratio] or NULL
    priced,     \* place |-> [ratio, anchor], or NULL before projection
    pending,    \* pending_reprojection
    undone,     \* rollbacks so far
    hasty       \* whether a rollback priced an event that was still queued

priceVars == <<decimals, storedAt, samples, marks, stateOf, priced, pending, undone, hasty>>

PriceInit ==
    /\ decimals = FALSE /\ storedAt = {} /\ samples = [p \in {} |-> NULL] /\ marks = {}
    /\ stateOf = [pool \in {"direct", "cross"} |-> NULL]
    /\ priced = [p \in {} |-> NULL] /\ pending = {} /\ undone = 0 /\ hasty = FALSE

With(f, key, value) == [k \in DOMAIN f \cup {key} |-> IF k = key THEN value ELSE f[k]]

Latest(places) == IF places = {} THEN NULL ELSE Max(places)

\* What becomes of w when the places are worked off in chain order.
InChainOrder(Step(_, _), start, places) ==
    LET upTo[n \in 0 .. Len(PoolAt)] ==
            IF n = 0 THEN start
            ELSE IF n \in places THEN Step(upTo[n - 1], n) ELSE upTo[n - 1]
    IN  upTo[Len(PoolAt)]

\* What a source's own price is worth: nothing until decimals are known.
OwnRatio(place) == IF PoolAt[place] = "direct" \/ decimals THEN place ELSE NULL

(***************************************************************************)
(* _price and _state over one delivery.  w holds the tables as they are    *)
(* while the delivery is applied; in a forward delivery the new samples    *)
(* and marks are written at its end, and found in caches before.           *)
(***************************************************************************)
SampleBefore(w, place) ==
    LET places == {p \in DOMAIN w.samples : p <= place /\ PoolAt[p] = PoolAt[place]}
    IN  IF places = {} THEN NULL ELSE [at |-> Max(places), ratio |-> w.samples[Max(places)]]

\* The cached state of the pool, usable in a forward delivery.
Cached(w, place) ==
    LET state == w.stateOf[PoolAt[place]]
    IN  IF state = NULL THEN NULL
        ELSE IF w.forward /\ state.at <= place THEN state ELSE NULL

SampleFor(w, place) == IF Cached(w, place) # NULL THEN Cached(w, place) ELSE SampleBefore(w, place)

PoolRatio(w, place) == IF SampleFor(w, place) = NULL THEN NULL ELSE SampleFor(w, place).ratio

Fresh(mark, place) == IF mark # NULL /\ place - mark <= MaxAge THEN mark ELSE NULL

\* The newest mark serves every event after it; an older event looks its own
\* mark up in the table.
AnchorFor(w, place) ==
    IF w.newest = NULL \/ place > w.newest THEN Fresh(w.newest, place)
    ELSE Fresh(Latest({m \in w.marks : m <= place}), place)

\* A direct pool quotes its own ratio, or else the anchor; a cross pool takes
\* the anchor's leg and derives the other one.
Quote(w, place, ratio) ==
    IF PoolAt[place] = "direct" /\ ratio # NULL THEN [ratio |-> ratio, anchor |-> NULL]
    ELSE [ratio |-> ratio, anchor |-> AnchorFor(w, place)]

\* A source's own mark never anchors its own rebuild.
Unmarked(w, place) ==
    IF place \notin Sources \/ PoolAt[place] # "direct" \/ place \notin w.marks THEN w
    ELSE [w EXCEPT !.marks = @ \ {place},
                   !.newest = IF @ = place THEN Latest(w.marks \ {place}) ELSE @]

\* The price of an event, its sample and its mark.
Priced(w, place) ==
    LET source == place \in Sources
        clear == Unmarked(w, place)
        ratio == IF source THEN OwnRatio(place) ELSE PoolRatio(clear, place)
        seeds == source /\ PoolAt[place] = "direct"
    IN  [clear EXCEPT
            !.priced = With(@, place, Quote(clear, place, ratio)),
            !.samples = IF source /\ ~w.forward THEN With(@, place, ratio) ELSE @,
            !.marks = IF seeds /\ ~w.forward THEN @ \cup {place} ELSE @,
            !.newest = IF seeds /\ (@ = NULL \/ place >= @) THEN place ELSE @]

\* The pool's state moves to the event, unless it is newer already or the
\* event has no price.
Advanced(w, place) ==
    LET old == w.stateOf[PoolAt[place]]
        found == place \in Sources \/ SampleFor(w, place) # NULL
        newer == IF old = NULL THEN FALSE ELSE place < old.at
    IN  IF newer \/ ~found THEN w
        ELSE [w EXCEPT !.stateOf[PoolAt[place]] =
                  [at |-> place, ratio |-> w.priced[place].ratio]]

ApplyOne(w, place) == Advanced(Priced(w, place), place)

\* The delivery's own samples and marks, written at the end of a forward one.
Flushed(w, delivery) ==
    IF ~w.forward THEN w
    ELSE [w EXCEPT
            !.samples = [p \in DOMAIN @ \cup (delivery \cap Sources) |->
                             IF p \in delivery THEN w.priced[p].ratio ELSE w.samples[p]],
            !.marks = @ \cup {p \in delivery \cap Sources : PoolAt[p] = "direct"}]

Forward(delivery, stored) == \A p \in stored \ delivery : p < Min(delivery)

Applied(delivery, stored) ==
    LET start == [samples |-> samples, marks |-> marks, stateOf |-> stateOf, priced |-> priced,
                  newest |-> Latest(marks), forward |-> Forward(delivery, stored)]
    IN  Flushed(InChainOrder(ApplyOne, start, delivery), delivery)

(***************************************************************************)
(* Which older events a late sample disturbs.                              *)
(***************************************************************************)
Changed(w, place) ==
    /\ place \in Sources
    /\ \/ place \notin DOMAIN samples
       \/ samples[place] # w.samples[place]
       \/ place \in w.marks /\ place \notin marks

\* Mutant: an anchor's consumers are sought in its own pool only.
Mutant_SuccessorsAtHome(w, place, stored) ==
    {p \in stored : p > place /\ PoolAt[p] = PoolAt[place]}

\* Until the pool's next sample, and for a mark the cross pool's events until
\* the next mark, while it is fresh.
Successors(w, place, stored) ==
    LET nextSample == {p \in DOMAIN w.samples : p > place /\ PoolAt[p] = PoolAt[place]}
        nextMark == {m \in w.marks : m > place}
        before(p, next) == next = {} \/ p < Min(next)
    IN  {p \in stored :
            /\ p > place
            /\ \/ PoolAt[p] = PoolAt[place] /\ before(p, nextSample)
               \/ /\ PoolAt[place] = "direct" /\ PoolAt[p] = "cross"
                  /\ before(p, nextMark) /\ p - place <= MaxAge}

Disturbed(w, delivery, stored) ==
    IF w.forward THEN {}
    ELSE (UNION {Successors(w, p, stored) : p \in {q \in delivery : Changed(w, q)}}) \ delivery

\* One projection of a delivery, with what it leaves to be repaired.
ProjectPrice(delivery, stored, queue) ==
    LET w == Applied(delivery, stored)
    IN  /\ samples' = w.samples /\ marks' = w.marks
        /\ stateOf' = w.stateOf /\ priced' = w.priced
        /\ pending' = (queue \cup Disturbed(w, delivery, stored))

(***************************************************************************)
(* Operations.                                                             *)
(***************************************************************************)
\* The live lane stores and prices; a replayed log may lie below stored ones.
StoreProjected(delivery) ==
    /\ delivery \cap storedAt = {}
    /\ storedAt' = storedAt \cup delivery
    /\ ProjectPrice(delivery, storedAt \cup delivery, pending)
    /\ UNCHANGED <<decimals, undone, hasty>>

\* The archive lane stores raw events and leaves their pricing to the queue.
StoreRaw(delivery) ==
    /\ delivery \cap storedAt = {}
    /\ storedAt' = storedAt \cup delivery
    /\ priced' = [p \in DOMAIN priced \cup delivery |->
                      IF p \in delivery THEN NULL ELSE priced[p]]
    /\ pending' = pending \cup delivery
    /\ UNCHANGED <<decimals, samples, marks, stateOf, undone, hasty>>

\* The oldest and the newest queued events are priced again, as one delivery.
Reproject(oldest, newest) ==
    LET delivery == {p \in pending : \/ Cardinality({q \in pending : q < p}) < oldest
                                     \/ Cardinality({q \in pending : q > p}) < newest}
    IN  /\ pending # {}
        /\ ProjectPrice(delivery, storedAt, pending \ delivery)
        /\ UNCHANGED <<decimals, storedAt, undone, hasty>>

\* Token metadata arrives: every event of its pools is queued.
LearnDecimals ==
    /\ ~decimals
    /\ decimals' = TRUE
    /\ pending' = pending \cup {p \in storedAt : PoolAt[p] = "cross"}
    /\ UNCHANGED <<storedAt, samples, marks, stateOf, priced, undone, hasty>>

\* The state of a pool after a rollback: its last source, then the events
\* that follow it.
RebuiltState(pool, ancestor) ==
    LET kept == {p \in storedAt : p <= ancestor /\ PoolAt[p] = pool}
        last == Latest(kept \cap Sources)
    IN  IF stateOf[pool] = NULL \/ stateOf[pool].at <= ancestor THEN stateOf[pool]
        ELSE IF last = NULL THEN NULL
        ELSE [at |-> Max(kept), ratio |-> OwnRatio(last)]

\* The source the state is rebuilt from is priced again on the way, queued
\* or not.
RollbackPrices(ancestor) ==
    LET repriced(pool) ==
            LET last == Latest({p \in storedAt \cap Sources : p <= ancestor /\ PoolAt[p] = pool})
            IN  IF stateOf[pool] # NULL /\ stateOf[pool].at > ancestor /\ last # NULL
                THEN {last} ELSE {}
        again == repriced("direct") \cup repriced("cross")
        base == [samples |-> [p \in {q \in DOMAIN samples : q <= ancestor} |-> samples[p]],
                 marks |-> {m \in marks : m <= ancestor}, stateOf |-> stateOf,
                 priced |-> [p \in {q \in DOMAIN priced : q <= ancestor} |-> priced[p]],
                 newest |-> Latest({m \in marks : m <= ancestor}), forward |-> FALSE]
        w == InChainOrder(Priced, base, again)
    IN  /\ undone < MaxRollback
        /\ \E p \in storedAt : p > ancestor
        /\ undone' = undone + 1
        /\ hasty' = (hasty \/ again \cap pending # {})
        /\ storedAt' = {p \in storedAt : p <= ancestor}
        /\ samples' = w.samples /\ marks' = w.marks /\ priced' = w.priced
        /\ stateOf' = [pool \in DOMAIN stateOf |-> RebuiltState(pool, ancestor)]
        /\ pending' = {p \in pending : p <= ancestor}
        /\ UNCHANGED decimals

Deliveries == {d \in SUBSET (Places \ storedAt) : d # {} /\ Cardinality(d) <= MaxDelivery}

PriceNext ==
    \/ \E delivery \in Deliveries : StoreProjected(delivery) \/ StoreRaw(delivery)
    \/ \E oldest \in 1 .. MaxDelivery, newest \in 0 .. MaxDelivery : Reproject(oldest, newest)
    \/ LearnDecimals
    \/ \E ancestor \in 0 .. Len(PoolAt) : RollbackPrices(ancestor)

PriceSpec == PriceInit /\ [][PriceNext]_priceVars

-----------------------------------------------------------------------------
\* The mark and the ratio an event has from what is stored now.
TrueAnchor(place) ==
    Fresh(Latest({p \in storedAt \cap Sources : p <= place /\ PoolAt[p] = "direct"}), place)

TrueRatio(place) ==
    LET last == Latest({p \in storedAt \cap Sources : p <= place /\ PoolAt[p] = PoolAt[place]})
    IN  IF last = NULL THEN NULL ELSE OwnRatio(last)

(***************************************************************************)
(* Once the repair queue is empty, every source has the price the stored   *)
(* chain gives it, and every cross-pool event the anchor in force at its   *)
(* place: whatever order samples and decimals came in, and after any       *)
(* rollback, no event keeps a mark that a later delivery replaced.  The    *)
(* exception is a rollback that prices a source still queued: the queue    *)
(* then finds its sample unchanged and repairs nothing after it.           *)
(***************************************************************************)
MarksSettled ==
    pending = {} /\ ~hasty =>
        \A p \in storedAt :
            /\ p \in Sources => priced[p].ratio = OwnRatio(p)
            /\ PoolAt[p] = "cross" => priced[p].anchor = TrueAnchor(p)

(***************************************************************************)
(* The comment of apply says that backfilled samples can invalidate the    *)
(* cached current price; once the repair queue is empty, no event should   *)
(* still be priced from a sample that a later delivery replaced.           *)
(***************************************************************************)
PricesSettled ==
    pending = {} => \A p \in storedAt : priced[p].ratio = TrueRatio(p)

=============================================================================
