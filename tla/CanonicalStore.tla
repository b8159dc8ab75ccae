---------------------------- MODULE CanonicalStore ----------------------------
(***************************************************************************)
(* The durable tables of MarketStore (lp_market_store.py) that tie the     *)
(* index to a chain, and the write transactions that change them.  Every   *)
(* action is one SQLite transaction: all of it is committed, or none.      *)
(*                                                                         *)
(* A block hash determines its number and its parent hash, so a header is  *)
(* its hash.  The rows of the events table are identified by the hash of   *)
(* their block (events holds the blocks whose logs are stored).  The rows  *)
(* of coverage_intervals never overlap or touch within a lane, so they are *)
(* the maximal runs of a set of block numbers: covered holds that set.     *)
(***************************************************************************)
EXTENDS Integers

CONSTANTS
    Hash,           \* block hashes
    Number(_),      \* the number in the header with a given hash
    Parent(_),      \* the parentHash of the header with a given hash
    Targets         \* numbers a lookback may start from or end at

ASSUME NumberAssumption == \A h \in Hash : Number(h) \in Nat
ASSUME TargetsAssumption == Hash # {} /\ Targets \subseteq Nat

VARIABLES
    blocks,         \* the blocks table
    events,         \* the events table
    covered,        \* coverage_intervals, by lane
    live,           \* metadata cursor:live
    history,        \* metadata cursor:history
    epoch           \* metadata epoch

storeVars == <<blocks, events, covered, live, history, epoch>>

Lanes == {"live", "history"}

(***************************************************************************)
(* Cursors.  A live cursor is its block.  A history cursor scans downwards *)
(* from nextTo to target; low and hash are the lowest block it reached,    *)
(* scanned is has_coverage.  init is FALSE for a history cursor without    *)
(* next_to: none yet, or the stub a rollback leaves.                       *)
(***************************************************************************)
LiveCursor == [init : BOOLEAN, at : Hash]

HistoryCursor ==
    [init : BOOLEAN, nextTo : Int, low : Nat, hash : Hash, target : Int,
     pending : BOOLEAN, origin : Nat, complete : BOOLEAN, scanned : BOOLEAN]

EmptyHistory(h) ==
    [init |-> FALSE, nextTo |-> 0, low |-> 0, hash |-> h, target |-> 0,
     pending |-> FALSE, origin |-> 0, complete |-> FALSE, scanned |-> FALSE]

\* A new history cursor that scans below number low, its anchor h stored.
FreshHistory(h, low, target, pending, origin, complete) ==
    [init |-> TRUE, nextTo |-> low - 1, low |-> low, hash |-> h,
     target |-> target, pending |-> pending, origin |-> origin,
     complete |-> complete, scanned |-> FALSE]

-----------------------------------------------------------------------------

\* _store_headers raises CanonicalConflict: two supplied headers disagree, or
\* a supplied header disagrees with the stored row of its number.
Conflicting(hs) ==
    \/ \E a, b \in hs : Number(a) = Number(b) /\ a # b
    \/ \E a, b \in hs : Number(b) = Number(a) + 1 /\ Parent(b) # a
    \/ \E a \in hs, b \in blocks : Number(a) = Number(b) /\ a # b

StoreHeaders(hs) ==
    /\ ~Conflicting(hs)
    /\ blocks' = blocks \cup hs

-----------------------------------------------------------------------------
\* The _expected_ checks of a live interval: neither the epoch nor the cursor
\* moved while it was fetched.
LiveCurrent(seen, seenEpoch) ==
    /\ seenEpoch = epoch
    /\ live.init
    /\ live.at = seen

\* ingest of the interval first..last with its headers hs and the blocks evs
\* that have logs, as _scan_live_once commits it.
IngestLive(hs, evs, first, last, seen, seenEpoch) ==
    /\ LiveCurrent(seen, seenEpoch)
    /\ StoreHeaders(hs)
    /\ events' = events \cup evs
    /\ covered' = [covered EXCEPT
                      !["live"] = @ \cup (Number(first)..Number(last))]
    /\ live' = [init |-> TRUE, at |-> last]
    /\ UNCHANGED <<history, epoch>>

\* ingest([header], [], lane="live", cursor): an anchor without an interval.
AnchorLive(h) ==
    /\ StoreHeaders({h})
    /\ live' = [init |-> TRUE, at |-> h]
    /\ UNCHANGED <<events, covered, history, epoch>>

HistoryCurrent(seenNextTo, seenEpoch) ==
    /\ seenEpoch = epoch
    /\ history.init
    /\ history.nextTo = seenNextTo

\* ingest of the interval first..last by _scan_history_once.
IngestHistory(hs, evs, first, last, seenEpoch) ==
    /\ HistoryCurrent(Number(last), seenEpoch)
    /\ StoreHeaders(hs)
    /\ events' = events \cup evs
    /\ covered' = [covered EXCEPT
                      !["history"] = @ \cup (Number(first)..Number(last))]
    /\ history' = [history EXCEPT !.nextTo = Number(first) - 1,
                                  !.low = Number(first),
                                  !.hash = first,
                                  !.complete = Number(first) <= history.target,
                                  !.scanned = TRUE]
    /\ UNCHANGED <<live, epoch>>

\* ingest([origin], [], lane="history", cursor): the lookback target that was
\* left pending at startup is resolved from the origin header.
ResolveTarget(origin, target, seenNextTo, seenEpoch) ==
    /\ HistoryCurrent(seenNextTo, seenEpoch)
    /\ StoreHeaders({origin})
    /\ history' = [history EXCEPT !.target = target,
                                  !.pending = FALSE,
                                  !.complete = seenNextTo < target]
    /\ UNCHANGED <<events, covered, live, epoch>>

\* ingest([header], [], lane="history", cursor): a new history cursor.
AnchorHistory(h, cursor) ==
    /\ StoreHeaders({h})
    /\ history' = cursor
    /\ UNCHANGED <<events, covered, live, epoch>>

-----------------------------------------------------------------------------
AtOrBelow(hs, h) == { b \in hs : Number(b) <= Number(h) }

Mutant_RollbackKeepsEvents(h) ==
    /\ ~Conflicting({h})
    /\ blocks' = AtOrBelow(blocks \cup {h}, h)
    /\ events' = events
    /\ covered' = [l \in Lanes |-> { n \in covered[l] : n <= Number(h) }]
    /\ live' = IF live.init /\ Number(live.at) > Number(h)
               THEN [live EXCEPT !.at = h] ELSE live
    /\ history' = IF history.init /\ history.low > Number(h)
                  THEN [history EXCEPT !.init = FALSE] ELSE history
    /\ epoch' = epoch + 1

Mutant_RollbackKeepsHeaders(h) ==
    /\ ~Conflicting({h})
    /\ blocks' = blocks \cup {h}
    /\ events' = AtOrBelow(events, h)
    /\ covered' = [l \in Lanes |-> { n \in covered[l] : n <= Number(h) }]
    /\ live' = IF live.init /\ Number(live.at) > Number(h)
               THEN [live EXCEPT !.at = h] ELSE live
    /\ history' = IF history.init /\ history.low > Number(h)
                  THEN [history EXCEPT !.init = FALSE] ELSE history
    /\ epoch' = epoch + 1

Mutant_RollbackCutsLate(h) ==
    /\ ~Conflicting({h})
    /\ blocks' = AtOrBelow(blocks \cup {h}, h)
    /\ events' = AtOrBelow(events, h)
    /\ covered' = [l \in Lanes |-> { n \in covered[l] : n <= Number(h) + 1 }]
    /\ live' = IF live.init /\ Number(live.at) > Number(h)
               THEN [live EXCEPT !.at = h] ELSE live
    /\ history' = IF history.init /\ history.low > Number(h)
                  THEN [history EXCEPT !.init = FALSE] ELSE history
    /\ epoch' = epoch + 1

\* rollback(ancestor, header=header): everything above the ancestor goes, the
\* cursors above it are replaced by it (a history cursor loses its next_to),
\* and the epoch moves so that intervals already fetched are refused.
Rollback(h) ==
    /\ ~Conflicting({h})
    /\ blocks' = AtOrBelow(blocks \cup {h}, h)
    /\ events' = AtOrBelow(events, h)
    /\ covered' = [l \in Lanes |-> { n \in covered[l] : n <= Number(h) }]
    /\ live' = IF live.init /\ Number(live.at) > Number(h)
               THEN [live EXCEPT !.at = h] ELSE live
    /\ history' = IF history.init /\ history.low > Number(h)
                  THEN [history EXCEPT !.init = FALSE] ELSE history
    /\ epoch' = epoch + 1

-----------------------------------------------------------------------------
NoHash == CHOOSE h \in Hash : TRUE

StoreInit ==
    /\ blocks = {}
    /\ events = {}
    /\ covered = [l \in Lanes |-> {}]
    /\ live = [init |-> FALSE, at |-> NoHash]
    /\ history = EmptyHistory(NoHash)
    /\ epoch = 0

\* An interval as _fetch_interval returns it: both boundary headers, a header
\* for every block with logs, and nothing outside the boundaries.
Interval(hs, evs, first, last) ==
    /\ first \in hs
    /\ last \in hs
    /\ evs \subseteq hs
    /\ \A h \in hs : Number(h) \in Number(first)..Number(last)

\* What any sequence of calls of the indexer may do to the tables, whatever
\* the chain shows it and however old its reading of the cursors is.
StoreNext ==
    \/ \E hs \in SUBSET Hash, seenEpoch \in 0..epoch :
          \E evs \in SUBSET hs, first, last \in hs :
             /\ Interval(hs, evs, first, last)
             /\ \/ \E seen \in Hash :
                      IngestLive(hs, evs, first, last, seen, seenEpoch)
                \/ IngestHistory(hs, evs, first, last, seenEpoch)
    \/ \E h \in Hash :
          \/ AnchorLive(h)
          \/ /\ ~history.init
             /\ \E low \in {Number(h), Number(h) + 1}, target, origin \in Targets,
                   pending, complete \in BOOLEAN :
                   AnchorHistory(h, FreshHistory(h, low, target, pending,
                                                 origin, complete))
          \/ \E target \in Targets, nextTo \in {-1} \cup { Number(g) : g \in Hash },
                seenEpoch \in 0..epoch :
                ResolveTarget(h, target, nextTo, seenEpoch)
          \/ Rollback(h)

StoreSpec == StoreInit /\ [][StoreNext]_storeVars

-----------------------------------------------------------------------------
StoreTypeOK ==
    /\ blocks \subseteq Hash
    /\ events \subseteq Hash
    /\ covered \in [Lanes -> SUBSET Nat]
    /\ live \in LiveCursor
    /\ history \in HistoryCursor
    /\ epoch \in Nat

(***************************************************************************)
(* The blocks table holds one header per number, the header of every       *)
(* stored event's block, and the header the live cursor names: an event or *)
(* a cursor on a fork that the table does not know would survive every     *)
(* later comparison with the chain.                                        *)
(***************************************************************************)
Grounded ==
    /\ \A a, b \in blocks : Number(a) = Number(b) => a = b
    /\ events \subseteq blocks
    /\ live.init => live.at \in blocks

Stored(n) == \E b \in blocks : Number(b) = n

(***************************************************************************)
(* "blocks contains both boundaries of every committed coverage interval": *)
(* the ends of every run of covered numbers have a stored header, also     *)
(* after intervals merge and after a rollback cuts one short.              *)
(***************************************************************************)
CoverageAnchored ==
    \A l \in Lanes : \A n \in covered[l] :
        (n - 1 \notin covered[l] \/ n + 1 \notin covered[l]) => Stored(n)
=============================================================================
