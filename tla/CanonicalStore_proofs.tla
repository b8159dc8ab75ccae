------------------------ MODULE CanonicalStore_proofs ------------------------
(***************************************************************************)
(* What the store's transactions keep, for every tree of blocks and every  *)
(* sequence of calls: the indexer's lanes and its recovery may interleave  *)
(* in any way, and its readings of the cursors may be arbitrarily old.     *)
(***************************************************************************)
EXTENDS CanonicalStore, TLAPS

StoreInv == StoreTypeOK /\ Grounded /\ CoverageAnchored

LEMMA StoreInitInv == StoreInit => StoreInv
<1> SUFFICES ASSUME StoreInit PROVE StoreInv
    OBVIOUS
<1>1. NoHash \in Hash
    BY TargetsAssumption DEF NoHash
<1>2. EmptyHistory(NoHash) \in HistoryCursor
    BY <1>1 DEF EmptyHistory, HistoryCursor
<1>3. StoreTypeOK
    BY <1>1, <1>2 DEF StoreInit, StoreTypeOK, LiveCursor, Lanes
<1>4. Grounded /\ CoverageAnchored
    BY DEF StoreInit, Grounded, CoverageAnchored
<1> QED
    BY <1>3, <1>4 DEF StoreInv

\* A header that is not refused leaves one header per number.
LEMMA HeadersUnique ==
    ASSUME NEW hs \in SUBSET Hash, StoreTypeOK, Grounded, ~Conflicting(hs)
    PROVE  \A a, b \in blocks \cup hs : Number(a) = Number(b) => a = b
BY DEF StoreTypeOK, Grounded, Conflicting

\* Adding an interval with stored ends keeps every run of numbers anchored.
LEMMA MergeAnchored ==
    ASSUME StoreTypeOK, CoverageAnchored, NEW lane \in Lanes,
           NEW first \in Hash, NEW last \in Hash,
           blocks \subseteq blocks', first \in blocks', last \in blocks',
           covered' = [covered EXCEPT
                          ![lane] = @ \cup (Number(first)..Number(last))]
    PROVE  CoverageAnchored'
<1> SUFFICES ASSUME NEW l \in Lanes, NEW n \in covered'[l],
                    n - 1 \notin covered'[l] \/ n + 1 \notin covered'[l]
             PROVE  Stored(n)'
    BY DEF CoverageAnchored
<1>1. Number(first) \in Nat /\ Number(last) \in Nat
    BY NumberAssumption
<1>2. Stored(n) => Stored(n)'
    BY DEF Stored
<1>3. CASE n \in covered[l]
  <2>1. covered[l] \subseteq covered'[l]
      BY DEF StoreTypeOK
  <2> QED
      BY <1>2, <1>3, <2>1 DEF CoverageAnchored
<1>4. CASE n \notin covered[l]
  <2>1. covered'[l] = covered[l] \cup (Number(first)..Number(last))
      BY <1>4 DEF StoreTypeOK
  <2>2. n = Number(first) \/ n = Number(last)
      BY <1>1, <1>4, <2>1
  <2> QED
      BY <2>2 DEF Stored
<1> QED
    BY <1>3, <1>4

LEMMA IngestLiveInv ==
    ASSUME StoreInv, NEW hs \in SUBSET Hash, NEW evs \in SUBSET hs,
           NEW first \in hs, NEW last \in hs, NEW seen \in Hash,
           NEW seenEpoch \in Nat,
           IngestLive(hs, evs, first, last, seen, seenEpoch)
    PROVE  StoreInv'
<1> USE DEF StoreInv
<1>1. blocks' = blocks \cup hs /\ ~Conflicting(hs)
    BY DEF IngestLive, StoreHeaders
<1>2. StoreTypeOK'
    BY <1>1, NumberAssumption
    DEF IngestLive, StoreTypeOK, LiveCursor, Lanes
<1>3. Grounded'
    BY <1>1, HeadersUnique DEF IngestLive, Grounded
<1>4. CoverageAnchored'
    BY <1>1, MergeAnchored DEF IngestLive, Lanes
<1> QED
    BY <1>2, <1>3, <1>4

LEMMA IngestHistoryInv ==
    ASSUME StoreInv, NEW hs \in SUBSET Hash, NEW evs \in SUBSET hs,
           NEW first \in hs, NEW last \in hs, NEW seenEpoch \in Nat,
           IngestHistory(hs, evs, first, last, seenEpoch)
    PROVE  StoreInv'
<1> USE DEF StoreInv
<1>1. blocks' = blocks \cup hs /\ ~Conflicting(hs)
    BY DEF IngestHistory, StoreHeaders
<1>2. history' \in HistoryCursor
  <2> DEFINE complete == Number(first) <= history.target
  <2>1. complete \in BOOLEAN /\ Number(first) \in Nat /\ Number(first) - 1 \in Int
      BY NumberAssumption
  <2>2. history' = [history EXCEPT !.nextTo = Number(first) - 1,
                                   !.low = Number(first), !.hash = first,
                                   !.complete = complete, !.scanned = TRUE]
      BY DEF IngestHistory
  <2> HIDE DEF complete
  <2> QED
      BY <2>1, <2>2 DEF StoreTypeOK, HistoryCursor
<1>3. StoreTypeOK'
    BY <1>1, <1>2, NumberAssumption DEF IngestHistory, StoreTypeOK, Lanes
<1>4. Grounded'
    BY <1>1, HeadersUnique DEF IngestHistory, Grounded
<1>5. CoverageAnchored'
    BY <1>1, MergeAnchored DEF IngestHistory, Lanes
<1> QED
    BY <1>3, <1>4, <1>5

\* The calls that store one header and no interval.
LEMMA AnchorInv ==
    ASSUME StoreInv, NEW h \in Hash, StoreHeaders({h}),
           UNCHANGED <<events, covered, epoch>>,
           history' \in HistoryCursor,
           live' = live \/ live' = [init |-> TRUE, at |-> h]
    PROVE  StoreInv'
<1> USE DEF StoreInv
<1>1. blocks' = blocks \cup {h} /\ ~Conflicting({h})
    BY DEF StoreHeaders
<1>2. StoreTypeOK'
  <2>1. [init |-> TRUE, at |-> h] \in LiveCursor
      BY DEF LiveCursor
  <2> QED
      BY <1>1, <2>1 DEF StoreTypeOK
<1>3. Grounded'
    BY <1>1, HeadersUnique DEF Grounded
<1>4. CoverageAnchored'
    BY <1>1 DEF CoverageAnchored, Stored
<1> QED
    BY <1>2, <1>3, <1>4

LEMMA RollbackInv ==
    ASSUME StoreInv, NEW h \in Hash, Rollback(h)
    PROVE  StoreInv'
<1> USE DEF StoreInv
<1>1. Number(h) \in Nat /\ ~Conflicting({h})
    BY NumberAssumption DEF Rollback
<1>2. blocks' = AtOrBelow(blocks \cup {h}, h) /\ h \in blocks'
    BY <1>1 DEF Rollback, AtOrBelow
<1>3. StoreTypeOK'
  <2>1. live' \in LiveCursor
      BY DEF Rollback, StoreTypeOK, LiveCursor
  <2>2. history' \in HistoryCursor
      BY DEF Rollback, StoreTypeOK, HistoryCursor
  <2> QED
      BY <2>1, <2>2 DEF Rollback, AtOrBelow, StoreTypeOK
<1>4. Grounded'
  <2>1. \A a, b \in blocks' : Number(a) = Number(b) => a = b
      BY <1>1, <1>2, HeadersUnique DEF AtOrBelow
  <2>2. events' \subseteq blocks'
      BY <1>2 DEF Rollback, AtOrBelow, Grounded
  <2>3. live'.init => live'.at \in blocks'
    <3>1. CASE live.init /\ Number(live.at) > Number(h)
        BY <1>2, <3>1 DEF Rollback, StoreTypeOK, LiveCursor
    <3>2. CASE ~(live.init /\ Number(live.at) > Number(h))
      <4>1. live' = live
          BY <3>2 DEF Rollback
      <4>2. Number(live.at) \in Nat
          BY NumberAssumption DEF StoreTypeOK, LiveCursor
      <4> QED
          BY <1>1, <1>2, <3>2, <4>1, <4>2 DEF Grounded, AtOrBelow
    <3> QED
        BY <3>1, <3>2
  <2> QED
      BY <2>1, <2>2, <2>3 DEF Grounded
<1>5. CoverageAnchored'
  <2> SUFFICES ASSUME NEW l \in Lanes, NEW n \in covered'[l],
                      n - 1 \notin covered'[l] \/ n + 1 \notin covered'[l]
               PROVE  Stored(n)'
      BY DEF CoverageAnchored
  <2>1. covered'[l] = { k \in covered[l] : k <= Number(h) }
      BY DEF Rollback
  <2>2. n \in Nat /\ n \in covered[l] /\ n <= Number(h)
      BY <2>1 DEF StoreTypeOK
  <2>3. CASE n = Number(h)
      BY <1>2, <2>3 DEF Stored
  <2>4. CASE n # Number(h)
    <3>1. n - 1 \notin covered[l] \/ n + 1 \notin covered[l]
        BY <1>1, <2>1, <2>2, <2>4
    <3>2. Stored(n)
        BY <2>2, <3>1 DEF CoverageAnchored
    <3> QED
        BY <1>2, <2>2, <3>2 DEF Stored, AtOrBelow
  <2> QED
      BY <2>3, <2>4
<1> QED
    BY <1>3, <1>4, <1>5

LEMMA StoreNextInv == StoreInv /\ [StoreNext]_storeVars => StoreInv'
<1> SUFFICES ASSUME StoreInv, [StoreNext]_storeVars PROVE StoreInv'
    OBVIOUS
<1>1. ASSUME NEW hs \in SUBSET Hash, NEW seenEpoch \in 0..epoch,
             NEW evs \in SUBSET hs, NEW first \in hs, NEW last \in hs,
             NEW seen \in Hash, IngestLive(hs, evs, first, last, seen, seenEpoch)
      PROVE  StoreInv'
    BY <1>1, IngestLiveInv
<1>2. ASSUME NEW hs \in SUBSET Hash, NEW seenEpoch \in 0..epoch,
             NEW evs \in SUBSET hs, NEW first \in hs, NEW last \in hs,
             IngestHistory(hs, evs, first, last, seenEpoch)
      PROVE  StoreInv'
    BY <1>2, IngestHistoryInv
<1>3. ASSUME NEW h \in Hash, AnchorLive(h)
      PROVE  StoreInv'
    BY <1>3, AnchorInv DEF AnchorLive, StoreInv, StoreTypeOK
<1>4. ASSUME NEW h \in Hash, NEW low \in {Number(h), Number(h) + 1},
             NEW target \in Targets, NEW origin \in Targets,
             NEW pending \in BOOLEAN, NEW complete \in BOOLEAN,
             AnchorHistory(h, FreshHistory(h, low, target, pending, origin, complete))
      PROVE  StoreInv'
  <2>1. FreshHistory(h, low, target, pending, origin, complete) \in HistoryCursor
      BY NumberAssumption, TargetsAssumption DEF FreshHistory, HistoryCursor
  <2> QED
      BY <1>4, <2>1, AnchorInv DEF AnchorHistory
<1>5. ASSUME NEW h \in Hash, NEW target \in Targets,
             NEW nextTo \in {-1} \cup { Number(g) : g \in Hash },
             NEW seenEpoch \in 0..epoch, ResolveTarget(h, target, nextTo, seenEpoch)
      PROVE  StoreInv'
  <2> DEFINE complete == nextTo < target
  <2>1. complete \in BOOLEAN /\ target \in Int
      BY TargetsAssumption
  <2>2. history' = [history EXCEPT !.target = target, !.pending = FALSE,
                                   !.complete = complete]
      BY <1>5 DEF ResolveTarget
  <2> HIDE DEF complete
  <2>3. history' \in HistoryCursor
      BY <2>1, <2>2 DEF StoreInv, StoreTypeOK, HistoryCursor
  <2> QED
      BY <1>5, <2>3, AnchorInv DEF ResolveTarget
<1>6. ASSUME NEW h \in Hash, Rollback(h)
      PROVE  StoreInv'
    BY <1>6, RollbackInv
<1>7. CASE UNCHANGED storeVars
    BY <1>7 DEF storeVars, StoreInv, StoreTypeOK, Grounded, CoverageAnchored, Stored
<1> QED
    BY <1>1, <1>2, <1>3, <1>4, <1>5, <1>6, <1>7 DEF StoreNext

(***************************************************************************)
(* The tables stay grounded and anchored: one header per number, a header  *)
(* for every event and for the live cursor, and a header at both ends of   *)
(* every coverage interval.                                                *)
(***************************************************************************)
THEOREM StoreSafe == StoreSpec => []StoreInv
    BY StoreInitInv, StoreNextInv, PTL DEF StoreSpec

(***************************************************************************)
(* Type correctness of the tables the transactions of MarketStore write.   *)
(***************************************************************************)
THEOREM StoreTypeCorrect == StoreSpec => []StoreTypeOK
    BY StoreSafe, PTL DEF StoreInv

(***************************************************************************)
(* The header-per-number, event and cursor part, by name.                  *)
(***************************************************************************)
THEOREM StoreGrounded == StoreSpec => []Grounded
    BY StoreSafe, PTL DEF StoreInv

(***************************************************************************)
(* "blocks contains both boundaries of every committed coverage interval": *)
(* what the class comment of MarketStore promises.                         *)
(***************************************************************************)
THEOREM StoreAnchored == StoreSpec => []CoverageAnchored
    BY StoreSafe, PTL DEF StoreInv
=============================================================================
