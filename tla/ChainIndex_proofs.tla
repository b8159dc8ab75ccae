--------------------------- MODULE ChainIndex_proofs ---------------------------
(***************************************************************************)
(* The lanes and the recovery of MarketIndexer implement the abstract      *)
(* store: whatever the chain shows them, however their steps interleave,   *)
(* and wherever a restart cuts in, every step is one of the transactions   *)
(* of CanonicalStore with arguments it allows, or leaves the tables alone. *)
(* What is proved of the store is therefore proved of the index.           *)
(* Then what the index stores: fetched intervals are exact in every        *)
(* behaviour, the tables in every behaviour up to the first rollback.      *)
(***************************************************************************)
EXTENDS ChainIndex, SequenceTheorems, FiniteSetTheorems, TLAPS

\* The store on its own, with what is proved of it.
Tables == INSTANCE CanonicalStore_proofs
            WITH Hash <- Hashes, Number <- HashNumber, Parent <- HashParent,
                 Targets <- 0..MaxHeight

-----------------------------------------------------------------------------
(* Hashes are bounded sequences.                                           *)

Blocks == UNION { [1..n -> 0..MaxForks] : n \in 0..MaxHeight }

LEMMA HashesAre == Hashes = Blocks
BY ChainAssumption DEF Hashes, BoundedSeq, SeqOf, Blocks

LEMMA HashLength ==
    ASSUME NEW h \in Hashes
    PROVE  h \in Seq(0..MaxForks) /\ Len(h) \in 0..MaxHeight
<1>1. PICK n \in 0..MaxHeight : h \in [1..n -> 0..MaxForks]
    BY HashesAre DEF Blocks
<1> QED
    BY <1>1, ChainAssumption

LEMMA SeqIsHash ==
    ASSUME NEW h \in Seq(0..MaxForks), Len(h) <= MaxHeight
    PROVE  h \in Hashes
<1>1. Len(h) \in 0..MaxHeight /\ h \in [1..Len(h) -> 0..MaxForks]
    BY ChainAssumption
<1> QED
    BY <1>1, HashesAre DEF Blocks

\* eth_getBlockByNumber answers with a block of the number asked for.
LEMMA AtIsHash ==
    ASSUME chain \in Hashes, NEW n \in 0..Len(chain)
    PROVE  At(n) \in Hashes /\ Len(At(n)) = n
<1>1. chain \in Seq(0..MaxForks) /\ Len(chain) \in 0..MaxHeight
    BY HashLength
<1>2. n \in Nat /\ \A i \in 1..n : chain[i] \in 0..MaxForks
  <2>1. \A i \in 1..Len(chain) : chain[i] \in 0..MaxForks
      BY <1>1, ElementOfSeq
  <2>2. Len(chain) \in Nat
      BY <1>1
  <2> QED
      BY <2>1, <2>2
<1>3. /\ SubSeq(chain, 1, n) \in Seq(0..MaxForks)
      /\ Len(SubSeq(chain, 1, n)) = IF 1 <= n THEN n - 1 + 1 ELSE 0
    BY <1>2, SubSeqProperties
<1>4. At(n) \in Seq(0..MaxForks) /\ Len(At(n)) = n
    BY <1>2, <1>3 DEF At, Ancestor
<1> QED
    BY <1>1, <1>4, SeqIsHash, ChainAssumption

\* The assumptions of CanonicalStore hold of the blocks of a chain.
LEMMA HashNumbers ==
    /\ \A h \in Hashes : HashNumber(h) \in Nat
    /\ Hashes # {} /\ (0..MaxHeight) \subseteq Nat
<1>1. [i \in 1..0 |-> 0] \in [1..0 -> 0..MaxForks] /\ 0 \in 0..MaxHeight
    BY ChainAssumption
<1>2. Hashes # {}
    BY <1>1, HashesAre DEF Blocks
<1> QED
    BY <1>2, HashLength, ChainAssumption DEF HashNumber

\* A bounded set of numbers has a largest one: the intervals from its members
\* up to the bound are well-founded by inclusion.
LEMMA LargestNumber ==
    ASSUME NEW n \in Nat, NEW T \in SUBSET (0..n), T # {}
    PROVE  \E k \in T : \A j \in T : j <= k
<1> DEFINE above == { k..n : k \in T }
           R == StrictSubsetOrdering(Nat)
<1>1. \A k \in 0..n : k..n \in FiniteSubsetsOf(Nat)
    BY FS_Interval DEF FiniteSubsetsOf
<1>2. above \subseteq FiniteSubsetsOf(Nat) /\ above # {}
    BY <1>1
<1>3. IsWellFoundedOn(R, FiniteSubsetsOf(Nat))
    BY FS_StrictSubsetOrderingWellFounded
<1> HIDE DEF above, R
<1>4. PICK x \in above : \A y \in above : <<y, x>> \notin R
    BY <1>2, <1>3, WFMin
<1>5. PICK k \in T : x = k..n
    BY <1>4 DEF above
<1>6. ASSUME NEW j \in T, j > k PROVE FALSE
  <2>1. j..n \in above /\ j..n \subseteq k..n /\ j..n # k..n
      BY <1>6 DEF above
  <2>2. j..n \in SUBSET Nat /\ k..n \in SUBSET Nat
      OBVIOUS
  <2>3. <<j..n, k..n>> \in R
      BY <2>1, <2>2 DEF R, StrictSubsetOrdering
  <2> QED
      BY <1>4, <1>5, <2>1, <2>3
<1>7. \A j \in T : j <= k
    BY <1>6
<1> QED
    BY <1>7

-----------------------------------------------------------------------------
(* The transactions as this module names them and as the store does.       *)

LEMMA LiveIngestSame ==
    ASSUME NEW hs, NEW evs, NEW first, NEW last, NEW seen, NEW seenEpoch
    PROVE  IngestLive(hs, evs, first, last, seen, seenEpoch)
             <=> Tables!IngestLive(hs, evs, first, last, seen, seenEpoch)
BY DEF IngestLive, LiveCurrent, StoreHeaders, Conflicting, Tables!IngestLive,
       Tables!LiveCurrent, Tables!StoreHeaders, Tables!Conflicting

LEMMA HistoryIngestSame ==
    ASSUME NEW hs, NEW evs, NEW first, NEW last, NEW seenEpoch
    PROVE  IngestHistory(hs, evs, first, last, seenEpoch)
             <=> Tables!IngestHistory(hs, evs, first, last, seenEpoch)
BY DEF IngestHistory, HistoryCurrent, StoreHeaders, Conflicting,
       Tables!IngestHistory, Tables!HistoryCurrent, Tables!StoreHeaders,
       Tables!Conflicting

LEMMA ResolveSame ==
    ASSUME NEW origin, NEW target, NEW seenNextTo, NEW seenEpoch
    PROVE  ResolveTarget(origin, target, seenNextTo, seenEpoch)
             <=> Tables!ResolveTarget(origin, target, seenNextTo, seenEpoch)
BY DEF ResolveTarget, HistoryCurrent, StoreHeaders, Conflicting,
       Tables!ResolveTarget, Tables!HistoryCurrent, Tables!StoreHeaders,
       Tables!Conflicting

LEMMA AnchorsSame ==
    ASSUME NEW h, NEW cursor
    PROVE  /\ AnchorLive(h) <=> Tables!AnchorLive(h)
           /\ AnchorHistory(h, cursor) <=> Tables!AnchorHistory(h, cursor)
BY DEF AnchorLive, AnchorHistory, StoreHeaders, Conflicting,
       Tables!AnchorLive, Tables!AnchorHistory, Tables!StoreHeaders,
       Tables!Conflicting

LEMMA RollbackSame ==
    ASSUME NEW h
    PROVE  Rollback(h) <=> Tables!Rollback(h)
BY DEF Rollback, AtOrBelow, Conflicting, Lanes, Tables!Rollback,
       Tables!AtOrBelow, Tables!Conflicting, Tables!Lanes

LEMMA InitSame ==
    ASSUME IndexInit PROVE Tables!StoreInit
BY DEF IndexInit, NoHistory, EmptyHistory, NoHash, Lanes, Tables!StoreInit,
       Tables!EmptyHistory, Tables!NoHash, Tables!Lanes

-----------------------------------------------------------------------------
(* The invariant that makes every transaction's arguments admissible.      *)

JobType ==
    [seen : Hashes, epoch : Nat, first : Int, last : Int,
     heads : SUBSET Hashes, logs : SUBSET Hashes, below : BOOLEAN, cut : BOOLEAN]

HistoryType ==
    [init : BOOLEAN, nextTo : -1..MaxHeight, low : Nat, hash : Hashes,
     target : 0..MaxHeight, pending : BOOLEAN, origin : 0..MaxHeight,
     complete : BOOLEAN, scanned : BOOLEAN]

FixType == [ancestor : Hashes, prior : HistoryType]

IndexTypes ==
    /\ chain \in Hashes
    /\ forks \in 0..MaxForks
    /\ blocks \subseteq Hashes
    /\ events \subseteq Hashes
    /\ live \in LiveCursor
    /\ history \in HistoryType
    /\ epoch \in Nat
    /\ place \in [Workers -> Labels]
    /\ job \in [Workers -> JobType]
    /\ fix \in FixType

\* The boundary headers of the interval a worker fetches or is about to store,
\* and no header outside it.
Bounded(j) ==
    /\ \E h \in j.heads : Len(h) = j.first
    /\ \E h \in j.heads : Len(h) = j.last
    /\ \A h \in j.heads : Len(h) \in j.first..j.last

\* What a worker holds, by its place p: its reading of the epoch is not ahead
\* of the store's e, a fetched interval has its boundaries, its logs lie inside
\* it and, once confirmed, in blocks whose headers it holds.
Held(j, p, e) ==
    /\ j.epoch <= e
    /\ p \in {"logs", "confirm", "join", "store"} => Bounded(j)
    /\ p = "confirm" => \A h \in j.logs : Len(h) \in j.first..j.last
    /\ p \in {"join", "store"} => j.logs \subseteq j.heads
    /\ p = "bootHistory" => j.last \in 0..MaxHeight
    /\ p = "origin" => j.last \in -1..MaxHeight

Holds(w) == Held(job[w], place[w], epoch)

IndexInv == IndexTypes /\ \A w \in Workers : Holds(w)

\* One transaction of the abstract store, or none.
StoreStep == Tables!StoreNext \/ UNCHANGED tables

LEMMA Genesis == <<>> \in Hashes
<1>1. <<>> \in Seq(0..MaxForks) /\ Len(<<>>) = 0
    OBVIOUS
<1>2. Len(<<>>) <= MaxHeight
    BY <1>1, ChainAssumption
<1> QED
    BY <1>1, <1>2, SeqIsHash

LEMMA NoJobType == NoJob \in JobType
    BY Genesis DEF NoJob, JobType

LEMMA NoHistoryType == NoHistory \in HistoryType
<1>1. NoHash \in Hashes
    BY Genesis DEF NoHash
<1> QED
    BY <1>1, ChainAssumption DEF NoHistory, EmptyHistory, HistoryType

LEMMA InitHolds == IndexInit => IndexInv
<1> SUFFICES ASSUME IndexInit PROVE IndexInv
    OBVIOUS
<1>1. chain \in Hashes
  <2> DEFINE c == [n \in 1..StartHeight |-> 0]
  <2>1. c \in Seq(0..MaxForks) /\ Len(c) = StartHeight
      BY ChainAssumption
  <2> HIDE DEF c
  <2>2. Len(c) <= MaxHeight
      BY <2>1, ChainAssumption
  <2>3. c \in Hashes
      BY <2>1, <2>2, SeqIsHash
  <2> QED
      BY <2>3 DEF c, IndexInit, ChainInit
<1>2. NoHash \in Hashes
    BY Genesis DEF NoHash
<1>3. IndexTypes
  <2>1. place \in [Workers -> Labels]
      BY DEF IndexInit, Labels
  <2>2. job \in [Workers -> JobType]
      BY NoJobType DEF IndexInit
  <2>3. live \in LiveCursor /\ fix \in FixType /\ history \in HistoryType
      BY <1>2, NoHistoryType, Genesis DEF IndexInit, LiveCursor, FixType, NoFix
  <2> QED
      BY <1>1, <2>1, <2>2, <2>3, ChainAssumption DEF IndexInit, ChainInit, IndexTypes
<1>4. ASSUME NEW w \in Workers PROVE Holds(w)
    BY DEF IndexInit, Holds, Held, NoJob
<1> QED
    BY <1>3, <1>4 DEF IndexInv

-----------------------------------------------------------------------------
(* A step of one worker w, to place p with the locals j.                   *)

LEMMA Moves ==
    ASSUME IndexInv, NEW w \in Workers, NEW j \in JobType, NEW p \in Labels,
           job' = [job EXCEPT ![w] = j], place' = [place EXCEPT ![w] = p],
           Held(j, p, epoch'),
           chain' = chain, forks' = forks, fix' \in FixType,
           blocks' \subseteq Hashes, events' \subseteq Hashes,
           live' \in LiveCursor, history' \in HistoryType,
           epoch' \in Nat, epoch <= epoch'
    PROVE  IndexInv'
<1>1. place' \in [Workers -> Labels] /\ job' \in [Workers -> JobType]
    BY DEF IndexInv, IndexTypes
<1>2. IndexTypes'
    BY <1>1 DEF IndexInv, IndexTypes
<1>3. ASSUME NEW v \in Workers PROVE Holds(v)'
  <2>1. CASE v = w
    <3>1. job'[v] = j /\ place'[v] = p
        BY <2>1 DEF IndexInv, IndexTypes
    <3> QED
        BY <3>1 DEF Holds
  <2>2. CASE v # w
    <3>1. job'[v] = job[v] /\ place'[v] = place[v]
        BY <2>2 DEF IndexInv, IndexTypes
    <3>2. job[v] \in JobType /\ epoch \in Nat
        BY DEF IndexInv, IndexTypes
    <3>3. Held(job[v], place[v], epoch) => Held(job[v], place[v], epoch')
        BY <3>2 DEF Held, JobType
    <3> QED
        BY <3>1, <3>3 DEF Holds, IndexInv
  <2> QED
      BY <2>1, <2>2
<1> QED
    BY <1>2, <1>3 DEF IndexInv

LEMMA Quiet ==
    ASSUME IndexInv, NEW w \in Workers, NEW j \in JobType, NEW p \in Labels,
           job' = [job EXCEPT ![w] = j], place' = [place EXCEPT ![w] = p],
           Held(j, p, epoch), UNCHANGED chainVars, UNCHANGED tables,
           fix' \in FixType
    PROVE  IndexInv' /\ StoreStep
<1>1. chain' = chain /\ forks' = forks
    BY DEF chainVars
<1>2. /\ blocks' = blocks /\ events' = events /\ live' = live
      /\ history' = history /\ epoch' = epoch
    BY DEF tables
<1>3. /\ blocks \subseteq Hashes /\ events \subseteq Hashes
      /\ live \in LiveCursor /\ history \in HistoryType /\ epoch \in Nat
    BY DEF IndexInv, IndexTypes
<1>4. Held(j, p, epoch')
    BY <1>2
<1>5. epoch <= epoch'
    BY <1>2, <1>3
<1>6. IndexInv'
    BY <1>1, <1>2, <1>3, <1>4, <1>5, Moves
<1> QED
    BY <1>6 DEF StoreStep

LEMMA Types ==
    ASSUME IndexInv
    PROVE  /\ chain \in Hashes /\ Len(chain) \in 0..MaxHeight
           /\ "live" \in Workers
           /\ fix \in FixType /\ epoch \in Nat
           /\ \A w \in Workers : job[w] \in JobType /\ place[w] \in Labels
           /\ \A w \in Workers : Holds(w)
BY HashLength, IndexAssumption DEF IndexInv, IndexTypes

LEMMA HeadsInChain ==
    ASSUME IndexInv, NEW head \in Heads
    PROVE  head \in 0..Len(chain) /\ head \in 0..MaxHeight
<1>1. Len(chain) \in 0..MaxHeight /\ MaxHeight \in Nat /\ MaxLag \in Nat
    BY Types, ChainAssumption, IndexAssumption
<1> QED
    BY <1>1 DEF Heads, Higher

\* An iteration or a recovery ends: the worker is idle with no locals.
LEMMA Finishes ==
    ASSUME IndexInv, NEW w \in Workers, Finish(w), UNCHANGED chainVars,
           UNCHANGED tables, fix' \in FixType
    PROVE  IndexInv' /\ StoreStep
<1>1. "idle" \in Labels
    BY DEF Labels
<1>2. Held(NoJob, "idle", epoch)
    BY Types DEF Held, NoJob
<1> QED
    BY <1>1, <1>2, NoJobType, Quiet DEF Finish, Goto

LEMMA GiveUpStep ==
    ASSUME IndexInv, NEW w \in Workers, GiveUp(w)
    PROVE  IndexInv' /\ StoreStep
BY Finishes, Types DEF GiveUp

LEMMA RecoverSkipsStep ==
    ASSUME IndexInv, NEW w \in Workers, RecoverSkips(w)
    PROVE  IndexInv' /\ StoreStep
BY Finishes, Types DEF RecoverSkips

LEMMA RecoverFailsStep ==
    ASSUME IndexInv, NEW w \in Workers, RecoverFails(w)
    PROVE  IndexInv' /\ StoreStep
<1>1. NoFix \in FixType
    BY Genesis, NoHistoryType DEF NoFix, FixType
<1> QED
    BY <1>1, Finishes DEF RecoverFails

\* A worker changes its place and keeps its locals.
LEMMA Turns ==
    ASSUME IndexInv, NEW w \in Workers, NEW p \in Labels, Goto(w, p),
           UNCHANGED <<chainVars, tables, job, fix>>, Held(job[w], p, epoch)
    PROVE  IndexInv' /\ StoreStep
<1>1. job' = [job EXCEPT ![w] = job[w]] /\ job[w] \in JobType
    BY DEF IndexInv, IndexTypes
<1> QED
    BY <1>1, Quiet, Types DEF Goto

LEMMA LiveDivergesStep ==
    ASSUME IndexInv, LiveDiverges PROVE IndexInv' /\ StoreStep
<1>1. Held(job["live"], "conflict", epoch) /\ Held(job["live"], "observed", epoch)
    BY Types DEF Holds, Held
<1>2. "conflict" \in Labels /\ "observed" \in Labels
    BY DEF Labels, Repairing
<1> QED
    BY <1>1, <1>2, Turns, Types DEF LiveDiverges

LEMMA LiveRefusedStep ==
    ASSUME IndexInv, LiveRefused PROVE IndexInv' /\ StoreStep
<1>1. Held(job["live"], "conflict", epoch)
    BY Types DEF Holds, Held
<1>2. "conflict" \in Labels
    BY DEF Labels, Repairing
<1> QED
    BY <1>1, <1>2, Turns, Types DEF LiveRefused

LEMMA HistoryJoinStep ==
    ASSUME IndexInv, "history" \in Workers, HistoryJoin
    PROVE  IndexInv' /\ StoreStep
<1>1. Held(job["history"], "store", epoch) /\ Held(job["history"], "anchored", epoch)
    BY Types DEF Holds, Held, HistoryJoin
<1>2. "store" \in Labels /\ "anchored" \in Labels
    BY DEF Labels, Repairing, Scanning
<1>3. Goto("history", "store") \/ Goto("history", "anchored")
    BY DEF HistoryJoin
<1> QED
    BY <1>1, <1>2, <1>3, Turns, Types DEF HistoryJoin

-----------------------------------------------------------------------------
(* Reading: steps that take new locals and leave the tables alone.         *)

LEMMA NewJob ==
    ASSUME NEW seen \in Hashes, NEW e \in Nat, NEW first \in Int,
           NEW last \in Int, NEW hs \in SUBSET Hashes, NEW below \in BOOLEAN
    PROVE  [NoJob EXCEPT !.seen = seen, !.epoch = e, !.first = first,
                         !.last = last, !.heads = hs, !.below = below] \in JobType
<1>1. \A i \in JobType :
         [i EXCEPT !.seen = seen, !.epoch = e, !.first = first,
                   !.last = last, !.heads = hs, !.below = below] \in JobType
    BY DEF JobType
<1> QED
    BY <1>1, NoJobType

LEMMA NewLiveJob ==
    ASSUME NEW seen \in Hashes, NEW e \in Nat, NEW first \in Int,
           NEW last \in Int, NEW hs \in SUBSET Hashes
    PROVE  [NoJob EXCEPT !.seen = seen, !.epoch = e, !.first = first,
                         !.last = last, !.heads = hs] \in JobType
<1>1. \A i \in JobType :
         [i EXCEPT !.seen = seen, !.epoch = e, !.first = first,
                   !.last = last, !.heads = hs] \in JobType
    BY DEF JobType
<1> QED
    BY <1>1, NoJobType

LEMMA NewOriginJob ==
    ASSUME NEW e \in Nat, NEW last \in Int, NEW hs \in SUBSET Hashes
    PROVE  [NoJob EXCEPT !.epoch = e, !.last = last, !.heads = hs] \in JobType
<1>1. \A i \in JobType :
         [i EXCEPT !.epoch = e, !.last = last, !.heads = hs] \in JobType
    BY DEF JobType
<1> QED
    BY <1>1, NoJobType

LEMMA LiveCompareStep ==
    ASSUME IndexInv, LiveCompare PROVE IndexInv' /\ StoreStep
<1> DEFINE j == [NoJob EXCEPT !.seen = live.at]
<1>1. j \in JobType
    BY NoJobType DEF JobType, IndexInv, IndexTypes, LiveCursor
<1>2. Held(j, "observed", epoch) /\ "observed" \in Labels
    BY Types DEF Held, NoJob, Labels, Repairing
<1>3. job' = [job EXCEPT !["live"] = j]
    BY DEF LiveCompare
<1> QED
    BY <1>1, <1>2, <1>3, Quiet, Types DEF LiveCompare, Goto

LEMMA EnrichFindsOrphanStep ==
    ASSUME IndexInv, "enrich" \in Workers, EnrichFindsOrphan
    PROVE  IndexInv' /\ StoreStep
<1>1. PICK e \in events : job' = [job EXCEPT !["enrich"] = [NoJob EXCEPT !.seen = e]]
    BY DEF EnrichFindsOrphan
<1> DEFINE j == [NoJob EXCEPT !.seen = e]
<1>2. j \in JobType
    BY NoJobType DEF JobType, IndexInv, IndexTypes
<1>3. Held(j, "anchored", epoch) /\ "anchored" \in Labels
    BY Types DEF Held, NoJob, Labels, Repairing
<1> QED
    BY <1>1, <1>2, <1>3, Quiet, Types DEF EnrichFindsOrphan, Goto

LEMMA BootFailsStep ==
    ASSUME IndexInv, BootFails PROVE IndexInv' /\ StoreStep
<1>1. Held(NoJob, "boot", epoch) /\ "boot" \in Labels
    BY Types DEF Held, NoJob, Labels
<1> QED
    BY <1>1, NoJobType, Quiet, Types DEF BootFails, Goto

\* Boundary headers read from the chain for an interval below its head.
LEMMA Boundaries ==
    ASSUME IndexInv, NEW first \in Nat, NEW last \in Nat, first <= last,
           last <= Len(chain), NEW j \in JobType,
           j.first = first, j.last = last, j.heads = {At(first), At(last)}
    PROVE  Bounded(j)
<1>1. /\ At(first) \in Hashes /\ Len(At(first)) = first
      /\ At(last) \in Hashes /\ Len(At(last)) = last
    BY Types, AtIsHash
<1> QED
    BY <1>1 DEF Bounded

LEMMA LiveFetchStep ==
    ASSUME IndexInv, LiveFetch PROVE IndexInv' /\ StoreStep
<1> DEFINE J(last) == [NoJob EXCEPT !.seen = live.at, !.epoch = epoch,
                          !.first = Len(live.at) + 1, !.last = last,
                          !.heads = {At(Len(live.at) + 1), At(last)}]
<1>1. PICK head \in Heads :
         \E last \in (Len(live.at) + 1)..Lower(head, Len(live.at) + LiveChunk) :
            job' = [job EXCEPT !["live"] = J(last)]
    BY DEF LiveFetch
<1>2. PICK last \in (Len(live.at) + 1)..Lower(head, Len(live.at) + LiveChunk) :
         job' = [job EXCEPT !["live"] = J(last)]
    BY <1>1
<1>3. live.at \in Hashes /\ Len(live.at) \in Nat
    BY HashLength DEF IndexInv, IndexTypes, LiveCursor
<1>4. Len(live.at) + 1 \in Nat /\ last \in Nat /\ last <= Len(chain)
      /\ Len(live.at) + 1 <= last
  <2>1. head \in 0..Len(chain) /\ Len(chain) \in Nat /\ LiveChunk \in Nat
      BY HeadsInChain, Types, IndexAssumption
  <2> HIDE DEF J
  <2> QED
      BY <1>3, <2>1 DEF Lower
<1>5. At(Len(live.at) + 1) \in Hashes /\ At(last) \in Hashes
    BY <1>3, <1>4, AtIsHash, Types
<1>6. J(last) \in JobType
  <2>1. {At(Len(live.at) + 1), At(last)} \in SUBSET Hashes /\ epoch \in Nat
      BY <1>5, Types
  <2>2. live.at \in Hashes /\ Len(live.at) + 1 \in Int /\ last \in Int
      BY <1>3, <1>4
  <2> QED
      BY <2>1, <2>2, NewLiveJob, Zenon
<1>7. /\ J(last).first = Len(live.at) + 1 /\ J(last).last = last
      /\ J(last).heads = {At(Len(live.at) + 1), At(last)}
      /\ J(last).epoch = epoch
    BY DEF NoJob
<1> HIDE DEF J
<1>8. Bounded(J(last))
    BY <1>4, <1>6, <1>7, Boundaries
<1>9. Held(J(last), "logs", epoch) /\ "logs" \in Labels
    BY <1>7, <1>8, Types DEF Held, Labels, Scanning
<1> QED
    BY <1>2, <1>6, <1>9, Quiet, Types DEF LiveFetch, Goto

LEMMA HistoryFetchStep ==
    ASSUME IndexInv, "history" \in Workers, HistoryFetch
    PROVE  IndexInv' /\ StoreStep
<1> DEFINE last == history.nextTo
           J(first) == [NoJob EXCEPT !.seen = history.hash, !.epoch = epoch,
                          !.first = first, !.last = history.nextTo,
                          !.heads = {At(first), At(history.nextTo)},
                          !.below = history.scanned]
<1>1. PICK first \in Higher(history.target, history.nextTo - HistoryChunk + 1)
                       ..history.nextTo :
         job' = [job EXCEPT !["history"] = J(first)]
    BY DEF HistoryFetch
<1>2. /\ history.hash \in Hashes /\ history.scanned \in BOOLEAN
      /\ history.target \in Nat /\ last \in Int
    BY ChainAssumption DEF IndexInv, IndexTypes, HistoryType
<1>3. first \in Nat /\ last \in Nat /\ first <= last /\ last <= Len(chain)
  <2>1. last <= Len(chain) /\ Len(chain) \in Nat /\ HistoryChunk \in Nat
      BY Types, IndexAssumption DEF HistoryFetch
  <2> HIDE DEF J
  <2> QED
      BY <1>2, <2>1 DEF Higher
<1>4. At(first) \in Hashes /\ At(last) \in Hashes
    BY <1>3, AtIsHash, Types
<1>5. J(first) \in JobType
  <2>1. {At(first), At(last)} \in SUBSET Hashes /\ epoch \in Nat
      BY <1>4, Types
  <2>2. /\ history.hash \in Hashes /\ first \in Int /\ history.nextTo \in Int
        /\ history.scanned \in BOOLEAN
      BY <1>2, <1>3
  <2> QED
      BY <2>1, <2>2, NewJob, Zenon
<1>6. /\ J(first).first = first /\ J(first).last = last
      /\ J(first).heads = {At(first), At(last)} /\ J(first).epoch = epoch
    BY DEF NoJob
<1> HIDE DEF J
<1>7. Bounded(J(first))
    BY <1>3, <1>5, <1>6, Boundaries
<1>8. Held(J(first), "logs", epoch) /\ "logs" \in Labels
    BY <1>6, <1>7, Types DEF Held, Labels, Scanning
<1> QED
    BY <1>1, <1>5, <1>8, Quiet, Types DEF HistoryFetch, Goto

LEMMA HistoryReadOriginStep ==
    ASSUME IndexInv, "history" \in Workers, HistoryReadOrigin
    PROVE  IndexInv' /\ StoreStep
<1> DEFINE j == [NoJob EXCEPT !.epoch = epoch, !.last = history.nextTo,
                              !.heads = {At(history.origin)}]
<1>1. history.nextTo \in -1..MaxHeight /\ history.origin \in 0..MaxHeight
    BY DEF IndexInv, IndexTypes, HistoryType
<1>2. At(history.origin) \in Hashes
    BY <1>1, AtIsHash, Types, ChainAssumption DEF HistoryReadOrigin
<1>3. j \in JobType
  <2>1. {At(history.origin)} \in SUBSET Hashes /\ epoch \in Nat
      BY <1>2, Types
  <2>2. history.nextTo \in Int
      BY <1>1, ChainAssumption
  <2> QED
      BY <2>1, <2>2, NewOriginJob
<1>4. Held(j, "origin", epoch) /\ "origin" \in Labels
    BY <1>1, Types DEF Held, NoJob, Labels, Scanning
<1>5. job' = [job EXCEPT !["history"] = j]
    BY DEF HistoryReadOrigin
<1> QED
    BY <1>3, <1>4, <1>5, Quiet, Types DEF HistoryReadOrigin, Goto

LEMMA ReadLogsStep ==
    ASSUME IndexInv, NEW w \in Workers, ReadLogs(w)
    PROVE  IndexInv' /\ StoreStep
<1> DEFINE last == Lower(job[w].last, Len(chain))
           logs == { h \in { At(n) : n \in job[w].first..last } : HasLogs(h) }
           j == [job[w] EXCEPT !.logs = logs]
<1>1. job[w] \in JobType /\ Bounded(job[w]) /\ job[w].epoch <= epoch
    BY Types DEF Holds, Held, ReadLogs
<1>2. job[w].first \in Nat /\ job[w].last \in Nat
  <2>1. \A h \in job[w].heads : Len(h) \in Nat
      BY <1>1, HashLength DEF JobType
  <2> QED
      BY <1>1, <2>1 DEF Bounded
<1>3. last \in Int /\ last <= Len(chain) /\ last <= job[w].last
    BY <1>2, Types DEF Lower
<1>4. \A n \in job[w].first..last : At(n) \in Hashes /\ Len(At(n)) = n
  <2>1. \A n \in job[w].first..last : n \in 0..Len(chain)
      BY <1>2, <1>3, Types
  <2> QED
      BY <2>1, AtIsHash, Types
<1>5. logs \subseteq Hashes /\ \A h \in logs : Len(h) \in job[w].first..job[w].last
    BY <1>2, <1>3, <1>4
<1>6. job' = [job EXCEPT ![w] = j]
    BY DEF ReadLogs
<1> HIDE DEF last, logs
<1>7. /\ j \in JobType /\ j.logs = logs /\ j.first = job[w].first
      /\ j.last = job[w].last /\ j.heads = job[w].heads /\ j.epoch = job[w].epoch
    BY <1>1, <1>5 DEF JobType
<1> HIDE DEF j
<1>8. Held(j, "confirm", epoch) /\ "confirm" \in Labels
    BY <1>1, <1>5, <1>7 DEF Held, Bounded, Labels, Scanning
<1> QED
    BY <1>6, <1>7, <1>8, Quiet, Types DEF ReadLogs, Goto

\* The headers a worker holds after the confirmation wave.
LEMMA ConfirmedHeads ==
    ASSUME IndexInv, NEW w \in Workers, place[w] = "confirm",
           job[w].last <= Len(chain)
    PROVE  /\ ConfirmHeads(w) \subseteq Hashes
           /\ job[w].heads \subseteq ConfirmHeads(w)
           /\ \A h \in ConfirmHeads(w) : Len(h) \in job[w].first..job[w].last
           /\ job[w].first \in Nat /\ job[w].last \in Nat
<1>1. /\ job[w] \in JobType /\ Bounded(job[w])
      /\ \A h \in job[w].logs : Len(h) \in job[w].first..job[w].last
    BY Types DEF Holds, Held
<1>2. job[w].first \in Nat /\ job[w].last \in Nat
  <2>1. \A h \in job[w].heads : Len(h) \in Nat
      BY <1>1, HashLength DEF JobType
  <2> QED
      BY <1>1, <2>1 DEF Bounded
<1> DEFINE missing == { Len(h) : h \in job[w].logs } \ { Len(h) : h \in job[w].heads }
<1>3. \A n \in missing : At(n) \in Hashes /\ Len(At(n)) = n
                         /\ n \in job[w].first..job[w].last
  <2>1. \A n \in missing : n \in job[w].first..job[w].last /\ n \in 0..Len(chain)
      BY <1>1, <1>2, Types
  <2> QED
      BY <2>1, AtIsHash, Types
<1>4. ConfirmHeads(w) = job[w].heads \cup { At(n) : n \in missing }
    BY DEF ConfirmHeads
<1> HIDE DEF missing
<1> QED
    BY <1>1, <1>2, <1>3, <1>4 DEF JobType, Bounded

LEMMA LiveConfirmStep ==
    ASSUME IndexInv, LiveConfirm PROVE IndexInv' /\ StoreStep
<1> DEFINE old == job["live"]
           J(last) == [old EXCEPT
                         !.last = last,
                         !.logs = { h \in old.logs : Len(h) <= last },
                         !.heads = { h \in ConfirmHeads("live") : Len(h) <= last }]
<1>1. PICK last \in {old.last} \cup { Len(h) : h \in old.logs } :
         job' = [job EXCEPT !["live"] = J(last)]
    BY DEF LiveConfirm
<1>2. /\ ConfirmHeads("live") \subseteq Hashes
      /\ old.heads \subseteq ConfirmHeads("live")
      /\ \A h \in ConfirmHeads("live") : Len(h) \in old.first..old.last
      /\ old.first \in Nat /\ old.last \in Nat
    BY ConfirmedHeads, Types DEF LiveConfirm
<1>3. old \in JobType /\ Bounded(old) /\ old.epoch <= epoch
      /\ \A h \in old.logs : Len(h) \in old.first..old.last
    BY Types DEF Holds, Held, LiveConfirm
<1>4. old.logs \subseteq ConfirmHeads("live")
    BY DEF LiveConfirm, Confirmed
<1>5. last \in old.first..old.last
  <2>1. PICK h \in old.heads : Len(h) = old.first
      BY <1>3 DEF Bounded
  <2>2. old.last \in old.first..old.last
      BY <1>2, <1>3, <2>1 DEF Bounded
  <2> QED
      BY <1>3, <2>2
<1>6. \E h \in ConfirmHeads("live") : Len(h) = last
  <2>1. CASE last = old.last
      BY <1>2, <1>3, <2>1 DEF Bounded
  <2>2. CASE \E h \in old.logs : last = Len(h)
      BY <1>4, <2>2
  <2> QED
      BY <2>1, <2>2
<1>7. \E h \in ConfirmHeads("live") : Len(h) = old.first
    BY <1>2, <1>3 DEF Bounded
<1> DEFINE hs == { h \in ConfirmHeads("live") : Len(h) <= last }
           ls == { h \in old.logs : Len(h) <= last }
<1>8. hs \in SUBSET Hashes /\ ls \in SUBSET Hashes /\ ls \subseteq hs /\ last \in Int
    BY <1>2, <1>4, <1>5
<1>9. /\ \E h \in hs : Len(h) = old.first
      /\ \E h \in hs : Len(h) = last
      /\ \A h \in hs : Len(h) \in old.first..last
    BY <1>2, <1>5, <1>6, <1>7
<1>10. J(last) = [old EXCEPT !.last = last, !.logs = ls, !.heads = hs]
    OBVIOUS
<1> HIDE DEF hs, ls, J
<1>11. /\ J(last) \in JobType /\ J(last).first = old.first /\ J(last).last = last
       /\ J(last).heads = hs /\ J(last).logs = ls /\ J(last).epoch = old.epoch
    BY <1>3, <1>8, <1>10 DEF JobType
<1>12. Held(J(last), "store", epoch) /\ "store" \in Labels
    BY <1>3, <1>8, <1>9, <1>11 DEF Held, Bounded, Labels, Scanning
<1> QED
    BY <1>1, <1>11, <1>12, Quiet, Types DEF LiveConfirm, Goto

LEMMA HistoryConfirmStep ==
    ASSUME IndexInv, "history" \in Workers, HistoryConfirm
    PROVE  IndexInv' /\ StoreStep
<1> DEFINE old == job["history"]
           J(first) == [old EXCEPT
                          !.first = first,
                          !.cut = first # old.first,
                          !.logs = { h \in old.logs : Len(h) >= first },
                          !.heads = { h \in ConfirmHeads("history") : Len(h) >= first }]
<1>1. PICK first \in {old.first} \cup { Len(h) : h \in old.logs } :
         job' = [job EXCEPT !["history"] = J(first)]
    BY DEF HistoryConfirm
<1>2. /\ ConfirmHeads("history") \subseteq Hashes
      /\ old.heads \subseteq ConfirmHeads("history")
      /\ \A h \in ConfirmHeads("history") : Len(h) \in old.first..old.last
      /\ old.first \in Nat /\ old.last \in Nat
    BY ConfirmedHeads, Types DEF HistoryConfirm
<1>3. old \in JobType /\ Bounded(old) /\ old.epoch <= epoch
      /\ \A h \in old.logs : Len(h) \in old.first..old.last
    BY Types DEF Holds, Held, HistoryConfirm
<1>4. old.logs \subseteq ConfirmHeads("history")
    BY DEF HistoryConfirm, Confirmed
<1>5. first \in old.first..old.last
  <2>1. PICK h \in old.heads : Len(h) = old.last
      BY <1>3 DEF Bounded
  <2>2. old.first \in old.first..old.last
      BY <1>2, <1>3, <2>1 DEF Bounded
  <2> QED
      BY <1>3, <2>2
<1>6. \E h \in ConfirmHeads("history") : Len(h) = first
  <2>1. CASE first = old.first
      BY <1>2, <1>3, <2>1 DEF Bounded
  <2>2. CASE \E h \in old.logs : first = Len(h)
      BY <1>4, <2>2
  <2> QED
      BY <2>1, <2>2
<1>7. \E h \in ConfirmHeads("history") : Len(h) = old.last
    BY <1>2, <1>3 DEF Bounded
<1> DEFINE hs == { h \in ConfirmHeads("history") : Len(h) >= first }
           ls == { h \in old.logs : Len(h) >= first }
           cut == first # old.first
<1>8. /\ hs \in SUBSET Hashes /\ ls \in SUBSET Hashes /\ ls \subseteq hs
      /\ first \in Int /\ cut \in BOOLEAN
    BY <1>2, <1>4, <1>5
<1>9. /\ \E h \in hs : Len(h) = first
      /\ \E h \in hs : Len(h) = old.last
      /\ \A h \in hs : Len(h) \in first..old.last
    BY <1>2, <1>5, <1>6, <1>7
<1>10. J(first) = [old EXCEPT !.first = first, !.cut = cut, !.logs = ls, !.heads = hs]
    OBVIOUS
<1> HIDE DEF hs, ls, cut, J
<1>11. /\ J(first) \in JobType /\ J(first).first = first /\ J(first).last = old.last
       /\ J(first).heads = hs /\ J(first).logs = ls /\ J(first).epoch = old.epoch
    BY <1>3, <1>8, <1>10 DEF JobType
<1>12. Held(J(first), "join", epoch) /\ "join" \in Labels
    BY <1>3, <1>8, <1>9, <1>11 DEF Held, Bounded, Labels, Scanning
<1> QED
    BY <1>1, <1>11, <1>12, Quiet, Types DEF HistoryConfirm, Goto

-----------------------------------------------------------------------------
(* Storing: each transaction is one of the store's, with arguments the     *)
(* store allows.                                                           *)

LEMMA HeaderFound ==
    ASSUME NEW hs, NEW n, \E h \in hs : Len(h) = n
    PROVE  HeaderAt(hs, n) \in hs /\ Len(HeaderAt(hs, n)) = n
BY DEF HeaderAt

\* The interval a worker is about to store.
LEMMA StoredInterval ==
    ASSUME IndexInv, NEW w \in Workers, place[w] = "store",
           NEW first, NEW last,
           first = HeaderAt(job[w].heads, job[w].first),
           last = HeaderAt(job[w].heads, job[w].last)
    PROVE  /\ job[w].heads \in SUBSET Hashes
           /\ job[w].logs \in SUBSET job[w].heads
           /\ job[w].epoch \in 0..epoch
           /\ first \in job[w].heads /\ last \in job[w].heads
           /\ Len(first) = job[w].first /\ Len(last) = job[w].last
           /\ Tables!Interval(job[w].heads, job[w].logs, first, last)
<1>1. /\ job[w] \in JobType /\ Bounded(job[w]) /\ job[w].logs \subseteq job[w].heads
      /\ job[w].epoch <= epoch
    BY Types DEF Holds, Held
<1>2. /\ first \in job[w].heads /\ last \in job[w].heads
      /\ Len(first) = job[w].first /\ Len(last) = job[w].last
    BY <1>1, HeaderFound DEF Bounded
<1>3. Tables!Interval(job[w].heads, job[w].logs, first, last)
    BY <1>1, <1>2 DEF Tables!Interval, HashNumber, Bounded
<1> QED
    BY <1>1, <1>2, <1>3, Types DEF JobType

\* A transaction is committed and the worker is idle, or goes on to place p
\* with the locals j.
LEMMA FinishMoves ==
    ASSUME IndexInv, NEW w \in Workers, Finish(w),
           UNCHANGED chainVars, fix' \in FixType,
           blocks' \subseteq Hashes, events' \subseteq Hashes,
           live' \in LiveCursor, history' \in HistoryType,
           epoch' \in Nat, epoch <= epoch'
    PROVE  IndexInv'
<1>1. Held(NoJob, "idle", epoch') /\ "idle" \in Labels
    BY DEF Held, NoJob, Labels
<1> QED
    BY <1>1, NoJobType, Moves DEF Finish, Goto, chainVars

LEMMA LiveStoreStep ==
    ASSUME IndexInv, LiveStore PROVE IndexInv' /\ StoreStep
<1> DEFINE j == job["live"]
           first == HeaderAt(j.heads, j.first)
           last == HeaderAt(j.heads, j.last)
<1>1. IngestLive(j.heads, j.logs, first, last, j.seen, j.epoch)
    BY DEF LiveStore
<1>2. /\ j.heads \in SUBSET Hashes /\ j.logs \in SUBSET j.heads
      /\ j.epoch \in 0..epoch /\ first \in j.heads /\ last \in j.heads
      /\ Tables!Interval(j.heads, j.logs, first, last)
    BY StoredInterval, Types DEF LiveStore
<1>3. j.seen \in Hashes
    BY Types DEF JobType
<1> HIDE DEF first, last, j
<1>4. StoreStep
  <2>1. Tables!IngestLive(j.heads, j.logs, first, last, j.seen, j.epoch)
      BY <1>1, LiveIngestSame
  <2> QED
      BY <1>2, <1>3, <2>1 DEF StoreStep, Tables!StoreNext
<1>5. /\ blocks' = blocks \cup j.heads /\ events' = events \cup j.logs
      /\ live' = [init |-> TRUE, at |-> last] /\ history' = history /\ epoch' = epoch
    BY <1>1 DEF IngestLive, StoreHeaders
<1>6. IndexInv'
  <2>1. blocks' \subseteq Hashes /\ events' \subseteq Hashes
      BY <1>2, <1>5 DEF IndexInv, IndexTypes
  <2>2. live' \in LiveCursor
      BY <1>2, <1>5 DEF LiveCursor
  <2>3. history' \in HistoryType /\ epoch' \in Nat /\ epoch <= epoch' /\ fix' \in FixType
      BY <1>5 DEF IndexInv, IndexTypes, LiveStore
  <2> QED
      BY <2>1, <2>2, <2>3, FinishMoves, Types DEF LiveStore
<1> QED
    BY <1>4, <1>6

LEMMA HistoryStoreStep ==
    ASSUME IndexInv, "history" \in Workers, HistoryStore
    PROVE  IndexInv' /\ StoreStep
<1> DEFINE j == job["history"]
           first == HeaderAt(j.heads, j.first)
           last == HeaderAt(j.heads, j.last)
           complete == HashNumber(first) <= history.target
<1>1. IngestHistory(j.heads, j.logs, first, last, j.epoch)
    BY DEF HistoryStore
<1>2. /\ j.heads \in SUBSET Hashes /\ j.logs \in SUBSET j.heads
      /\ j.epoch \in 0..epoch /\ first \in j.heads /\ last \in j.heads
      /\ Tables!Interval(j.heads, j.logs, first, last)
    BY StoredInterval, Types DEF HistoryStore
<1> HIDE DEF first, last, j
<1>3. StoreStep
  <2>1. Tables!IngestHistory(j.heads, j.logs, first, last, j.epoch)
      BY <1>1, HistoryIngestSame
  <2> QED
      BY <1>2, <2>1, Genesis DEF StoreStep, Tables!StoreNext
<1>4. /\ blocks' = blocks \cup j.heads /\ events' = events \cup j.logs
      /\ live' = live /\ epoch' = epoch
      /\ history' = [history EXCEPT !.nextTo = HashNumber(first) - 1,
                        !.low = HashNumber(first), !.hash = first,
                        !.complete = complete, !.scanned = TRUE]
    BY <1>1 DEF IngestHistory, StoreHeaders
<1>5. history' \in HistoryType
  <2>1. /\ first \in Hashes /\ HashNumber(first) \in Nat
        /\ HashNumber(first) - 1 \in -1..MaxHeight /\ complete \in BOOLEAN
      BY <1>2, HashLength, ChainAssumption DEF HashNumber
  <2> HIDE DEF complete
  <2> QED
      BY <1>4, <2>1 DEF IndexInv, IndexTypes, HistoryType
<1>6. IndexInv'
  <2>1. blocks' \subseteq Hashes /\ events' \subseteq Hashes
      BY <1>2, <1>4 DEF IndexInv, IndexTypes
  <2>2. live' \in LiveCursor /\ epoch' \in Nat /\ epoch <= epoch' /\ fix' \in FixType
      BY <1>4 DEF IndexInv, IndexTypes, HistoryStore
  <2> QED
      BY <1>5, <2>1, <2>2, FinishMoves, Types DEF HistoryStore
<1> QED
    BY <1>3, <1>6

LEMMA HistoryResolveStep ==
    ASSUME IndexInv, "history" \in Workers, HistoryResolve
    PROVE  IndexInv' /\ StoreStep
<1> DEFINE j == job["history"]
<1>1. /\ j \in JobType /\ j.epoch <= epoch /\ j.last \in -1..MaxHeight
    BY Types DEF Holds, Held, HistoryResolve
<1>2. PICK origin \in j.heads :
         ResolveTarget(origin, Higher(0, Len(origin) - Lookback), j.last, j.epoch)
    BY DEF HistoryResolve
<1> DEFINE target == Higher(0, Len(origin) - Lookback)
           complete == j.last < target
<1>3. origin \in Hashes /\ j.epoch \in 0..epoch /\ j.last \in -1..MaxHeight
    BY <1>1, Types DEF JobType
<1>4. target \in 0..MaxHeight /\ complete \in BOOLEAN
    BY <1>3, HashLength, IndexAssumption, ChainAssumption DEF Higher
<1> HIDE DEF target, j
<1>5. j.last \in {-1} \cup { HashNumber(g) : g \in Hashes }
  <2>1. CASE j.last = -1
      BY <2>1
  <2>2. CASE j.last \in 0..MaxHeight
    <3> DEFINE g == [i \in 1..j.last |-> 0]
    <3>1. g \in Seq(0..MaxForks) /\ Len(g) = j.last
        BY <2>2, ChainAssumption
    <3> HIDE DEF g
    <3>2. g \in Hashes
        BY <2>2, <3>1, SeqIsHash, ChainAssumption
    <3> QED
        BY <3>1, <3>2 DEF HashNumber
  <2> QED
      BY <1>3, <2>1, <2>2, ChainAssumption
<1>6. ResolveTarget(origin, target, j.last, j.epoch)
    BY <1>2 DEF target
<1>7. StoreStep
  <2>1. Tables!ResolveTarget(origin, target, j.last, j.epoch)
      BY <1>6, ResolveSame
  <2> QED
      BY <1>3, <1>4, <1>5, <2>1 DEF StoreStep, Tables!StoreNext
<1>8. /\ blocks' = blocks \cup {origin} /\ events' = events
      /\ live' = live /\ epoch' = epoch
      /\ history' = [history EXCEPT !.target = target, !.pending = FALSE,
                                    !.complete = complete]
    BY <1>6 DEF ResolveTarget, StoreHeaders
<1> HIDE DEF complete
<1>9. history' \in HistoryType
    BY <1>4, <1>8 DEF IndexInv, IndexTypes, HistoryType
<1>10. /\ blocks' \subseteq Hashes /\ events' \subseteq Hashes
       /\ live' \in LiveCursor /\ epoch' \in Nat /\ epoch <= epoch' /\ fix' \in FixType
    BY <1>3, <1>8 DEF IndexInv, IndexTypes, HistoryResolve
<1>11. IndexInv'
    BY <1>9, <1>10, FinishMoves, Types DEF HistoryResolve
<1> QED
    BY <1>7, <1>11

\* What storing an anchor header does to the types of the tables.
LEMMA LiveAnchored ==
    ASSUME IndexInv, NEW h \in Hashes, AnchorLive(h)
    PROVE  /\ StoreStep
           /\ blocks' \subseteq Hashes /\ events' \subseteq Hashes
           /\ live' \in LiveCursor /\ history' \in HistoryType
           /\ epoch' \in Nat /\ epoch <= epoch'
<1>1. Tables!AnchorLive(h)
    BY AnchorsSame
<1>2. StoreStep
    BY <1>1 DEF StoreStep, Tables!StoreNext
<1> QED
    BY <1>2 DEF AnchorLive, StoreHeaders, IndexInv, IndexTypes, LiveCursor

LEMMA HistoryAnchored ==
    ASSUME IndexInv, NEW h \in Hashes, ~history.init,
           NEW low \in {Len(h), Len(h) + 1}, NEW target \in 0..MaxHeight,
           NEW origin \in 0..MaxHeight, NEW pending \in BOOLEAN,
           NEW complete \in BOOLEAN, low - 1 \in -1..MaxHeight,
           AnchorHistory(h, FreshHistory(h, low, target, pending, origin, complete))
    PROVE  /\ StoreStep
           /\ blocks' \subseteq Hashes /\ events' \subseteq Hashes
           /\ live' \in LiveCursor /\ history' \in HistoryType
           /\ epoch' \in Nat /\ epoch <= epoch'
<1> DEFINE cursor == FreshHistory(h, low, target, pending, origin, complete)
<1>1. cursor = Tables!FreshHistory(h, low, target, pending, origin, complete)
    BY DEF FreshHistory, Tables!FreshHistory
<1>2. StoreStep
  <2>1. Tables!AnchorHistory(h, cursor)
      BY AnchorsSame
  <2>2. low \in {HashNumber(h), HashNumber(h) + 1}
      BY DEF HashNumber
  <2> HIDE DEF cursor
  <2> QED
      BY <1>1, <2>1, <2>2 DEF StoreStep, Tables!StoreNext
<1>3. cursor \in HistoryType
  <2>1. low \in Nat
      BY HashLength
  <2> QED
      BY <2>1 DEF FreshHistory, HistoryType
<1> HIDE DEF cursor
<1> QED
    BY <1>2, <1>3 DEF AnchorHistory, StoreHeaders, IndexInv, IndexTypes, cursor

LEMMA Untouched ==
    ASSUME IndexInv, UNCHANGED tables
    PROVE  /\ StoreStep
           /\ blocks' \subseteq Hashes /\ events' \subseteq Hashes
           /\ live' \in LiveCursor /\ history' \in HistoryType
           /\ epoch' \in Nat /\ epoch <= epoch'
BY DEF StoreStep, tables, IndexInv, IndexTypes

LEMMA BootLiveStep ==
    ASSUME IndexInv, BootLive PROVE IndexInv' /\ StoreStep
<1>1. PICK head \in Heads :
         /\ job' = [job EXCEPT !["live"] = [NoJob EXCEPT !.last = head]]
         /\ IF live.init THEN UNCHANGED tables ELSE AnchorLive(At(Higher(0, head - 1)))
    BY DEF BootLive
<1>2. head \in 0..Len(chain) /\ head \in 0..MaxHeight /\ Len(chain) \in Nat
    BY HeadsInChain, Types
<1>3. Higher(0, head - 1) \in 0..Len(chain)
    BY <1>2 DEF Higher
<1>4. At(Higher(0, head - 1)) \in Hashes
    BY <1>3, AtIsHash, Types
<1>5. /\ StoreStep
      /\ blocks' \subseteq Hashes /\ events' \subseteq Hashes
      /\ live' \in LiveCursor /\ history' \in HistoryType
      /\ epoch' \in Nat /\ epoch <= epoch'
    BY <1>1, <1>4, LiveAnchored, Untouched
<1> DEFINE j == [NoJob EXCEPT !.last = head]
<1>6. j \in JobType /\ j.last = head /\ j.epoch = 0
  <2>1. head \in Int
      BY <1>2
  <2>2. \A i \in JobType : [i EXCEPT !.last = head] \in JobType
      BY <2>1 DEF JobType
  <2>3. j \in JobType
      BY <2>2, NoJobType
  <2> QED
      BY <2>3 DEF NoJob
<1>7. job' = [job EXCEPT !["live"] = j]
    BY <1>1
<1> HIDE DEF j
<1>8. Held(j, "bootHistory", epoch') /\ "bootHistory" \in Labels
    BY <1>2, <1>5, <1>6 DEF Held, Labels
<1>9. fix' \in FixType
    BY Types DEF BootLive
<1>10. IndexInv'
    BY <1>5, <1>6, <1>7, <1>8, <1>9, Moves, Types DEF BootLive, Goto, chainVars
<1> QED
    BY <1>5, <1>10

LEMMA BootHistoryStep ==
    ASSUME IndexInv, BootHistory PROVE IndexInv' /\ StoreStep
<1> DEFINE head == job["live"].last
           anchor == Higher(0, head - 1)
           target == IF Lookback = 0 THEN head ELSE 0
           pending == Lookback > 0
           complete == Lookback = 0
<1>1. head \in 0..MaxHeight
    BY Types DEF Holds, Held, BootHistory
<1> HIDE DEF head
<1>2. /\ anchor \in 0..MaxHeight /\ target \in 0..MaxHeight
      /\ pending \in BOOLEAN /\ complete \in BOOLEAN
    BY <1>1, ChainAssumption DEF Higher
<1>3. \/ UNCHANGED tables
      \/ /\ ~history.init
         /\ anchor <= Len(chain)
         /\ AnchorHistory(At(anchor), FreshHistory(At(anchor), anchor + 1, target,
                                                   pending, head, complete))
    BY DEF BootHistory, head
<1> HIDE DEF anchor, target, pending, complete
<1>4. /\ StoreStep
      /\ blocks' \subseteq Hashes /\ events' \subseteq Hashes
      /\ live' \in LiveCursor /\ history' \in HistoryType
      /\ epoch' \in Nat /\ epoch <= epoch'
  <2>1. CASE UNCHANGED tables
      BY <2>1, Untouched
  <2>2. CASE /\ ~history.init
             /\ anchor <= Len(chain)
             /\ AnchorHistory(At(anchor), FreshHistory(At(anchor), anchor + 1, target,
                                                       pending, head, complete))
    <3>1. anchor \in 0..Len(chain)
        BY <1>2, <2>2, Types, ChainAssumption
    <3>2. At(anchor) \in Hashes /\ Len(At(anchor)) = anchor
        BY <3>1, AtIsHash, Types
    <3>3. /\ anchor + 1 \in {Len(At(anchor)), Len(At(anchor)) + 1}
          /\ anchor + 1 - 1 \in -1..MaxHeight
        BY <1>2, <3>2, ChainAssumption
    <3> QED
        BY <1>1, <1>2, <2>2, <3>2, <3>3, HistoryAnchored
  <2> QED
      BY <1>3, <2>1, <2>2
<1>5. fix' \in FixType
    BY Types DEF BootHistory
<1>6. IndexInv'
    BY <1>4, <1>5, FinishMoves, Types DEF BootHistory
<1> QED
    BY <1>4, <1>6

-----------------------------------------------------------------------------
(* Recovery: the ancestor it finds is a block, and each of its three       *)
(* transactions is one of the store's.                                     *)

LEMMA CommonAncestorFound ==
    ASSUME chain \in Hashes, NEW h \in Hashes, NEW n \in 0..Len(chain)
    PROVE  CommonAncestor(h, n) \in Hashes
<1> DEFINE shared == { k \in 0..n : k <= Len(h) /\ Ancestor(h, k) = At(k) }
           P(k) == /\ k <= Len(h) /\ Ancestor(h, k) = At(k)
                   /\ \A j \in (k+1)..n : j > Len(h) \/ Ancestor(h, j) # At(j)
<1>1. n \in Nat /\ Len(h) \in Nat
    BY HashLength
<1>2. 0 \in shared
  <2>1. Ancestor(h, 0) = <<>> /\ At(0) = <<>>
      BY SubSeqEmpty DEF Ancestor, At
  <2> QED
      BY <1>1, <2>1
<1>3. shared \in SUBSET (0..n) /\ shared # {}
    BY <1>2
<1>4. PICK k \in shared : \A j \in shared : j <= k
    BY <1>1, <1>3, LargestNumber
<1>5. P(k) /\ k \in 0..n
  <2>1. k \in 0..n /\ k <= Len(h) /\ Ancestor(h, k) = At(k)
      OBVIOUS
  <2>2. ASSUME NEW j \in (k+1)..n PROVE j > Len(h) \/ Ancestor(h, j) # At(j)
    <3>1. j \notin shared /\ j \in 0..n
        BY <1>1, <1>4, <2>1
    <3> QED
        BY <1>1, <3>1
  <2> QED
      BY <2>1, <2>2
<1>6. (CHOOSE i \in 0..n : P(i)) \in 0..n
    BY <1>5
<1>7. CommonAncestor(h, n) = At(CHOOSE i \in 0..n : P(i))
    BY DEF CommonAncestor
<1> HIDE DEF P
<1>8. (CHOOSE i \in 0..n : P(i)) \in 0..Len(chain)
    BY <1>1, <1>6, HashLength
<1> QED
    BY <1>7, <1>8, AtIsHash

LEMMA SparseAncestorFound ==
    ASSUME chain \in Hashes, blocks \subseteq Hashes, NEW n \in Nat
    PROVE  SparseAncestor(n) \in Hashes
<1> DEFINE good == { b \in blocks : Canonical(b) /\ Len(b) <= n }
           heights == { Len(b) : b \in {<<>>} \cup good }
<1>1. \A b \in {<<>>} \cup good : b \in Hashes /\ Len(b) \in 0..MaxHeight
    BY Genesis, HashLength
<1>2. heights \in SUBSET (0..MaxHeight) /\ heights # {}
    BY <1>1
<1>3. PICK k \in heights : \A j \in heights : j <= k
    BY <1>2, LargestNumber, ChainAssumption
<1>4. PICK h \in {<<>>} \cup good : Len(h) = k
    BY <1>3
<1>5. \A b \in blocks : Canonical(b) /\ Len(b) <= n => Len(b) <= Len(h)
    BY <1>3, <1>4
<1>6. SparseAncestor(n) \in {<<>>} \cup good
    BY <1>4, <1>5 DEF SparseAncestor
<1> QED
    BY <1>1, <1>6

LEMMA RecoverLocateStep ==
    ASSUME IndexInv, NEW w \in Workers, RecoverLocate(w)
    PROVE  IndexInv' /\ StoreStep
<1>1. PICK head \in Heads :
         \E a \in {CommonAncestor(Suspect(w), Lower(Len(Suspect(w)), head)),
                   SparseAncestor(Lower(Len(Suspect(w)), head))} :
            fix' = [ancestor |-> a, prior |-> history]
    BY DEF RecoverLocate
<1> DEFINE n == Lower(Len(Suspect(w)), head)
<1>2. PICK a \in {CommonAncestor(Suspect(w), n), SparseAncestor(n)} :
         fix' = [ancestor |-> a, prior |-> history]
    BY <1>1
<1>3. Suspect(w) \in Hashes
    BY Types DEF Suspect, JobType, IndexInv, IndexTypes, LiveCursor
<1>4. n \in 0..Len(chain)
  <2>1. head \in 0..Len(chain) /\ Len(chain) \in Nat /\ Len(Suspect(w)) \in Nat
      BY <1>3, HeadsInChain, HashLength, Types
  <2> QED
      BY <2>1 DEF Lower
<1> HIDE DEF n
<1>5. a \in Hashes
  <2>1. chain \in Hashes /\ blocks \subseteq Hashes /\ n \in Nat
      BY <1>4, Types DEF IndexInv, IndexTypes
  <2> QED
      BY <1>2, <1>3, <1>4, <2>1, CommonAncestorFound, SparseAncestorFound
<1>6. fix' \in FixType
    BY <1>2, <1>5 DEF FixType, IndexInv, IndexTypes
<1>7. Held(job[w], "rollback", epoch) /\ "rollback" \in Labels
    BY Types DEF Holds, Held, Labels, Locked
<1>8. job' = [job EXCEPT ![w] = job[w]]
    BY DEF RecoverLocate, IndexInv, IndexTypes
<1> QED
    BY <1>6, <1>7, <1>8, Quiet, Types DEF RecoverLocate, Goto

\* A recovery goes on to its next transaction.
LEMMA RecoveryMoves ==
    ASSUME IndexInv, NEW w \in Workers, NEW p \in {"relive", "rehistory"},
           Goto(w, p), job' = job, fix' = fix, UNCHANGED chainVars,
           blocks' \subseteq Hashes, events' \subseteq Hashes,
           live' \in LiveCursor, history' \in HistoryType,
           epoch' \in Nat, epoch <= epoch'
    PROVE  IndexInv'
<1>1. job' = [job EXCEPT ![w] = job[w]] /\ job[w] \in JobType /\ p \in Labels
    BY DEF IndexInv, IndexTypes, Labels, Locked
<1>2. epoch \in Nat /\ job[w].epoch <= epoch /\ fix' \in FixType
    BY Types DEF Holds, Held
<1>3. Held(job[w], p, epoch')
    BY <1>1, <1>2 DEF Held, JobType
<1> QED
    BY <1>1, <1>2, <1>3, Moves DEF Goto, chainVars

LEMMA RecoverRollbackStep ==
    ASSUME IndexInv, NEW w \in Workers, RecoverRollback(w)
    PROVE  IndexInv' /\ StoreStep
<1> DEFINE h == fix.ancestor
<1>1. h \in Hashes
    BY Types DEF FixType
<1> HIDE DEF h
<1>2. Rollback(h)
    BY DEF RecoverRollback, h
<1>3. StoreStep
  <2>1. Tables!Rollback(h)
      BY <1>2, RollbackSame
  <2> QED
      BY <1>1, <2>1 DEF StoreStep, Tables!StoreNext
<1>4. blocks' \subseteq Hashes /\ events' \subseteq Hashes
    BY <1>1, <1>2 DEF Rollback, AtOrBelow, IndexInv, IndexTypes
<1>5. live' \in LiveCursor
    BY <1>1, <1>2 DEF Rollback, IndexInv, IndexTypes, LiveCursor
<1>6. history' \in HistoryType
    BY <1>2 DEF Rollback, IndexInv, IndexTypes, HistoryType
<1>7. epoch' \in Nat /\ epoch <= epoch'
    BY <1>2, Types DEF Rollback
<1>8. IndexInv'
    BY <1>4, <1>5, <1>6, <1>7, RecoveryMoves DEF RecoverRollback
<1> QED
    BY <1>3, <1>8

LEMMA RecoverLiveStep ==
    ASSUME IndexInv, NEW w \in Workers, RecoverLive(w)
    PROVE  IndexInv' /\ StoreStep
<1>1. fix.ancestor \in Hashes /\ AnchorLive(fix.ancestor)
    BY Types DEF FixType, RecoverLive
<1>2. /\ StoreStep
      /\ blocks' \subseteq Hashes /\ events' \subseteq Hashes
      /\ live' \in LiveCursor /\ history' \in HistoryType
      /\ epoch' \in Nat /\ epoch <= epoch'
    BY <1>1, LiveAnchored
<1>3. IndexInv'
    BY <1>2, RecoveryMoves DEF RecoverLive
<1> QED
    BY <1>2, <1>3

LEMMA RecoverHistoryStep ==
    ASSUME IndexInv, NEW w \in Workers, RecoverHistory(w)
    PROVE  IndexInv' /\ StoreStep
<1> DEFINE a == fix.ancestor
           prior == fix.prior
           target == IF prior.pending THEN 0 ELSE prior.target
           complete == ~prior.pending /\ Len(a) - 1 < prior.target
<1>1. a \in Hashes /\ prior \in HistoryType
    BY Types DEF FixType
<1> HIDE DEF a, prior
<1>2. /\ target \in 0..MaxHeight /\ prior.origin \in 0..MaxHeight
      /\ prior.pending \in BOOLEAN /\ complete \in BOOLEAN
      /\ Len(a) - 1 \in -1..MaxHeight
    BY <1>1, HashLength, ChainAssumption DEF HistoryType
<1>3. \/ UNCHANGED tables
      \/ /\ ~history.init
         /\ AnchorHistory(a, FreshHistory(a, Len(a), target, prior.pending,
                                          prior.origin, complete))
    BY DEF RecoverHistory, RepairedHistory, a, prior
<1> HIDE DEF target, complete
<1>4. /\ StoreStep
      /\ blocks' \subseteq Hashes /\ events' \subseteq Hashes
      /\ live' \in LiveCursor /\ history' \in HistoryType
      /\ epoch' \in Nat /\ epoch <= epoch'
  <2>1. CASE UNCHANGED tables
      BY <2>1, Untouched
  <2>2. CASE /\ ~history.init
             /\ AnchorHistory(a, FreshHistory(a, Len(a), target, prior.pending,
                                              prior.origin, complete))
    <3>1. Len(a) \in {Len(a), Len(a) + 1}
        OBVIOUS
    <3> QED
        BY <1>1, <1>2, <2>2, <3>1, HistoryAnchored
  <2> QED
      BY <1>3, <2>1, <2>2
<1>5. fix' \in FixType
    BY Genesis, NoHistoryType DEF RecoverHistory, NoFix, FixType
<1>6. IndexInv'
    BY <1>4, <1>5, FinishMoves DEF RecoverHistory
<1> QED
    BY <1>4, <1>6

-----------------------------------------------------------------------------
LEMMA CrashStep ==
    ASSUME IndexInv, Crash PROVE IndexInv' /\ StoreStep
<1>1. place' \in [Workers -> Labels] /\ job' \in [Workers -> JobType]
    BY NoJobType DEF Crash, Labels
<1>2. fix' \in FixType
    BY Genesis, NoHistoryType DEF Crash, NoFix, FixType
<1>3. IndexTypes'
    BY <1>1, <1>2 DEF Crash, chainVars, tables, IndexInv, IndexTypes
<1>4. ASSUME NEW v \in Workers PROVE Holds(v)'
  <2>1. job'[v] = NoJob /\ place'[v] \in {"boot", "idle"} /\ epoch' \in Nat
      BY <1>3 DEF Crash, IndexTypes
  <2> QED
      BY <2>1 DEF Holds, Held, NoJob
<1> QED
    BY <1>3, <1>4 DEF IndexInv, StoreStep, Crash

LEMMA EnvironmentStep ==
    ASSUME IndexInv, Environment PROVE IndexInv' /\ StoreStep
<1>1. chain \in Seq(0..MaxForks) /\ Len(chain) \in 0..MaxHeight /\ forks \in 0..MaxForks
    BY HashLength DEF IndexInv, IndexTypes
<1>2. chain' \in Hashes /\ forks' \in 0..MaxForks
  <2>1. CASE Mine
    <3>1. chain' = Append(chain, forks) /\ Len(chain) < MaxHeight
        BY <2>1 DEF Mine
    <3>2. chain' \in Seq(0..MaxForks) /\ Len(chain') = Len(chain) + 1
        BY <1>1, <3>1
    <3>3. Len(chain') <= MaxHeight
        BY <1>1, <3>1, <3>2, ChainAssumption
    <3> QED
        BY <1>1, <2>1, <3>2, <3>3, SeqIsHash DEF Mine
  <2>2. CASE Reorganise
    <3>1. PICK k \in 0..(Len(chain) - 1) : chain' = Append(At(k), forks + 1)
        BY <2>2 DEF Reorganise
    <3>2. forks + 1 \in 0..MaxForks /\ k \in 0..Len(chain) /\ k + 1 <= MaxHeight
        BY <1>1, <2>2, ChainAssumption DEF Reorganise
    <3>3. At(k) \in Seq(0..MaxForks) /\ Len(At(k)) = k
        BY <3>2, AtIsHash, HashLength DEF IndexInv, IndexTypes
    <3>4. chain' \in Seq(0..MaxForks) /\ Len(chain') = k + 1
        BY <3>1, <3>2, <3>3
    <3>5. Len(chain') <= MaxHeight
        BY <3>2, <3>4
    <3> QED
        BY <2>2, <3>2, <3>4, <3>5, SeqIsHash DEF Reorganise
  <2> QED
      BY <2>1, <2>2 DEF Environment
<1>3. UNCHANGED tables /\ UNCHANGED workVars
    BY DEF Environment
<1>4. IndexTypes'
    BY <1>2, <1>3 DEF tables, workVars, IndexInv, IndexTypes
<1>5. ASSUME NEW v \in Workers PROVE Holds(v)'
    BY <1>3 DEF tables, workVars, IndexInv, Holds
<1> QED
    BY <1>3, <1>4, <1>5 DEF IndexInv, StoreStep

LEMMA StutterStep ==
    ASSUME IndexInv, UNCHANGED vars PROVE IndexInv' /\ StoreStep
<1>1. IndexTypes'
    BY DEF vars, chainVars, tables, workVars, IndexInv, IndexTypes
<1>2. ASSUME NEW v \in Workers PROVE Holds(v)'
    BY DEF vars, tables, workVars, IndexInv, Holds
<1> QED
    BY <1>1, <1>2 DEF IndexInv, StoreStep, vars

LEMMA NextStep == IndexInv /\ [IndexNext]_vars => IndexInv' /\ StoreStep
<1> SUFFICES ASSUME IndexInv, [IndexNext]_vars PROVE IndexInv' /\ StoreStep
    OBVIOUS
<1>1. CASE Environment
    BY <1>1, EnvironmentStep
<1>2. CASE LiveStep
    BY <1>2, BootLiveStep, BootHistoryStep, BootFailsStep, LiveCompareStep,
       LiveFetchStep, LiveConfirmStep, LiveDivergesStep, LiveStoreStep,
       LiveRefusedStep
    DEF LiveStep
<1>3. CASE HistoryStep
    BY <1>3, HistoryReadOriginStep, HistoryResolveStep, HistoryFetchStep,
       HistoryConfirmStep, HistoryJoinStep, HistoryStoreStep
    DEF HistoryStep
<1>4. CASE EnrichStep
    BY <1>4, EnrichFindsOrphanStep DEF EnrichStep
<1>5. ASSUME NEW w \in Workers, ReadLogs(w) \/ GiveUp(w) \/ RecoverStep(w)
      PROVE  IndexInv' /\ StoreStep
    BY <1>5, ReadLogsStep, GiveUpStep, RecoverSkipsStep, RecoverLocateStep,
       RecoverRollbackStep, RecoverLiveStep, RecoverHistoryStep, RecoverFailsStep
    DEF RecoverStep
<1>6. CASE Crash
    BY <1>6, CrashStep
<1>7. CASE UNCHANGED vars
    BY <1>7, StutterStep
<1> QED
    BY <1>1, <1>2, <1>3, <1>4, <1>5, <1>6, <1>7 DEF IndexNext

(***************************************************************************)
(* What the workers hold between two steps stays well-formed: epochs read  *)
(* from the store, intervals with both boundary headers, logs inside them. *)
(***************************************************************************)
THEOREM IndexSafe == IndexSpec => []IndexInv
<1>1. IndexInv /\ [IndexNext]_vars => IndexInv'
    BY NextStep
<1> QED
    BY <1>1, InitHolds, PTL DEF IndexSpec

(***************************************************************************)
(* Refinement: startup, the live and history lanes, orphan reports, every  *)
(* stage of _recover_reorg and restarts use the tables only through calls  *)
(* the store specification allows.                                         *)
(***************************************************************************)
THEOREM IndexImplementsStore == IndexSpec => Tables!StoreSpec
<1>1. IndexInit => Tables!StoreInit
    BY InitSame
<1>2. IndexInv /\ [IndexNext]_vars => [Tables!StoreNext]_(Tables!storeVars)
    BY NextStep DEF StoreStep, tables, Tables!storeVars
<1> QED
    BY <1>1, <1>2, IndexSafe, PTL DEF IndexSpec, Tables!StoreSpec

(***************************************************************************)
(* Whatever the chain does, the index keeps one header per number and a    *)
(* header for every event and for the live cursor.                         *)
(***************************************************************************)
THEOREM IndexGrounded == IndexSpec => []Grounded
<1>1. Tables!Grounded <=> Grounded
    BY DEF Grounded, Tables!Grounded
<1> QED
    BY <1>1, IndexImplementsStore, Tables!StoreGrounded, HashNumbers, PTL

(***************************************************************************)
(* "blocks contains both boundaries of every committed coverage interval", *)
(* also when intervals are fetched before a recovery and stored after it.  *)
(***************************************************************************)
THEOREM IndexAnchored == IndexSpec => []CoverageAnchored
<1>1. Tables!CoverageAnchored <=> CoverageAnchored
    BY DEF CoverageAnchored, Stored, Lanes, Tables!CoverageAnchored,
           Tables!Stored, Tables!Lanes
<1> QED
    BY <1>1, IndexImplementsStore, Tables!StoreAnchored, HashNumbers, PTL

-----------------------------------------------------------------------------
(* The history cursor's complete flag.                                     *)

\* A step that leaves the history cursor alone, or removes it.
LEMMA CursorKept ==
    ASSUME CompleteExact, history' = history \/ history'.init = FALSE
    PROVE  CompleteExact'
BY DEF CompleteExact

LEMMA CompleteBoot ==
    ASSUME IndexInv, CompleteExact, Lookback # 0, BootHistory
    PROVE  CompleteExact'
<1>1. CASE UNCHANGED tables
    BY <1>1, CursorKept DEF tables
<1>2. CASE ~UNCHANGED tables
  <2>1. (Lookback > 0) = TRUE
      BY IndexAssumption
  <2>2. history'.pending = (Lookback > 0)
      BY <1>2 DEF BootHistory, AnchorHistory, FreshHistory
  <2>3. history'.pending
      BY <2>1, <2>2
  <2> QED
      BY <2>3 DEF CompleteExact
<1> QED
    BY <1>1, <1>2

LEMMA CompleteResolve ==
    ASSUME IndexInv, CompleteExact, HistoryResolve
    PROVE  CompleteExact'
<1> DEFINE j == job["history"]
<1>1. PICK origin \in j.heads :
         ResolveTarget(origin, Higher(0, Len(origin) - Lookback), j.last, j.epoch)
    BY DEF HistoryResolve
<1> DEFINE target == Higher(0, Len(origin) - Lookback)
           complete == j.last < target
<1> HIDE DEF target, j
<1>2. /\ history.nextTo = j.last
      /\ history' = [history EXCEPT !.target = target, !.pending = FALSE,
                                    !.complete = complete]
    BY <1>1 DEF ResolveTarget, HistoryCurrent, target
<1> HIDE DEF complete
<1>3. history'.nextTo = j.last /\ history'.target = target /\ history'.complete = complete
    BY <1>2 DEF IndexInv, IndexTypes, HistoryType
<1> QED
    BY <1>3 DEF CompleteExact, complete

LEMMA CompleteStore ==
    ASSUME IndexInv, CompleteExact, "history" \in Workers, HistoryStore
    PROVE  CompleteExact'
<1> DEFINE j == job["history"]
           first == HeaderAt(j.heads, j.first)
           last == HeaderAt(j.heads, j.last)
           complete == HashNumber(first) <= history.target
<1>1. first \in Hashes
    BY StoredInterval DEF HistoryStore
<1>2. /\ HashNumber(first) \in Nat /\ history.target \in Nat
    BY <1>1, HashLength, ChainAssumption DEF HashNumber, IndexInv, IndexTypes, HistoryType
<1>3. IngestHistory(j.heads, j.logs, first, last, j.epoch)
    BY DEF HistoryStore
<1> HIDE DEF first, last, j
<1>4. history' = [history EXCEPT !.nextTo = HashNumber(first) - 1,
                        !.low = HashNumber(first), !.hash = first,
                        !.complete = complete, !.scanned = TRUE]
    BY <1>3 DEF IngestHistory
<1> HIDE DEF complete
<1>5. /\ history'.nextTo = HashNumber(first) - 1 /\ history'.target = history.target
      /\ history'.complete = complete
    BY <1>4 DEF IndexInv, IndexTypes, HistoryType
<1>6. complete <=> HashNumber(first) - 1 < history.target
    BY <1>2 DEF complete
<1> QED
    BY <1>5, <1>6 DEF CompleteExact

LEMMA CompleteRepair ==
    ASSUME IndexInv, CompleteExact, NEW w \in Workers, RecoverHistory(w)
    PROVE  CompleteExact'
<1> DEFINE a == fix.ancestor
           prior == fix.prior
           complete == ~prior.pending /\ Len(a) - 1 < prior.target
           target == IF prior.pending THEN 0 ELSE prior.target
<1>1. CASE UNCHANGED tables
    BY <1>1, CursorKept DEF tables
<1>2. CASE ~UNCHANGED tables
  <2>1. history' = FreshHistory(a, Len(a), target, prior.pending, prior.origin, complete)
      BY <1>2 DEF RecoverHistory, AnchorHistory, RepairedHistory
  <2> HIDE DEF a, prior, complete, target
  <2>2. /\ history'.nextTo = Len(a) - 1 /\ history'.target = target
        /\ history'.pending = prior.pending /\ history'.complete = complete
      BY <2>1 DEF FreshHistory
  <2>3. prior.pending \in BOOLEAN
      BY Types DEF FixType, HistoryType, prior
  <2>4. CASE prior.pending
      BY <2>2, <2>4 DEF CompleteExact
  <2>5. CASE ~prior.pending
    <3>1. target = prior.target /\ (complete <=> Len(a) - 1 < prior.target)
        BY <2>5 DEF target, complete
    <3> QED
        BY <2>2, <3>1 DEF CompleteExact
  <2> QED
      BY <2>3, <2>4, <2>5
<1> QED
    BY <1>1, <1>2

LEMMA CompleteStep ==
    ASSUME Lookback # 0, IndexInv, CompleteExact, [IndexNext]_vars
    PROVE  CompleteExact'
<1>1. CASE UNCHANGED tables
    BY <1>1, CursorKept DEF tables
<1>2. CASE Environment \/ Crash \/ UNCHANGED vars
    BY <1>1, <1>2 DEF Environment, Crash, vars
<1>3. CASE LiveStep
  <2>1. CASE BootHistory
      BY <2>1, CompleteBoot
  <2>2. CASE BootLive \/ LiveStore
    <3>1. history' = history
        BY <2>2 DEF BootLive, LiveStore, AnchorLive, IngestLive, tables
    <3> QED
        BY <3>1, CursorKept
  <2>3. CASE BootFails \/ LiveCompare \/ LiveFetch \/ LiveConfirm \/ LiveDiverges
             \/ LiveRefused
      BY <1>1, <2>3 DEF BootFails, LiveCompare, LiveFetch, LiveConfirm,
                        LiveDiverges, LiveRefused
  <2> QED
      BY <1>3, <2>1, <2>2, <2>3 DEF LiveStep
<1>4. CASE HistoryStep
  <2>1. CASE HistoryReadOrigin \/ HistoryFetch \/ HistoryConfirm \/ HistoryJoin
      BY <1>1, <2>1 DEF HistoryReadOrigin, HistoryFetch, HistoryConfirm, HistoryJoin
  <2> QED
      BY <1>4, <2>1, CompleteResolve, CompleteStore DEF HistoryStep
<1>5. CASE EnrichStep
    BY <1>1, <1>5 DEF EnrichStep, EnrichFindsOrphan
<1>6. ASSUME NEW w \in Workers, ReadLogs(w) \/ GiveUp(w) \/ RecoverStep(w)
      PROVE  CompleteExact'
  <2>1. CASE RecoverHistory(w)
      BY <2>1, CompleteRepair
  <2>2. CASE RecoverLive(w) \/ RecoverRollback(w)
    <3>1. history' = history \/ history'.init = FALSE
        BY <2>2 DEF RecoverLive, RecoverRollback, AnchorLive, Rollback, IndexInv,
                    IndexTypes, HistoryType
    <3> QED
        BY <3>1, CursorKept
  <2>3. CASE ReadLogs(w) \/ GiveUp(w) \/ RecoverSkips(w) \/ RecoverLocate(w)
             \/ RecoverFails(w)
      BY <1>1, <2>3 DEF ReadLogs, GiveUp, RecoverSkips, RecoverLocate, RecoverFails
  <2> QED
      BY <1>6, <2>1, <2>2, <2>3 DEF RecoverStep
<1> QED
    BY <1>2, <1>3, <1>4, <1>5, <1>6 DEF IndexNext

(***************************************************************************)
(* A resolved history cursor is complete exactly when nothing is left to   *)
(* scan, whichever of startup, target resolution, scanning and recovery    *)
(* wrote it last.  Without a lookback (history_days 0) startup calls the   *)
(* cursor complete at once, also on a chain whose head is genesis, where   *)
(* the scan has not passed its target: that case is left out.              *)
(***************************************************************************)
THEOREM IndexComplete ==
    ASSUME Lookback # 0
    PROVE  IndexSpec => []CompleteExact
<1>1. IndexInit => CompleteExact
    BY DEF IndexInit, NoHistory, EmptyHistory, CompleteExact
<1>2. IndexInv /\ CompleteExact /\ [IndexNext]_vars => CompleteExact'
    BY CompleteStep
<1> QED
    BY <1>1, <1>2, IndexSafe, PTL DEF IndexSpec

-----------------------------------------------------------------------------
(* Branches: the blocks up to a block, and those the chain shows.          *)

LEMMA AncestorIs ==
    ASSUME NEW h \in Hashes, NEW n \in 0..Len(h)
    PROVE  /\ Ancestor(h, n) \in Hashes /\ Len(Ancestor(h, n)) = n
           /\ \A i \in 1..n : Ancestor(h, n)[i] = h[i]
<1>1. h \in Seq(0..MaxForks) /\ Len(h) \in 0..MaxHeight
    BY HashLength
<1>2. n \in Nat /\ \A i \in 1..n : h[i] \in 0..MaxForks
  <2>1. \A i \in 1..Len(h) : h[i] \in 0..MaxForks
      BY <1>1, ElementOfSeq
  <2> QED
      BY <1>1, <2>1
<1>3. /\ SubSeq(h, 1, n) \in Seq(0..MaxForks)
      /\ Len(SubSeq(h, 1, n)) = IF 1 <= n THEN n - 1 + 1 ELSE 0
      /\ \A i \in 1..(n - 1 + 1) : SubSeq(h, 1, n)[i] = h[1 + i - 1]
    BY <1>2, SubSeqProperties
<1>4. \A i \in 1..n : i \in 1..(n - 1 + 1) /\ 1 + i - 1 = i
    BY <1>2
<1>5. \A i \in 1..n : SubSeq(h, 1, n)[i] = h[i]
    BY <1>3, <1>4
<1>6. Ancestor(h, n) \in Seq(0..MaxForks) /\ Len(Ancestor(h, n)) = n
    BY <1>2, <1>3 DEF Ancestor
<1>7. Len(Ancestor(h, n)) <= MaxHeight
    BY <1>1, <1>6, ChainAssumption
<1>8. Ancestor(h, n) \in Hashes
    BY <1>6, <1>7, SeqIsHash
<1>9. \A i \in 1..n : Ancestor(h, n)[i] = h[i]
    BY <1>5 DEF Ancestor
<1> QED
    BY <1>6, <1>8, <1>9

\* Two blocks of one number with the same path are one block.
LEMMA SamePath ==
    ASSUME NEW g \in Hashes, NEW h \in Hashes, Len(g) = Len(h),
           \A i \in 1..Len(g) : g[i] = h[i]
    PROVE  g = h
BY HashLength, SeqEqual

LEMMA AncestorOfItself ==
    ASSUME NEW h \in Hashes
    PROVE  Ancestor(h, Len(h)) = h
<1>1. Len(h) \in 0..Len(h) /\ Len(h) \in Nat
    BY HashLength
<1> QED
    BY <1>1, AncestorIs, SamePath

LEMMA AncestorTwice ==
    ASSUME NEW h \in Hashes, NEW n \in 0..Len(h), NEW m \in 0..n
    PROVE  Ancestor(Ancestor(h, n), m) = Ancestor(h, m)
<1>1. Len(h) \in Nat
    BY HashLength
<1>2. m \in 0..Len(h) /\ \A i \in 1..m : i \in 1..n
    BY <1>1
<1>3. /\ Ancestor(h, n) \in Hashes /\ Len(Ancestor(h, n)) = n
      /\ \A i \in 1..n : Ancestor(h, n)[i] = h[i]
    BY AncestorIs
<1>4. /\ Ancestor(h, m) \in Hashes /\ Len(Ancestor(h, m)) = m
      /\ \A i \in 1..m : Ancestor(h, m)[i] = h[i]
    BY <1>2, AncestorIs
<1>5. m \in 0..Len(Ancestor(h, n))
    BY <1>3
<1>6. /\ Ancestor(Ancestor(h, n), m) \in Hashes /\ Len(Ancestor(Ancestor(h, n), m)) = m
      /\ \A i \in 1..m : Ancestor(Ancestor(h, n), m)[i] = Ancestor(h, n)[i]
    BY <1>3, <1>5, AncestorIs
<1> QED
    BY <1>2, <1>3, <1>4, <1>6, SamePath

\* Block h is on the branch that ends in block c.
On(h, c) == Len(h) <= Len(c) /\ h = Ancestor(c, Len(h))

LEMMA CanonicalIsOn ==
    ASSUME NEW h PROVE Canonical(h) <=> On(h, chain)
BY DEF Canonical, On, At

LEMMA AncestorIsOn ==
    ASSUME NEW h \in Hashes, NEW n \in 0..Len(h)
    PROVE  On(Ancestor(h, n), h)
<1>1. Len(h) \in Nat
    BY HashLength
<1> QED
    BY <1>1, AncestorIs DEF On

LEMMA OnBranch ==
    ASSUME NEW h \in Hashes, NEW c \in Hashes, On(h, c), NEW n \in 0..Len(h)
    PROVE  /\ Ancestor(h, n) = Ancestor(c, n)
           /\ On(Ancestor(h, n), c)
<1>1. Len(h) \in Nat /\ Len(c) \in Nat
    BY HashLength
<1>2. Len(h) \in 0..Len(c) /\ h = Ancestor(c, Len(h)) /\ n \in 0..Len(c)
    BY <1>1 DEF On
<1>3. Ancestor(h, n) = Ancestor(c, n)
    BY <1>2, AncestorTwice
<1> QED
    BY <1>2, <1>3, AncestorIsOn

LEMMA OnTwice ==
    ASSUME NEW g \in Hashes, NEW h \in Hashes, NEW c \in Hashes, On(g, h), On(h, c)
    PROVE  On(g, c)
<1>1. Len(g) \in 0..Len(h) /\ g = Ancestor(h, Len(g))
    BY HashLength DEF On
<1> QED
    BY <1>1, OnBranch

-----------------------------------------------------------------------------
(* A block once seen and then orphaned never becomes canonical again: a    *)
(* reorganisation takes a fork number no block seen before it has.         *)

Known(h, c, f) ==
    /\ \A n \in 1..Len(h) : h[n] <= f
    /\ h # <<>> /\ h[Len(h)] = f => On(h, c)

LEMMA ReadIsKnown ==
    ASSUME NEW c \in Hashes, NEW f \in Nat, \A n \in 1..Len(c) : c[n] <= f,
           NEW n \in 0..Len(c)
    PROVE  Known(Ancestor(c, n), c, f)
<1>1. Len(c) \in Nat
    BY HashLength
<1>2. \A i \in 1..n : i \in 1..Len(c)
    BY <1>1
<1> QED
    BY <1>2, AncestorIs, AncestorIsOn DEF Known

\* The two ways the chain moves, in terms of branches.
LEMMA ChainMoves ==
    ASSUME IndexInv, Environment
    PROVE  /\ chain \in Hashes /\ chain' \in Hashes /\ forks \in Nat
           /\ \/ /\ forks' = forks /\ On(chain, chain')
                 /\ Len(chain') = Len(chain) + 1 /\ chain'[Len(chain')] = forks
              \/ /\ forks' = forks + 1
                 /\ \E k \in 0..Len(chain) :
                       /\ Len(chain') = k + 1 /\ chain'[k + 1] = forks + 1
                       /\ Ancestor(chain', k) = Ancestor(chain, k)
<1>1. /\ chain \in Hashes /\ chain' \in Hashes /\ forks \in 0..MaxForks
      /\ chain \in Seq(0..MaxForks) /\ Len(chain) \in Nat /\ MaxForks \in Nat
    BY EnvironmentStep, HashLength, ChainAssumption DEF IndexInv, IndexTypes
<1>2. CASE Mine
  <2>1. chain' = Append(chain, forks) /\ forks' = forks
      BY <1>2 DEF Mine
  <2>2. /\ Len(chain') = Len(chain) + 1 /\ chain'[Len(chain) + 1] = forks
        /\ \A i \in 1..Len(chain) : chain'[i] = chain[i]
      BY <1>1, <2>1, AppendProperties
  <2>3. Len(chain) \in 0..Len(chain')
      BY <1>1, <2>2
  <2>4. /\ Ancestor(chain', Len(chain)) \in Hashes
        /\ Len(Ancestor(chain', Len(chain))) = Len(chain)
        /\ \A i \in 1..Len(chain) : Ancestor(chain', Len(chain))[i] = chain'[i]
      BY <1>1, <2>3, AncestorIs
  <2>5. chain = Ancestor(chain', Len(chain))
      BY <1>1, <2>2, <2>4, SamePath
  <2> QED
      BY <1>1, <2>1, <2>2, <2>3, <2>5 DEF On
<1>3. CASE Reorganise
  <2>1. PICK k \in 0..(Len(chain) - 1) : chain' = Append(At(k), forks + 1)
      BY <1>3 DEF Reorganise
  <2>2. k \in 0..Len(chain) /\ forks + 1 \in 0..MaxForks /\ forks' = forks + 1
      BY <1>1, <1>3 DEF Reorganise
  <2>3. /\ At(k) \in Hashes /\ Len(At(k)) = k /\ At(k) \in Seq(0..MaxForks)
      BY <1>1, <2>2, AncestorIs, HashLength DEF At
  <2>4. /\ Len(chain') = k + 1 /\ chain'[k + 1] = forks + 1
        /\ \A i \in 1..k : chain'[i] = At(k)[i]
      BY <2>1, <2>2, <2>3, AppendProperties
  <2>5. k \in 0..Len(chain')
      BY <2>2, <2>4
  <2>6. /\ Ancestor(chain', k) \in Hashes /\ Len(Ancestor(chain', k)) = k
        /\ \A i \in 1..k : Ancestor(chain', k)[i] = chain'[i]
      BY <1>1, <2>5, AncestorIs
  <2>7. Ancestor(chain', k) = At(k)
      BY <2>3, <2>4, <2>6, SamePath
  <2> QED
      BY <1>1, <2>2, <2>4, <2>7 DEF At
<1> QED
    BY <1>2, <1>3 DEF Environment

LEMMA OrphansStay ==
    ASSUME IndexInv, Environment, NEW h \in Hashes, Known(h, chain, forks), On(h, chain')
    PROVE  On(h, chain)
<1>1. /\ chain \in Hashes /\ chain' \in Hashes /\ forks \in Nat
      /\ Len(h) \in Nat /\ Len(chain) \in Nat /\ Len(chain') \in Nat
    BY ChainMoves, HashLength
<1>2. Len(h) <= Len(chain') /\ h = Ancestor(chain', Len(h))
    BY DEF On
<1>3. Len(h) = Len(chain') => h = chain'
    BY <1>1, <1>2, AncestorOfItself
<1>4. CASE forks' = forks /\ On(chain, chain') /\ Len(chain') = Len(chain) + 1
           /\ chain'[Len(chain')] = forks
  <2>1. CASE Len(h) = Len(chain')
    <3>1. h # <<>> /\ h[Len(h)] = forks
        BY <1>1, <1>3, <1>4, <2>1
    <3> QED
        BY <3>1 DEF Known
  <2>2. CASE Len(h) <= Len(chain)
    <3>1. Ancestor(chain, Len(h)) = Ancestor(chain', Len(h))
        BY <1>1, <1>4, <2>2, OnBranch
    <3> QED
        BY <1>2, <2>2, <3>1 DEF On
  <2> QED
      BY <1>1, <1>2, <1>4, <2>1, <2>2
<1>5. CASE \E k \in 0..Len(chain) :
             /\ Len(chain') = k + 1 /\ chain'[k + 1] = forks + 1
             /\ Ancestor(chain', k) = Ancestor(chain, k)
  <2>1. PICK k \in 0..Len(chain) :
             /\ Len(chain') = k + 1 /\ chain'[k + 1] = forks + 1
             /\ Ancestor(chain', k) = Ancestor(chain, k)
      BY <1>5
  <2>2. Len(h) # k + 1
    <3> SUFFICES ASSUME Len(h) = k + 1 PROVE FALSE
        OBVIOUS
    <3>1. h[k + 1] = forks + 1 /\ k + 1 \in 1..Len(h)
        BY <1>1, <1>3, <2>1
    <3> QED
        BY <1>1, <3>1 DEF Known
  <2>3. Len(h) \in 0..k /\ k \in 0..Len(chain')
      BY <1>1, <1>2, <2>1, <2>2
  <2>4. /\ Ancestor(chain', Len(h)) = Ancestor(Ancestor(chain', k), Len(h))
        /\ Ancestor(chain, Len(h)) = Ancestor(Ancestor(chain, k), Len(h))
      BY <1>1, <2>3, AncestorTwice
  <2> QED
      BY <1>1, <1>2, <2>1, <2>3, <2>4 DEF On
<1> QED
    BY <1>4, <1>5, ChainMoves

LEMMA KnownStays ==
    ASSUME IndexInv, Environment, NEW h \in Hashes, Known(h, chain, forks)
    PROVE  Known(h, chain', forks')
<1>1. /\ chain \in Hashes /\ chain' \in Hashes /\ forks \in Nat
      /\ h \in Seq(0..MaxForks) /\ Len(h) \in Nat /\ MaxForks \in Nat
    BY ChainMoves, HashLength, ChainAssumption
<1>2. \A n \in 1..Len(h) : h[n] \in Nat
    BY <1>1, ElementOfSeq
<1>3. \A n \in 1..Len(h) : h[n] <= forks
    BY DEF Known
<1>4. CASE forks' = forks /\ On(chain, chain')
    BY <1>1, <1>4, OnTwice DEF Known
<1>5. CASE forks' = forks + 1
  <2>1. \A n \in 1..Len(h) : h[n] <= forks' /\ h[n] # forks'
      BY <1>1, <1>2, <1>3, <1>5
  <2>2. h # <<>> => Len(h) \in 1..Len(h)
      BY <1>1, EmptySeq
  <2> QED
      BY <2>1, <2>2 DEF Known
<1> QED
    BY <1>4, <1>5, ChainMoves

LEMMA ChainKnown ==
    ASSUME IndexInv, Environment, \A n \in 1..Len(chain) : chain[n] <= forks
    PROVE  \A n \in 1..Len(chain') : chain'[n] <= forks'
<1>1. /\ chain \in Hashes /\ chain' \in Hashes /\ forks \in Nat
      /\ chain \in Seq(0..MaxForks) /\ Len(chain) \in Nat /\ Len(chain') \in Nat
    BY ChainMoves, HashLength
<1>2. \A n \in 1..Len(chain) : chain[n] \in Nat
    BY <1>1, ElementOfSeq, ChainAssumption
<1> SUFFICES ASSUME NEW n \in 1..Len(chain') PROVE chain'[n] <= forks'
    OBVIOUS
<1>3. CASE forks' = forks /\ On(chain, chain') /\ Len(chain') = Len(chain) + 1
           /\ chain'[Len(chain')] = forks
  <2>1. CASE n = Len(chain')
      BY <1>1, <1>3, <2>1
  <2>2. CASE n \in 1..Len(chain)
    <3>1. Len(chain) \in 0..Len(chain') /\ chain = Ancestor(chain', Len(chain))
        BY <1>1, <1>3 DEF On
    <3>2. chain[n] = chain'[n]
        BY <1>1, <2>2, <3>1, AncestorIs
    <3> QED
        BY <1>3, <2>2, <3>2
  <2> QED
      BY <1>1, <1>3, <2>1, <2>2
<1>4. CASE /\ forks' = forks + 1
           /\ \E k \in 0..Len(chain) :
                 /\ Len(chain') = k + 1 /\ chain'[k + 1] = forks + 1
                 /\ Ancestor(chain', k) = Ancestor(chain, k)
  <2>1. PICK k \in 0..Len(chain) :
             /\ Len(chain') = k + 1 /\ chain'[k + 1] = forks + 1
             /\ Ancestor(chain', k) = Ancestor(chain, k)
      BY <1>4
  <2>2. CASE n = k + 1
      BY <1>1, <1>4, <2>1, <2>2
  <2>3. CASE n \in 1..k
    <3>1. k \in 0..Len(chain') /\ n \in 1..Len(chain)
        BY <1>1, <2>1, <2>3
    <3>2. chain[n] = chain'[n]
      <4>1. Ancestor(chain, k)[n] = chain[n]
          BY <1>1, <2>1, <2>3, AncestorIs
      <4>2. Ancestor(chain', k)[n] = chain'[n]
          BY <1>1, <2>3, <3>1, AncestorIs
      <4> QED
          BY <2>1, <4>1, <4>2
    <3>3. chain[n] <= forks /\ chain[n] \in Nat
        BY <1>2, <3>1
    <3> QED
        BY <1>1, <1>4, <3>2, <3>3
  <2> QED
      BY <1>1, <2>1, <2>2, <2>3
<1> QED
    BY <1>3, <1>4, ChainMoves

-----------------------------------------------------------------------------
(* What a lane fetched is one branch, and its logs are that branch's.      *)

Reading == {"logs", "confirm", "join", "store"}

\* The header of an interval's last block.
Foot(j) == HeaderAt(j.heads, j.last)

\* The blocks with logs on the branch of h, from number first.
LogsFrom(h, first) == { b \in { Ancestor(h, n) : n \in first..Len(h) } : HasLogs(b) }

\* The locals j of a worker at place p: all headers are on the branch of the
\* last one.  Logs read while the chain was on another branch are found out
\* when the last header is read again: no branch comes back.
Fetched(j, p, c, f) ==
    /\ p \in Reading => /\ Known(Foot(j), c, f)
                        /\ \A h \in j.heads : h = Ancestor(Foot(j), Len(h))
    /\ p = "confirm" /\ On(Foot(j), c) => j.logs = LogsFrom(Foot(j), j.first)
    /\ p \in {"join", "store"} => j.logs = LogsFrom(Foot(j), j.first)

\* What the live lane is about to store begins where its cursor was read.
Extending(j, p) ==
    /\ p # "join"
    /\ p \in {"logs", "confirm", "store"} => j.first = Len(j.seen) + 1
    /\ p = "store" => j.seen = Ancestor(Foot(j), Len(j.seen))

FetchInv ==
    /\ \A n \in 1..Len(chain) : chain[n] <= forks
    /\ \A w \in Workers : Fetched(job[w], place[w], chain, forks)
    /\ Extending(job["live"], place["live"])

LEMMA FootIs ==
    ASSUME NEW hs, NEW n, NEW h \in hs, Len(h) = n,
           \A g \in hs : Len(g) = n => g = h
    PROVE  HeaderAt(hs, n) = h
BY HeaderFound

\* The types of a fetched interval.
LEMMA InJob ==
    ASSUME IndexInv, NEW w \in Workers, place[w] \in Reading
    PROVE  /\ job[w] \in JobType /\ Bounded(job[w])
           /\ Foot(job[w]) \in job[w].heads /\ Foot(job[w]) \in Hashes
           /\ Len(Foot(job[w])) = job[w].last
           /\ job[w].first \in Nat /\ job[w].last \in Nat
           /\ job[w].first <= job[w].last
<1>1. job[w] \in JobType /\ Bounded(job[w])
    BY Types DEF Holds, Held, Reading
<1>2. Foot(job[w]) \in job[w].heads /\ Len(Foot(job[w])) = job[w].last
    BY <1>1, HeaderFound DEF Bounded, Foot
<1>3. job[w].heads \subseteq Hashes
    BY <1>1 DEF JobType
<1>4. \A h \in job[w].heads : Len(h) \in Nat
    BY <1>3, HashLength
<1>5. job[w].first \in Nat /\ job[w].last \in Nat /\ job[w].first <= job[w].last
    BY <1>1, <1>4 DEF Bounded
<1> QED
    BY <1>1, <1>2, <1>3, <1>5

LEMMA NotReading ==
    ASSUME NEW j, NEW p, p \notin Reading, NEW c, NEW f
    PROVE  Fetched(j, p, c, f) /\ Extending(j, p)
BY DEF Fetched, Extending, Reading

\* Worker w goes on to place p with the locals j.
LEMMA FetchMoves ==
    ASSUME IndexInv, FetchInv, NEW w \in Workers, NEW j, NEW p,
           job' = [job EXCEPT ![w] = j], place' = [place EXCEPT ![w] = p],
           UNCHANGED chainVars, Fetched(j, p, chain, forks),
           w = "live" => Extending(j, p)
    PROVE  FetchInv'
<1>1. chain' = chain /\ forks' = forks
    BY DEF chainVars
<1>2. job'[w] = j /\ place'[w] = p
    BY DEF IndexInv, IndexTypes
<1>3. \A v \in Workers : v # w => job'[v] = job[v] /\ place'[v] = place[v]
    BY DEF IndexInv, IndexTypes
<1>4. \A v \in Workers : Fetched(job'[v], place'[v], chain', forks')
    BY <1>1, <1>2, <1>3 DEF FetchInv
<1>5. Extending(job'["live"], place'["live"])
    BY <1>2, <1>3, IndexAssumption DEF FetchInv
<1> QED
    BY <1>1, <1>4, <1>5 DEF FetchInv

LEMMA FetchLeaves ==
    ASSUME IndexInv, FetchInv, NEW w \in Workers, NEW j, NEW p, p \notin Reading,
           job' = [job EXCEPT ![w] = j], place' = [place EXCEPT ![w] = p],
           UNCHANGED chainVars
    PROVE  FetchInv'
BY NotReading, FetchMoves

LEMMA FetchTurns ==
    ASSUME IndexInv, FetchInv, NEW w \in Workers, NEW p, p \notin Reading,
           Goto(w, p), UNCHANGED job, UNCHANGED chainVars
    PROVE  FetchInv'
<1>1. job' = [job EXCEPT ![w] = job[w]]
    BY DEF IndexInv, IndexTypes
<1> QED
    BY <1>1, FetchLeaves DEF Goto

LEMMA FetchFinishes ==
    ASSUME IndexInv, FetchInv, NEW w \in Workers, Finish(w), UNCHANGED chainVars
    PROVE  FetchInv'
<1>1. "idle" \notin Reading
    BY DEF Reading
<1> QED
    BY <1>1, FetchLeaves DEF Finish, Goto

\* The boundary headers of an interval, read of one chain.
LEMMA BoundariesFetched ==
    ASSUME IndexInv, FetchInv, NEW first \in Nat, NEW last \in Nat, first <= last,
           last <= Len(chain), NEW j, j.last = last, j.heads = {At(first), At(last)}
    PROVE  Fetched(j, "logs", chain, forks)
<1>1. chain \in Hashes /\ forks \in Nat /\ Len(chain) \in Nat
    BY Types DEF IndexInv, IndexTypes
<1>2. last \in 0..Len(chain) /\ first \in 0..last /\ first \in 0..Len(chain)
    BY <1>1
<1>3. /\ At(first) \in Hashes /\ Len(At(first)) = first
      /\ At(last) \in Hashes /\ Len(At(last)) = last
    BY <1>1, <1>2, AncestorIs DEF At
<1>4. Foot(j) = At(last)
  <2>1. \A h \in j.heads : Len(h) = last => h = At(last)
      BY <1>3
  <2> QED
      BY <1>3, <2>1, FootIs DEF Foot
<1>5. Known(At(last), chain, forks)
    BY <1>1, <1>2, ReadIsKnown DEF At, FetchInv
<1>6. At(last) = Ancestor(At(last), last)
    BY <1>3, AncestorOfItself
<1>7. At(first) = Ancestor(At(last), first)
    BY <1>1, <1>2, AncestorTwice DEF At
<1>8. \A h \in j.heads : h = Ancestor(Foot(j), Len(h))
    BY <1>3, <1>4, <1>6, <1>7
<1> QED
    BY <1>4, <1>5, <1>8 DEF Fetched

LEMMA FetchLiveFetch ==
    ASSUME IndexInv, FetchInv, LiveFetch PROVE FetchInv'
<1> DEFINE J(last) == [NoJob EXCEPT !.seen = live.at, !.epoch = epoch,
                          !.first = Len(live.at) + 1, !.last = last,
                          !.heads = {At(Len(live.at) + 1), At(last)}]
<1>1. PICK head \in Heads :
         \E last \in (Len(live.at) + 1)..Lower(head, Len(live.at) + LiveChunk) :
            job' = [job EXCEPT !["live"] = J(last)]
    BY DEF LiveFetch
<1>2. PICK last \in (Len(live.at) + 1)..Lower(head, Len(live.at) + LiveChunk) :
         job' = [job EXCEPT !["live"] = J(last)]
    BY <1>1
<1>3. Len(live.at) \in Nat
    BY HashLength DEF IndexInv, IndexTypes, LiveCursor
<1>4. Len(live.at) + 1 \in Nat /\ last \in Nat /\ last <= Len(chain)
      /\ Len(live.at) + 1 <= last
  <2>1. head \in 0..Len(chain) /\ Len(chain) \in Nat /\ LiveChunk \in Nat
      BY HeadsInChain, Types, IndexAssumption
  <2> HIDE DEF J
  <2> QED
      BY <1>3, <2>1 DEF Lower
<1>5. /\ J(last).first = Len(live.at) + 1 /\ J(last).last = last
      /\ J(last).heads = {At(Len(live.at) + 1), At(last)}
      /\ J(last).seen = live.at
    BY DEF NoJob
<1> HIDE DEF J
<1>6. Fetched(J(last), "logs", chain, forks)
    BY <1>4, <1>5, BoundariesFetched
<1>7. Extending(J(last), "logs")
    BY <1>5 DEF Extending
<1>8. place' = [place EXCEPT !["live"] = "logs"] /\ UNCHANGED chainVars
    BY DEF LiveFetch, Goto
<1> QED
    BY <1>2, <1>6, <1>7, <1>8, FetchMoves, IndexAssumption

LEMMA FetchHistoryFetch ==
    ASSUME IndexInv, FetchInv, "history" \in Workers, HistoryFetch PROVE FetchInv'
<1> DEFINE last == history.nextTo
           J(first) == [NoJob EXCEPT !.seen = history.hash, !.epoch = epoch,
                          !.first = first, !.last = history.nextTo,
                          !.heads = {At(first), At(history.nextTo)},
                          !.below = history.scanned]
<1>1. PICK first \in Higher(history.target, history.nextTo - HistoryChunk + 1)..history.nextTo :
         job' = [job EXCEPT !["history"] = J(first)]
    BY DEF HistoryFetch
<1>2. first \in Nat /\ last \in Nat /\ first <= last /\ last <= Len(chain)
  <2>1. history.nextTo \in Int /\ history.target \in Nat /\ HistoryChunk \in Nat
      BY ChainAssumption, IndexAssumption DEF IndexInv, IndexTypes, HistoryType
  <2> HIDE DEF J
  <2> QED
      BY <2>1 DEF Higher, HistoryFetch
<1>3. J(first).last = last /\ J(first).heads = {At(first), At(last)}
    BY DEF NoJob
<1> HIDE DEF J, last
<1>4. Fetched(J(first), "logs", chain, forks)
    BY <1>2, <1>3, BoundariesFetched
<1>5. place' = [place EXCEPT !["history"] = "logs"] /\ UNCHANGED chainVars
    BY DEF HistoryFetch, Goto
<1> QED
    BY <1>1, <1>4, <1>5, FetchMoves

LEMMA FetchReadLogs ==
    ASSUME IndexInv, FetchInv, NEW w \in Workers, ReadLogs(w) PROVE FetchInv'
<1> DEFINE top == Lower(job[w].last, Len(chain))
           logs == { h \in { At(n) : n \in job[w].first..top } : HasLogs(h) }
           j == [job[w] EXCEPT !.logs = logs]
           foot == Foot(job[w])
<1>1. place[w] = "logs" /\ "logs" \in Reading
    BY DEF ReadLogs, Reading
<1>2. /\ job[w] \in JobType /\ foot \in Hashes /\ Len(foot) = job[w].last
      /\ job[w].first \in Nat /\ job[w].last \in Nat /\ chain \in Hashes
    BY <1>1, InJob, Types
<1>3. Fetched(job[w], "logs", chain, forks)
    BY <1>1 DEF FetchInv
<1>4. job' = [job EXCEPT ![w] = j]
    BY DEF ReadLogs
<1>5. ASSUME On(foot, chain) PROVE logs = LogsFrom(foot, job[w].first)
  <2>1. Len(foot) <= Len(chain) /\ Len(chain) \in Nat
      BY <1>2, <1>5, HashLength DEF On
  <2>2. top = Len(foot)
      BY <1>2, <2>1 DEF Lower
  <2>3. \A n \in job[w].first..Len(foot) : At(n) = Ancestor(foot, n)
    <3>1. \A n \in job[w].first..Len(foot) : n \in 0..Len(foot)
        BY <1>2
    <3> QED
        BY <1>2, <1>5, <3>1, OnBranch DEF At
  <2> HIDE DEF foot, top
  <2>4. { At(n) : n \in job[w].first..Len(foot) } = { Ancestor(foot, n) : n \in job[w].first..Len(foot) }
      BY <2>3
  <2> QED
      BY <2>2, <2>4 DEF LogsFrom
<1> HIDE DEF logs, top
<1>6. /\ j.logs = logs /\ j.heads = job[w].heads /\ j.last = job[w].last
      /\ j.first = job[w].first /\ j.seen = job[w].seen
    BY <1>2 DEF JobType
<1> HIDE DEF j
<1>7. Foot(j) = foot
    BY <1>6 DEF Foot
<1>8. Fetched(j, "confirm", chain, forks)
    BY <1>1, <1>3, <1>5, <1>6, <1>7 DEF Fetched, Reading
<1>9. w = "live" => Extending(j, "confirm")
    BY <1>1, <1>6 DEF Extending, FetchInv
<1>10. place' = [place EXCEPT ![w] = "confirm"] /\ UNCHANGED chainVars
    BY DEF ReadLogs, Goto
<1> QED
    BY <1>4, <1>8, <1>9, <1>10, FetchMoves

\* The last header is canonical when the confirmation wave is read: what was
\* fetched before it is the canonical chain's.
LEMMA ConfirmedBranch ==
    ASSUME IndexInv, FetchInv, NEW w \in Workers, place[w] = "confirm",
           job[w].last <= Len(chain), Confirmed(w)
    PROVE  /\ On(Foot(job[w]), chain)
           /\ job[w].logs = LogsFrom(Foot(job[w]), job[w].first)
           /\ \A h \in ConfirmHeads(w) : h = Ancestor(Foot(job[w]), Len(h))
<1> DEFINE foot == Foot(job[w])
<1>1. "confirm" \in Reading
    BY DEF Reading
<1>2. /\ job[w] \in JobType /\ foot \in Hashes /\ Len(foot) = job[w].last
      /\ job[w].first \in Nat /\ job[w].last \in Nat /\ chain \in Hashes
      /\ Len(chain) \in Nat
    BY <1>1, InJob, Types, HashLength
<1>3. Fetched(job[w], "confirm", chain, forks)
    BY DEF FetchInv
<1>4. On(foot, chain)
    BY <1>2 DEF Confirmed, Foot, On, At
<1>5. \A h \in job[w].logs : Len(h) \in job[w].first..job[w].last
    BY Types DEF Holds, Held
<1> DEFINE missing == { Len(h) : h \in job[w].logs } \ { Len(h) : h \in job[w].heads }
<1>6. \A n \in missing : At(n) = Ancestor(foot, n) /\ Len(At(n)) = n
  <2>1. \A n \in missing : n \in 0..Len(foot) /\ n \in 0..Len(chain)
      BY <1>2, <1>5
  <2> QED
      BY <1>2, <1>4, <2>1, OnBranch, AncestorIs DEF At
<1>7. ConfirmHeads(w) = job[w].heads \cup { At(n) : n \in missing }
    BY DEF ConfirmHeads
<1> HIDE DEF missing, foot
<1>8. \A h \in job[w].heads : h = Ancestor(foot, Len(h))
    BY <1>1, <1>3 DEF Fetched, foot
<1>9. \A h \in ConfirmHeads(w) : h = Ancestor(foot, Len(h))
    BY <1>6, <1>7, <1>8
<1> QED
    BY <1>3, <1>4, <1>9 DEF Fetched, foot

LEMMA FetchLiveConfirm ==
    ASSUME IndexInv, FetchInv, LiveConfirm PROVE FetchInv'
<1> DEFINE old == job["live"]
           foot == Foot(old)
           hs(last) == { h \in ConfirmHeads("live") : Len(h) <= last }
           ls(last) == { h \in old.logs : Len(h) <= last }
           J(last) == [old EXCEPT !.last = last, !.logs = ls(last), !.heads = hs(last)]
<1>1. PICK last \in {old.last} \cup { Len(h) : h \in old.logs } :
         job' = [job EXCEPT !["live"] = J(last)]
    BY DEF LiveConfirm
<1>2. "live" \in Workers /\ place["live"] = "confirm" /\ "confirm" \in Reading
    BY IndexAssumption DEF LiveConfirm, Reading
<1>3. /\ old \in JobType /\ Bounded(old) /\ foot \in old.heads
      /\ foot \in Hashes /\ Len(foot) = old.last
      /\ old.first \in Nat /\ old.last \in Nat /\ old.first <= old.last
    BY <1>2, InJob
<1>4. /\ chain \in Hashes /\ forks \in Nat /\ Len(chain) \in Nat
      /\ old.seen \in Hashes /\ Len(old.seen) \in Nat
    BY <1>3, Types, HashLength DEF IndexInv, IndexTypes, JobType
<1>5. /\ On(foot, chain) /\ old.logs = LogsFrom(foot, old.first)
      /\ \A h \in ConfirmHeads("live") : h = Ancestor(foot, Len(h))
    BY <1>2, ConfirmedBranch DEF LiveConfirm
<1>6. /\ ConfirmHeads("live") \subseteq Hashes /\ old.heads \subseteq ConfirmHeads("live")
      /\ \A h \in ConfirmHeads("live") : Len(h) \in old.first..old.last
    BY <1>2, ConfirmedHeads DEF LiveConfirm
<1>7. old.logs \subseteq ConfirmHeads("live")
    BY DEF LiveConfirm, Confirmed
<1>8. PICK top \in ConfirmHeads("live") : Len(top) = last
  <2>1. CASE last = old.last
      BY <1>3, <1>6, <2>1
  <2>2. CASE \E h \in old.logs : last = Len(h)
      BY <1>7, <2>2
  <2> QED
      BY <2>1, <2>2
<1>9. /\ top \in Hashes /\ last \in old.first..old.last /\ last \in Nat
      /\ top = Ancestor(foot, last)
    BY <1>3, <1>5, <1>6, <1>8
<1>10. \A h \in hs(last) : h = Ancestor(top, Len(h))
  <2> SUFFICES ASSUME NEW h \in hs(last) PROVE h = Ancestor(top, Len(h))
      OBVIOUS
  <2>1. h = Ancestor(foot, Len(h)) /\ Len(h) \in 0..last /\ last \in 0..Len(foot)
      BY <1>3, <1>5, <1>6, <1>9
  <2> QED
      BY <1>3, <1>9, <2>1, AncestorTwice
<1>11. /\ J(last).last = last /\ J(last).heads = hs(last) /\ J(last).logs = ls(last)
       /\ J(last).first = old.first /\ J(last).seen = old.seen
    BY <1>3 DEF JobType
<1>12. Foot(J(last)) = top
  <2>1. top \in hs(last) /\ \A h \in hs(last) : Len(h) = last => h = top
      BY <1>5, <1>8, <1>9
  <2> QED
      BY <1>8, <1>11, <2>1, FootIs DEF Foot
<1>13. Known(top, chain, forks)
  <2>1. last \in 0..Len(foot) /\ last \in 0..Len(chain)
      BY <1>3, <1>4, <1>5, <1>9 DEF On
  <2>2. top = Ancestor(chain, last)
      BY <1>3, <1>4, <1>5, <1>9, <2>1, OnBranch
  <2> QED
      BY <1>4, <2>1, <2>2, ReadIsKnown DEF FetchInv
<1>14. ls(last) = LogsFrom(top, old.first)
  <2>1. \A n \in old.first..last : /\ Ancestor(top, n) = Ancestor(foot, n)
                                   /\ Len(Ancestor(foot, n)) = n
    <3>1. \A n \in old.first..last : n \in 0..last /\ last \in 0..Len(foot) /\ n \in 0..Len(foot)
        BY <1>3, <1>9
    <3> QED
        BY <1>3, <1>9, <3>1, AncestorTwice, AncestorIs
  <2>2. \A n \in old.first..Len(foot) : Len(Ancestor(foot, n)) = n
    <3>1. \A n \in old.first..Len(foot) : n \in 0..Len(foot)
        BY <1>3
    <3> QED
        BY <1>3, <3>1, AncestorIs
  <2>3. old.first..last \subseteq old.first..Len(foot)
      BY <1>3, <1>9
  <2>4. ASSUME NEW b \in ls(last) PROVE b \in LogsFrom(top, old.first)
    <3>1. PICK n \in old.first..Len(foot) : b = Ancestor(foot, n) /\ HasLogs(b)
        BY <1>5 DEF LogsFrom
    <3>2. n \in old.first..last
        BY <1>3, <1>9, <2>2, <3>1
    <3> QED
        BY <1>8, <2>1, <3>1, <3>2 DEF LogsFrom
  <2>5. ASSUME NEW b \in LogsFrom(top, old.first) PROVE b \in ls(last)
    <3>1. PICK n \in old.first..last : b = Ancestor(top, n) /\ HasLogs(b)
        BY <1>8 DEF LogsFrom
    <3>2. b = Ancestor(foot, n) /\ Len(b) <= last /\ n \in old.first..Len(foot)
        BY <1>9, <2>1, <2>3, <3>1
    <3> QED
        BY <1>5, <3>1, <3>2 DEF LogsFrom
  <2> QED
      BY <2>4, <2>5
<1>15. Fetched(J(last), "store", chain, forks)
    BY <1>10, <1>11, <1>12, <1>13, <1>14 DEF Fetched
<1>16. old.first = Len(old.seen) + 1
    BY <1>2 DEF FetchInv, Extending
<1>17. old.seen = Ancestor(top, Len(old.seen))
  <2> DEFINE base == HeaderAt(old.heads, old.first)
  <2>1. base \in old.heads /\ Len(base) = old.first
      BY <1>3, HeaderFound DEF Bounded
  <2>2. base = Ancestor(foot, old.first) /\ base \in Hashes
      BY <1>5, <1>6, <2>1
  <2>3. HashParent(base) = old.seen
      BY DEF LiveConfirm, Extends
  <2> HIDE DEF base
  <2>4. base # <<>>
    <3>1. Len(base) # 0
        BY <1>4, <1>16, <2>1
    <3> QED
        BY <3>1
  <2>5. old.seen = Ancestor(base, Len(old.seen))
    <3>1. Len(base) - 1 = Len(old.seen)
        BY <1>4, <1>16, <2>1
    <3> QED
        BY <2>3, <2>4, <3>1 DEF HashParent, Front, Ancestor
  <2>6. /\ old.first \in 0..Len(foot) /\ Len(old.seen) \in 0..old.first
        /\ last \in 0..Len(foot) /\ Len(old.seen) \in 0..last
      BY <1>3, <1>4, <1>9, <1>16
  <2> HIDE DEF old, foot
  <2>7. Ancestor(base, Len(old.seen)) = Ancestor(foot, Len(old.seen))
      BY <1>3, <2>2, <2>6, AncestorTwice
  <2>8. Ancestor(top, Len(old.seen)) = Ancestor(foot, Len(old.seen))
      BY <1>3, <1>9, <2>6, AncestorTwice
  <2> QED
      BY <2>5, <2>7, <2>8
<1>18. Extending(J(last), "store")
    BY <1>11, <1>12, <1>16, <1>17 DEF Extending
<1>19. place' = [place EXCEPT !["live"] = "store"] /\ UNCHANGED chainVars
    BY DEF LiveConfirm, Goto
<1> HIDE DEF J
<1> QED
    BY <1>1, <1>2, <1>15, <1>18, <1>19, FetchMoves

LEMMA FetchHistoryConfirm ==
    ASSUME IndexInv, FetchInv, "history" \in Workers, HistoryConfirm PROVE FetchInv'
<1> DEFINE old == job["history"]
           foot == Foot(old)
           hs(first) == { h \in ConfirmHeads("history") : Len(h) >= first }
           ls(first) == { h \in old.logs : Len(h) >= first }
           cut(first) == first # old.first
           J(first) == [old EXCEPT !.first = first, !.cut = cut(first),
                                   !.logs = ls(first), !.heads = hs(first)]
<1>1. PICK first \in {old.first} \cup { Len(h) : h \in old.logs } :
         job' = [job EXCEPT !["history"] = J(first)]
    BY DEF HistoryConfirm
<1>2. place["history"] = "confirm" /\ "confirm" \in Reading
    BY DEF HistoryConfirm, Reading
<1>3. /\ old \in JobType /\ Bounded(old) /\ foot \in old.heads
      /\ foot \in Hashes /\ Len(foot) = old.last
      /\ old.first \in Nat /\ old.last \in Nat /\ old.first <= old.last
    BY <1>2, InJob
<1>4. /\ On(foot, chain) /\ old.logs = LogsFrom(foot, old.first)
      /\ \A h \in ConfirmHeads("history") : h = Ancestor(foot, Len(h))
    BY <1>2, ConfirmedBranch DEF HistoryConfirm
<1>5. old.heads \subseteq ConfirmHeads("history")
    BY <1>2, ConfirmedHeads DEF HistoryConfirm
<1>6. first \in old.first..old.last
  <2>1. \A h \in old.logs : Len(h) \in old.first..old.last
      BY <1>2, Types DEF Holds, Held
  <2> QED
      BY <1>3, <2>1
<1>7. /\ J(first).last = old.last /\ J(first).heads = hs(first) /\ J(first).logs = ls(first)
      /\ J(first).first = first
    BY <1>3 DEF JobType
<1>8. Foot(J(first)) = foot
  <2>1. foot \in hs(first) /\ \A h \in hs(first) : Len(h) = old.last => h = foot
    <3>1. foot \in ConfirmHeads("history") /\ Len(foot) >= first
        BY <1>3, <1>5, <1>6
    <3>2. \A h \in ConfirmHeads("history") : Len(h) = old.last => h = foot
        BY <1>3, <1>4, AncestorOfItself
    <3> QED
        BY <3>1, <3>2
  <2>2. Len(foot) = old.last
      BY <1>3
  <2>3. Foot(J(first)) = HeaderAt(J(first).heads, J(first).last)
      BY DEF Foot
  <2> HIDE DEF J, hs, foot
  <2>4. HeaderAt(hs(first), old.last) = foot
      BY <2>1, <2>2, FootIs
  <2> QED
      BY <1>7, <2>3, <2>4
<1>9. Known(foot, chain, forks)
    BY <1>2 DEF FetchInv, Fetched
<1>10. ls(first) = LogsFrom(foot, first)
  <2>1. \A n \in old.first..Len(foot) : Len(Ancestor(foot, n)) = n
    <3>1. \A n \in old.first..Len(foot) : n \in 0..Len(foot)
        BY <1>3
    <3> QED
        BY <1>3, <3>1, AncestorIs
  <2>2. first..Len(foot) \subseteq old.first..Len(foot)
      BY <1>3, <1>6
  <2>3. ASSUME NEW b \in ls(first) PROVE b \in LogsFrom(foot, first)
    <3>1. PICK n \in old.first..Len(foot) : b = Ancestor(foot, n) /\ HasLogs(b)
        BY <1>4 DEF LogsFrom
    <3>2. n \in first..Len(foot)
        BY <1>3, <1>6, <2>1, <3>1
    <3> QED
        BY <3>1, <3>2 DEF LogsFrom
  <2>4. ASSUME NEW b \in LogsFrom(foot, first) PROVE b \in ls(first)
    <3>1. PICK n \in first..Len(foot) : b = Ancestor(foot, n) /\ HasLogs(b)
        BY DEF LogsFrom
    <3>2. n \in old.first..Len(foot) /\ Len(b) >= first
        BY <1>6, <2>1, <2>2, <3>1
    <3> QED
        BY <1>4, <3>1, <3>2 DEF LogsFrom
  <2> QED
      BY <2>3, <2>4
<1>11. Fetched(J(first), "join", chain, forks)
    BY <1>4, <1>7, <1>8, <1>9, <1>10 DEF Fetched
<1>12. place' = [place EXCEPT !["history"] = "join"] /\ UNCHANGED chainVars
    BY DEF HistoryConfirm, Goto
<1> HIDE DEF J
<1> QED
    BY <1>1, <1>11, <1>12, FetchMoves

LEMMA FetchHistoryJoin ==
    ASSUME IndexInv, FetchInv, "history" \in Workers, HistoryJoin PROVE FetchInv'
<1>1. Fetched(job["history"], "store", chain, forks)
    BY DEF HistoryJoin, FetchInv, Fetched, Reading
<1>2. job' = [job EXCEPT !["history"] = job["history"]] /\ UNCHANGED chainVars
    BY DEF HistoryJoin, IndexInv, IndexTypes
<1>3. CASE Goto("history", "store")
    BY <1>1, <1>2, <1>3, FetchMoves DEF Goto
<1>4. CASE Goto("history", "anchored")
  <2>1. "anchored" \notin Reading
      BY DEF Reading
  <2> QED
      BY <1>2, <1>4, <2>1, FetchLeaves DEF Goto
<1> QED
    BY <1>3, <1>4 DEF HistoryJoin

LEMMA FetchCrash ==
    ASSUME IndexInv, FetchInv, Crash PROVE FetchInv'
<1>1. /\ chain' = chain /\ forks' = forks
      /\ \A w \in Workers : place'[w] \notin Reading
    BY DEF Crash, chainVars, Reading
<1> QED
    BY <1>1, NotReading, IndexAssumption DEF FetchInv

LEMMA FetchEnvironment ==
    ASSUME IndexInv, FetchInv, Environment PROVE FetchInv'
<1>1. job' = job /\ place' = place
    BY DEF Environment, workVars
<1>2. ASSUME NEW w \in Workers PROVE Fetched(job[w], place[w], chain', forks')
  <2>1. CASE place[w] \notin Reading
      BY <2>1, NotReading
  <2>2. CASE place[w] \in Reading
    <3>1. Foot(job[w]) \in Hashes /\ Fetched(job[w], place[w], chain, forks)
        BY <2>2, InJob DEF FetchInv
    <3>2. Known(Foot(job[w]), chain, forks)
        BY <2>2, <3>1 DEF Fetched
    <3>3. /\ Known(Foot(job[w]), chain', forks')
          /\ On(Foot(job[w]), chain') => On(Foot(job[w]), chain)
        BY <3>1, <3>2, KnownStays, OrphansStay
    <3> QED
        BY <3>1, <3>3 DEF Fetched
  <2> QED
      BY <2>1, <2>2
<1>3. \A n \in 1..Len(chain') : chain'[n] <= forks'
    BY ChainKnown DEF FetchInv
<1> QED
    BY <1>1, <1>2, <1>3 DEF FetchInv

LEMMA FetchInit == IndexInit => FetchInv
<1> SUFFICES ASSUME IndexInit PROVE FetchInv
    OBVIOUS
<1>1. \A n \in 1..Len(chain) : chain[n] <= forks
  <2>1. Len(chain) = StartHeight
      BY ChainAssumption DEF IndexInit, ChainInit
  <2> QED
      BY <2>1, ChainAssumption DEF IndexInit, ChainInit
<1>2. \A w \in Workers : place[w] \notin Reading
    BY DEF IndexInit, Reading
<1> QED
    BY <1>1, <1>2, NotReading, IndexAssumption DEF FetchInv

LEMMA FetchStep ==
    ASSUME IndexInv, FetchInv, [IndexNext]_vars PROVE FetchInv'
<1>1. CASE Environment
    BY <1>1, FetchEnvironment
<1>2. CASE LiveStep
  <2>1. CASE BootLive
    <3>1. "bootHistory" \notin Reading
        BY DEF Reading
    <3>2. PICK head \in Heads : job' = [job EXCEPT !["live"] = [NoJob EXCEPT !.last = head]]
        BY <2>1 DEF BootLive
    <3> QED
        BY <2>1, <3>1, <3>2, FetchLeaves, IndexAssumption DEF BootLive, Goto
  <2>2. CASE BootHistory \/ LiveStore
      BY <2>2, FetchFinishes, IndexAssumption DEF BootHistory, LiveStore
  <2>3. CASE BootFails
    <3>1. "boot" \notin Reading
        BY DEF Reading
    <3> QED
        BY <2>3, <3>1, FetchLeaves, IndexAssumption DEF BootFails, Goto
  <2>4. CASE LiveCompare
    <3>1. "observed" \notin Reading
        BY DEF Reading
    <3> QED
        BY <2>4, <3>1, FetchLeaves, IndexAssumption DEF LiveCompare, Goto
  <2>5. CASE LiveDiverges \/ LiveRefused
    <3>1. "conflict" \notin Reading /\ "observed" \notin Reading
        BY DEF Reading
    <3> QED
        BY <2>5, <3>1, FetchTurns, IndexAssumption DEF LiveDiverges, LiveRefused
  <2> QED
      BY <1>2, <2>1, <2>2, <2>3, <2>4, <2>5, FetchLiveFetch, FetchLiveConfirm DEF LiveStep
<1>3. CASE HistoryStep
  <2>1. CASE HistoryReadOrigin
    <3>1. "origin" \notin Reading
        BY DEF Reading
    <3> QED
        BY <1>3, <2>1, <3>1, FetchLeaves DEF HistoryReadOrigin, Goto, HistoryStep
  <2>2. CASE HistoryResolve \/ HistoryStore
      BY <1>3, <2>2, FetchFinishes DEF HistoryResolve, HistoryStore, HistoryStep
  <2> QED
      BY <1>3, <2>1, <2>2, FetchHistoryFetch, FetchHistoryConfirm, FetchHistoryJoin
      DEF HistoryStep
<1>4. CASE EnrichStep
  <2>1. "anchored" \notin Reading
      BY DEF Reading
  <2>2. PICK e \in events : job' = [job EXCEPT !["enrich"] = [NoJob EXCEPT !.seen = e]]
      BY <1>4 DEF EnrichStep, EnrichFindsOrphan
  <2> QED
      BY <1>4, <2>1, <2>2, FetchLeaves DEF EnrichStep, EnrichFindsOrphan, Goto
<1>5. ASSUME NEW w \in Workers, ReadLogs(w) \/ GiveUp(w) \/ RecoverStep(w)
      PROVE  FetchInv'
  <2>1. CASE ReadLogs(w)
      BY <2>1, FetchReadLogs
  <2>2. CASE GiveUp(w) \/ RecoverSkips(w) \/ RecoverHistory(w) \/ RecoverFails(w)
      BY <2>2, FetchFinishes DEF GiveUp, RecoverSkips, RecoverHistory, RecoverFails
  <2>3. CASE RecoverLocate(w) \/ RecoverRollback(w) \/ RecoverLive(w)
    <3>1. "rollback" \notin Reading /\ "relive" \notin Reading /\ "rehistory" \notin Reading
        BY DEF Reading
    <3> QED
        BY <2>3, <3>1, FetchTurns DEF RecoverLocate, RecoverRollback, RecoverLive
  <2> QED
      BY <1>5, <2>1, <2>2, <2>3 DEF RecoverStep
<1>6. CASE Crash
    BY <1>6, FetchCrash
<1>7. CASE UNCHANGED vars
    BY <1>7 DEF vars, chainVars, workVars, FetchInv
<1> QED
    BY <1>1, <1>2, <1>3, <1>4, <1>5, <1>6, <1>7 DEF IndexNext

LEMMA FetchSafe == IndexSpec => []FetchInv
<1>1. IndexInv /\ FetchInv /\ [IndexNext]_vars => FetchInv'
    BY FetchStep
<1> QED
    BY <1>1, FetchInit, IndexSafe, PTL DEF IndexSpec

(***************************************************************************)
(* An interval a lane holds ready to store: all its headers are on the     *)
(* branch of the last one, its logs are exactly those of that branch, and  *)
(* a live interval extends the cursor it was read above.                   *)
(***************************************************************************)
IntervalsExact ==
    \A w \in Workers :
        place[w] \in {"join", "store"} =>
            /\ \A h \in job[w].heads : On(h, Foot(job[w]))
            /\ job[w].logs = LogsFrom(Foot(job[w]), job[w].first)
            /\ w = "live" => /\ job[w].first = Len(job[w].seen) + 1
                             /\ On(job[w].seen, Foot(job[w]))

(***************************************************************************)
(* _fetch_interval reads boundaries, logs and headers in separate waves    *)
(* while the chain reorganises.  Reading the last header again, and a      *)
(* header for each block with logs, is enough: whatever happens between    *)
(* the waves, nothing is stored that mixes two branches or misses a log.   *)
(***************************************************************************)
THEOREM IntervalsAlwaysExact == IndexSpec => []IntervalsExact
<1>1. IndexInv /\ FetchInv => IntervalsExact
  <2> SUFFICES ASSUME IndexInv, FetchInv, NEW w \in Workers, place[w] \in {"join", "store"}
               PROVE  /\ \A h \in job[w].heads : On(h, Foot(job[w]))
                      /\ job[w].logs = LogsFrom(Foot(job[w]), job[w].first)
                      /\ w = "live" => /\ job[w].first = Len(job[w].seen) + 1
                                       /\ On(job[w].seen, Foot(job[w]))
      BY DEF IntervalsExact
  <2>1. place[w] \in Reading /\ Fetched(job[w], place[w], chain, forks)
      BY DEF Reading, FetchInv
  <2>2. /\ Len(Foot(job[w])) = job[w].last /\ Bounded(job[w])
        /\ job[w].first \in Nat /\ job[w].last \in Nat /\ job[w].first <= job[w].last
      BY <2>1, InJob
  <2>3. \A h \in job[w].heads : On(h, Foot(job[w]))
      BY <2>1, <2>2 DEF Fetched, On, Bounded
  <2>4. job[w].logs = LogsFrom(Foot(job[w]), job[w].first)
      BY <2>1 DEF Fetched
  <2>5. ASSUME w = "live"
        PROVE  job[w].first = Len(job[w].seen) + 1 /\ On(job[w].seen, Foot(job[w]))
    <3>1. CASE place[w] = "store"
      <4>1. job[w].seen \in Hashes /\ Len(job[w].seen) \in Nat
          BY <2>1, InJob, HashLength DEF JobType
      <4> QED
          BY <2>2, <2>5, <3>1, <4>1 DEF FetchInv, Extending, On
    <3>2. place[w] # "join"
        BY <2>5 DEF FetchInv, Extending
    <3> QED
        BY <3>1, <3>2
  <2> QED
      BY <2>3, <2>4, <2>5
<1> QED
    BY <1>1, FetchSafe, IndexSafe, PTL

-----------------------------------------------------------------------------
(* The tables until the first rollback and the first restart.              *)

FirstLife == epoch = 0 /\ crashes = 0

\* While the live cursor is canonical, every event is on its branch, every
\* covered number up to it has its events, and the history lane works below
\* it, on its branch once its interval is confirmed.
OnLiveBranch ==
    /\ \A e \in events : HasLogs(e) /\ On(e, live.at)
    /\ \A l \in Lanes : \A n \in covered[l] :
          /\ n <= Len(live.at)
          /\ HasLogs(Ancestor(live.at, n)) => Ancestor(live.at, n) \in events
    /\ history.init => history.nextTo <= Len(live.at)
    /\ "history" \in Workers =>
          /\ place["history"] \in Reading => job["history"].last <= Len(live.at)
          /\ place["history"] \in {"join", "store"} => On(Foot(job["history"]), live.at)
    /\ place["live"] # "boot"
    /\ place["live"] = "bootHistory" => Higher(0, job["live"].last - 1) = Len(live.at)

\* Startup comes first, and is begun again only when the live cursor it wrote
\* is orphaned; no recovery has come as far as its rollback.
FirstRun ==
    /\ covered \in [Lanes -> SUBSET Nat]
    /\ \A w \in Workers : place[w] \notin {"relive", "rehistory"}
    /\ ~live.init => /\ place["live"] = "boot" /\ blocks = {} /\ events = {}
                     /\ \A l \in Lanes : covered[l] = {}
    /\ ~Booted => /\ blocks \subseteq {live.at} /\ ~history.init
                  /\ \A w \in Workers \ {"live"} : place[w] = "idle"
    /\ live.init => Known(live.at, chain, forks)
    /\ live.init /\ On(live.at, chain) => OnLiveBranch

FirstInv == crashes \in Nat /\ (FirstLife => FirstRun)

LEMMA OnBoth ==
    ASSUME NEW g \in Hashes, NEW h \in Hashes, NEW c \in Hashes,
           On(g, c), On(h, c), Len(g) <= Len(h)
    PROVE  On(g, h)
<1>1. Len(g) \in 0..Len(h)
    BY HashLength
<1> QED
    BY <1>1, OnBranch DEF On

LEMMA LiveTypes ==
    ASSUME IndexInv
    PROVE  /\ live.init \in BOOLEAN /\ live.at \in Hashes /\ Len(live.at) \in Nat
           /\ history \in HistoryType /\ chain \in Hashes /\ Len(chain) \in Nat
           /\ events \subseteq Hashes /\ blocks \subseteq Hashes
BY HashLength, Types DEF IndexInv, IndexTypes, LiveCursor

\* A worker in the middle of something: startup is over.
LEMMA StartedUp ==
    ASSUME FirstRun, NEW w \in Workers, place[w] \notin {"boot", "bootHistory"},
           w # "live" => place[w] # "idle"
    PROVE  Booted
BY DEF FirstRun, Booted

\* A step after startup that leaves the events, the coverage and the live
\* cursor alone and does not put the history cursor higher.
LEMMA FirstMoves ==
    ASSUME IndexInv, FirstInv, NEW w \in Workers, NEW j, NEW p,
           FirstLife /\ FirstRun => Booted,
           job' = [job EXCEPT ![w] = j], place' = [place EXCEPT ![w] = p],
           UNCHANGED <<chainVars, events, covered, live, epoch, crashes>>,
           history'.init => history.init /\ history'.nextTo = history.nextTo,
           p \notin {"boot", "bootHistory", "relive", "rehistory"},
           w = "history" /\ live.init /\ On(live.at, chain) /\ FirstLife /\ OnLiveBranch =>
               /\ p \in Reading => j.last <= Len(live.at)
               /\ p \in {"join", "store"} => On(Foot(j), live.at)
    PROVE  FirstInv'
<1>1. /\ chain' = chain /\ forks' = forks /\ events' = events /\ covered' = covered
      /\ live' = live /\ epoch' = epoch /\ crashes' = crashes
    BY DEF chainVars
<1>2. place'[w] = p /\ job'[w] = j
    BY DEF IndexInv, IndexTypes
<1>3. \A v \in Workers : v # w => job'[v] = job[v] /\ place'[v] = place[v]
    BY DEF IndexInv, IndexTypes
<1> SUFFICES ASSUME FirstLife PROVE FirstRun'
    BY <1>1 DEF FirstInv, FirstLife
<1>4. FirstRun /\ Booted
    BY DEF FirstInv
<1>5. live.init /\ "live" \in Workers
    BY <1>4, IndexAssumption DEF FirstRun, Booted
<1>6. place'["live"] \notin {"boot", "bootHistory"}
    BY <1>2, <1>3, <1>4, <1>5 DEF Booted
<1>7. \A v \in Workers : place'[v] \notin {"relive", "rehistory"}
    BY <1>2, <1>3, <1>4 DEF FirstRun
<1>8. ASSUME On(live.at, chain) PROVE OnLiveBranch'
  <2>1. OnLiveBranch
      BY <1>4, <1>5, <1>8 DEF FirstRun
  <2>2. "history" \in Workers =>
          /\ place'["history"] \in Reading => job'["history"].last <= Len(live.at)
          /\ place'["history"] \in {"join", "store"} => On(Foot(job'["history"]), live.at)
      BY <1>2, <1>3, <1>5, <1>8, <2>1 DEF OnLiveBranch
  <2>3. history'.init => history'.nextTo <= Len(live.at)
      BY <2>1 DEF OnLiveBranch
  <2>4. \A e \in events : HasLogs(e) /\ On(e, live.at)
      BY <2>1 DEF OnLiveBranch
  <2>5. \A l \in Lanes : \A n \in covered[l] :
          /\ n <= Len(live.at)
          /\ HasLogs(Ancestor(live.at, n)) => Ancestor(live.at, n) \in events
      BY <2>1 DEF OnLiveBranch
  <2> QED
      BY <1>1, <1>6, <2>2, <2>3, <2>4, <2>5 DEF OnLiveBranch, Foot
<1>9. Booted'
    BY <1>6 DEF Booted
<1> QED
    BY <1>1, <1>4, <1>5, <1>7, <1>8, <1>9 DEF FirstRun

\* The same for a worker that is not the history lane, or keeps no interval.
LEMMA FirstLeaves ==
    ASSUME IndexInv, FirstInv, NEW w \in Workers, NEW j, NEW p,
           FirstLife /\ FirstRun => Booted,
           job' = [job EXCEPT ![w] = j], place' = [place EXCEPT ![w] = p],
           UNCHANGED <<chainVars, events, covered, live, epoch, crashes>>,
           history'.init => history.init /\ history'.nextTo = history.nextTo,
           p \notin {"boot", "bootHistory", "relive", "rehistory"},
           w # "history" \/ p \notin Reading
    PROVE  FirstInv'
<1>1. p \in {"join", "store"} => p \in Reading
    BY DEF Reading
<1> QED
    BY <1>1, FirstMoves

LEMMA FirstFinishes ==
    ASSUME IndexInv, FirstInv, NEW w \in Workers, FirstLife /\ FirstRun => Booted,
           Finish(w), UNCHANGED <<chainVars, tables, crashes>>
    PROVE  FirstInv'
<1>1. "idle" \notin Reading
    BY DEF Reading
<1>2. UNCHANGED <<chainVars, events, covered, live, epoch, crashes>> /\ history' = history
    BY DEF tables
<1> QED
    BY <1>1, <1>2, FirstLeaves DEF Finish, Goto

LEMMA FirstTurns ==
    ASSUME IndexInv, FirstInv, NEW w \in Workers, NEW p, FirstLife /\ FirstRun => Booted,
           Goto(w, p), UNCHANGED <<chainVars, tables, job, crashes>>,
           p \notin {"boot", "bootHistory", "relive", "rehistory"}, p \notin Reading
    PROVE  FirstInv'
<1>1. job' = [job EXCEPT ![w] = job[w]]
    BY DEF IndexInv, IndexTypes
<1>2. UNCHANGED <<chainVars, events, covered, live, epoch, crashes>> /\ history' = history
    BY DEF tables
<1> QED
    BY <1>1, <1>2, FirstLeaves DEF Goto

LEMMA FirstReads ==
    ASSUME IndexInv, FirstInv, NEW w \in Workers, ReadLogs(w) PROVE FirstInv'
<1> DEFINE logs == { h \in { At(n) : n \in job[w].first..Lower(job[w].last, Len(chain)) } :
                        HasLogs(h) }
           j == [job[w] EXCEPT !.logs = logs]
<1>1. place[w] = "logs" /\ "logs" \in Reading
    BY DEF ReadLogs, Reading
<1>2. FirstLife /\ FirstRun => Booted
    BY <1>1, StartedUp
<1>3. job' = [job EXCEPT ![w] = j] /\ place' = [place EXCEPT ![w] = "confirm"]
    BY DEF ReadLogs, Goto
<1> HIDE DEF logs
<1>4. j.last = job[w].last
    BY Types DEF JobType
<1> HIDE DEF j
<1>5. UNCHANGED <<chainVars, events, covered, live, epoch, crashes>> /\ history' = history
    BY DEF ReadLogs, tables
<1>6. w = "history" /\ OnLiveBranch => j.last <= Len(live.at)
    BY <1>1, <1>4 DEF OnLiveBranch
<1> QED
    BY <1>2, <1>3, <1>5, <1>6, FirstMoves

LEMMA FirstHistoryFetch ==
    ASSUME IndexInv, FirstInv, "history" \in Workers, HistoryFetch PROVE FirstInv'
<1> DEFINE J(first) == [NoJob EXCEPT !.seen = history.hash, !.epoch = epoch,
                          !.first = first, !.last = history.nextTo,
                          !.heads = {At(first), At(history.nextTo)},
                          !.below = history.scanned]
<1>1. PICK first \in Higher(history.target, history.nextTo - HistoryChunk + 1)..history.nextTo :
         job' = [job EXCEPT !["history"] = J(first)]
    BY DEF HistoryFetch
<1>2. J(first).last = history.nextTo
    BY DEF NoJob
<1> HIDE DEF J
<1>3. OnLiveBranch => J(first).last <= Len(live.at)
    BY <1>2 DEF HistoryFetch, OnLiveBranch
<1>4. /\ UNCHANGED <<chainVars, events, covered, live, epoch, crashes>> /\ history' = history
      /\ Booted /\ place' = [place EXCEPT !["history"] = "logs"]
    BY DEF HistoryFetch, tables, Goto
<1> QED
    BY <1>1, <1>3, <1>4, FirstMoves

LEMMA FirstHistoryConfirm ==
    ASSUME IndexInv, FetchInv, FirstInv, "history" \in Workers, HistoryConfirm
    PROVE  FirstInv'
<1> DEFINE old == job["history"]
           foot == Foot(old)
           J(first) == [old EXCEPT
                          !.first = first,
                          !.cut = first # old.first,
                          !.logs = { h \in old.logs : Len(h) >= first },
                          !.heads = { h \in ConfirmHeads("history") : Len(h) >= first }]
<1>1. PICK first \in {old.first} \cup { Len(h) : h \in old.logs } :
         job' = [job EXCEPT !["history"] = J(first)]
    BY DEF HistoryConfirm
<1>2. place["history"] = "confirm" /\ "confirm" \in Reading
    BY DEF HistoryConfirm, Reading
<1>3. /\ old \in JobType /\ Bounded(old) /\ foot \in old.heads
      /\ foot \in Hashes /\ Len(foot) = old.last
      /\ old.first \in Nat /\ old.last \in Nat /\ old.first <= old.last
    BY <1>2, InJob
<1>4. /\ On(foot, chain)
      /\ \A h \in ConfirmHeads("history") : h = Ancestor(foot, Len(h))
    BY <1>2, ConfirmedBranch DEF HistoryConfirm
<1>5. old.heads \subseteq ConfirmHeads("history")
    BY <1>2, ConfirmedHeads DEF HistoryConfirm
<1>6. first <= old.last
  <2>1. \A h \in old.logs : Len(h) \in old.first..old.last
      BY <1>2, Types DEF Holds, Held
  <2> QED
      BY <1>3, <2>1
<1> DEFINE hs == { h \in ConfirmHeads("history") : Len(h) >= first }
           ls == { h \in old.logs : Len(h) >= first }
           cut == first # old.first
<1>7. J(first) = [old EXCEPT !.first = first, !.cut = cut, !.logs = ls, !.heads = hs]
    OBVIOUS
<1>8. foot \in hs /\ \A h \in hs : Len(h) = old.last => h = foot
  <2>1. foot \in ConfirmHeads("history") /\ Len(foot) >= first
      BY <1>3, <1>5, <1>6
  <2>2. \A h \in ConfirmHeads("history") : Len(h) = old.last => h = foot
      BY <1>3, <1>4, AncestorOfItself
  <2> QED
      BY <2>1, <2>2
<1> HIDE DEF hs, ls, cut, J
<1>9. J(first).last = old.last /\ J(first).heads = hs
    BY <1>3, <1>7 DEF JobType
<1>10. Foot(J(first)) = foot
  <2>1. Foot(J(first)) = HeaderAt(J(first).heads, J(first).last)
      BY DEF Foot
  <2>2. Len(foot) = old.last
      BY <1>3
  <2> HIDE DEF foot
  <2>3. HeaderAt(hs, old.last) = foot
      BY <1>8, <2>2, FootIs
  <2> QED
      BY <1>9, <2>1, <2>3
<1>11. ASSUME On(live.at, chain), OnLiveBranch
       PROVE  J(first).last <= Len(live.at) /\ On(Foot(J(first)), live.at)
  <2>1. old.last <= Len(live.at)
      BY <1>2, <1>11 DEF OnLiveBranch
  <2>2. On(foot, live.at)
      BY <1>3, <1>4, <1>11, <2>1, OnBoth, LiveTypes
  <2> QED
      BY <1>9, <1>10, <2>1, <2>2
<1>12. FirstLife /\ FirstRun => Booted
    BY <1>2, StartedUp
<1>13. /\ UNCHANGED <<chainVars, events, covered, live, epoch, crashes>> /\ history' = history
       /\ place' = [place EXCEPT !["history"] = "join"]
    BY DEF HistoryConfirm, tables, Goto
<1> QED
    BY <1>1, <1>11, <1>12, <1>13, FirstMoves

LEMMA FirstHistoryJoin ==
    ASSUME IndexInv, FirstInv, "history" \in Workers, HistoryJoin PROVE FirstInv'
<1>1. place["history"] = "join" /\ "join" \in Reading
    BY DEF HistoryJoin, Reading
<1>2. FirstLife /\ FirstRun => Booted
    BY <1>1, StartedUp
<1>3. job' = [job EXCEPT !["history"] = job["history"]]
    BY DEF HistoryJoin, IndexInv, IndexTypes
<1>4. UNCHANGED <<chainVars, tables, job, crashes>>
    BY DEF HistoryJoin
<1>5. UNCHANGED <<chainVars, events, covered, live, epoch, crashes>> /\ history' = history
    BY <1>4 DEF tables
<1>6. CASE Goto("history", "store")
  <2>1. OnLiveBranch => /\ job["history"].last <= Len(live.at)
                        /\ On(Foot(job["history"]), live.at)
      BY <1>1 DEF OnLiveBranch
  <2> QED
      BY <1>2, <1>3, <1>5, <1>6, <2>1, FirstMoves DEF Goto
<1>7. CASE Goto("history", "anchored")
  <2>1. "anchored" \notin Reading
      BY DEF Reading
  <2> QED
      BY <1>2, <1>4, <1>7, <2>1, FirstTurns
<1> QED
    BY <1>6, <1>7 DEF HistoryJoin

\* Resolving a lookback stores a header and moves the target, not the cursor.
LEMMA FirstHistoryResolve ==
    ASSUME IndexInv, FirstInv, "history" \in Workers, HistoryResolve PROVE FirstInv'
<1>1. place["history"] = "origin" /\ "idle" \notin Reading
    BY DEF HistoryResolve, Reading
<1>2. FirstLife /\ FirstRun => Booted
    BY <1>1, StartedUp
<1>3. PICK origin \in job["history"].heads :
         ResolveTarget(origin, Higher(0, Len(origin) - Lookback),
                       job["history"].last, job["history"].epoch)
    BY DEF HistoryResolve
<1> DEFINE target == Higher(0, Len(origin) - Lookback)
           complete == job["history"].last < target
<1>4. history' = [history EXCEPT !.target = target, !.pending = FALSE, !.complete = complete]
    BY <1>3 DEF ResolveTarget
<1> HIDE DEF target, complete
<1>5. history'.init = history.init /\ history'.nextTo = history.nextTo
    BY <1>4, LiveTypes DEF HistoryType
<1>6. UNCHANGED <<chainVars, events, covered, live, epoch, crashes>>
    BY <1>3 DEF HistoryResolve, ResolveTarget
<1> QED
    BY <1>1, <1>2, <1>5, <1>6, FirstLeaves DEF HistoryResolve, Finish, Goto

LEMMA FirstLiveQuiet ==
    ASSUME IndexInv, FirstInv,
           LiveCompare \/ LiveFetch \/ LiveConfirm \/ LiveDiverges \/ LiveRefused
    PROVE  FirstInv'
<1>1. "live" \in Workers /\ Booted
    BY IndexAssumption DEF Booted, LiveCompare, LiveFetch, LiveConfirm, LiveDiverges,
       LiveRefused
<1>2. UNCHANGED <<chainVars, events, covered, live, epoch, crashes>> /\ history' = history
    BY DEF LiveCompare, LiveFetch, LiveConfirm, LiveDiverges, LiveRefused, tables
<1>3. \E j : job' = [job EXCEPT !["live"] = j]
  <2>1. CASE LiveCompare
      BY <2>1 DEF LiveCompare
  <2>2. CASE LiveFetch
      BY <2>2 DEF LiveFetch
  <2>3. CASE LiveConfirm
      BY <2>3 DEF LiveConfirm
  <2>4. CASE LiveDiverges \/ LiveRefused
    <3>1. job' = [job EXCEPT !["live"] = job["live"]]
        BY <2>4 DEF LiveDiverges, LiveRefused, IndexInv, IndexTypes
    <3> QED
        BY <3>1
  <2> QED
      BY <2>1, <2>2, <2>3, <2>4
<1>4. PICK j : job' = [job EXCEPT !["live"] = j]
    BY <1>3
<1>5. PICK p \in {"observed", "logs", "store", "conflict"} :
         place' = [place EXCEPT !["live"] = p]
    BY DEF LiveCompare, LiveFetch, LiveConfirm, LiveDiverges, LiveRefused, Goto
<1> QED
    BY <1>1, <1>2, <1>4, <1>5, FirstLeaves

LEMMA FirstOthers ==
    ASSUME IndexInv, FirstInv, NEW w \in Workers,
           \/ GiveUp(w) \/ RecoverSkips(w) \/ RecoverLocate(w) \/ RecoverFails(w)
    PROVE  FirstInv'
<1>1. FirstLife /\ FirstRun => Booted
  <2>1. place[w] \notin {"boot", "bootHistory", "idle"}
      BY DEF GiveUp, RecoverSkips, RecoverLocate, RecoverFails, Scanning, Repairing, Locked
  <2> QED
      BY <2>1, StartedUp
<1>2. CASE GiveUp(w) \/ RecoverSkips(w) \/ RecoverFails(w)
    BY <1>1, <1>2, FirstFinishes DEF GiveUp, RecoverSkips, RecoverFails
<1>3. CASE RecoverLocate(w)
  <2>1. "rollback" \notin Reading
      BY DEF Reading
  <2> QED
      BY <1>1, <1>3, <2>1, FirstTurns DEF RecoverLocate
<1> QED
    BY <1>2, <1>3

LEMMA FirstReadOrigin ==
    ASSUME IndexInv, FirstInv, "history" \in Workers, HistoryReadOrigin PROVE FirstInv'
<1>1. "origin" \notin Reading /\ Booted
    BY DEF HistoryReadOrigin, Reading
<1>2. UNCHANGED <<chainVars, events, covered, live, epoch, crashes>> /\ history' = history
    BY DEF HistoryReadOrigin, tables
<1> QED
    BY <1>1, <1>2, FirstLeaves DEF HistoryReadOrigin, Goto

LEMMA FirstFindsOrphan ==
    ASSUME IndexInv, FirstInv, EnrichStep PROVE FirstInv'
<1>1. "anchored" \notin Reading /\ Booted /\ "enrich" \in Workers
    BY DEF EnrichStep, EnrichFindsOrphan, Reading
<1>2. UNCHANGED <<chainVars, events, covered, live, epoch, crashes>> /\ history' = history
    BY DEF EnrichStep, EnrichFindsOrphan, tables
<1>3. PICK e \in events : job' = [job EXCEPT !["enrich"] = [NoJob EXCEPT !.seen = e]]
    BY DEF EnrichStep, EnrichFindsOrphan
<1> QED
    BY <1>1, <1>2, <1>3, FirstLeaves DEF EnrichStep, EnrichFindsOrphan, Goto

\* A rollback ends the first life; what follows it is not of this life.
LEMMA FirstRecovers ==
    ASSUME IndexInv, FirstInv, NEW w \in Workers,
           RecoverRollback(w) \/ RecoverLive(w) \/ RecoverHistory(w)
    PROVE  FirstInv'
<1>1. crashes' = crashes
    BY DEF RecoverRollback, RecoverLive, RecoverHistory
<1>2. CASE RecoverRollback(w)
  <2>1. epoch' = epoch + 1 /\ epoch \in Nat
      BY <1>2, Types DEF RecoverRollback, Rollback
  <2> QED
      BY <1>1, <2>1 DEF FirstInv, FirstLife
<1>3. CASE RecoverLive(w) \/ RecoverHistory(w)
  <2>1. epoch' = epoch
      BY <1>3 DEF RecoverLive, RecoverHistory, AnchorLive, AnchorHistory, tables
  <2>2. place[w] \in {"relive", "rehistory"}
      BY <1>3 DEF RecoverLive, RecoverHistory
  <2>3. ~FirstLife
      BY <2>2 DEF FirstInv, FirstRun
  <2> QED
      BY <1>1, <2>1, <2>3 DEF FirstInv, FirstLife
<1> QED
    BY <1>2, <1>3

LEMMA FirstCrash ==
    ASSUME IndexInv, FirstInv, Crash PROVE FirstInv'
<1>1. crashes' = crashes + 1 /\ crashes \in Nat
    BY DEF Crash, FirstInv
<1> QED
    BY <1>1 DEF FirstInv, FirstLife

LEMMA FirstEnvironment ==
    ASSUME IndexInv, FirstInv, Environment PROVE FirstInv'
<1>1. UNCHANGED <<blocks, events, covered, live, history, epoch, place, job, crashes>>
    BY DEF Environment, tables, workVars
<1> SUFFICES ASSUME FirstLife PROVE FirstRun'
    BY <1>1 DEF FirstInv, FirstLife
<1>2. FirstRun
    BY DEF FirstInv
<1>3. live.init => Known(live.at, chain', forks')
    BY <1>2, KnownStays, LiveTypes DEF FirstRun
<1>4. live.init /\ On(live.at, chain') => OnLiveBranch
    BY <1>2, OrphansStay, LiveTypes DEF FirstRun
<1>5. OnLiveBranch => OnLiveBranch'
    BY <1>1 DEF OnLiveBranch
<1>6. Booted <=> Booted'
    BY <1>1 DEF Booted
<1> QED
    BY <1>1, <1>2, <1>3, <1>4, <1>5, <1>6 DEF FirstRun

\* Startup anchors the live cursor, or finds the one it wrote before orphaned.
LEMMA FirstBootLive ==
    ASSUME IndexInv, FetchInv, FirstInv, BootLive PROVE FirstInv'
<1>1. PICK head \in Heads :
         /\ job' = [job EXCEPT !["live"] = [NoJob EXCEPT !.last = head]]
         /\ IF live.init THEN UNCHANGED tables ELSE AnchorLive(At(Higher(0, head - 1)))
    BY DEF BootLive
<1>2. head \in 0..Len(chain) /\ Len(chain) \in Nat
    BY HeadsInChain, Types
<1>3. /\ place["live"] = "boot" /\ place' = [place EXCEPT !["live"] = "bootHistory"]
      /\ chain' = chain /\ forks' = forks /\ crashes' = crashes
    BY DEF BootLive, Goto, chainVars
<1>4. /\ place'["live"] = "bootHistory"
      /\ \A v \in Workers : v # "live" => place'[v] = place[v]
    BY <1>3, IndexAssumption DEF IndexInv, IndexTypes
<1>5. epoch' = epoch /\ history' = history /\ events' = events /\ covered' = covered
    BY <1>1 DEF tables, AnchorLive
<1> SUFFICES ASSUME FirstLife PROVE FirstRun'
    BY <1>3, <1>5 DEF FirstInv, FirstLife
<1>6. FirstRun
    BY DEF FirstInv
<1>7. /\ ~Booted /\ ~Booted'
      /\ blocks \subseteq {live.at} /\ ~history.init
      /\ \A v \in Workers \ {"live"} : place'[v] = "idle"
    BY <1>3, <1>4, <1>6 DEF FirstRun, Booted
<1>8. \A v \in Workers : place'[v] \notin {"relive", "rehistory"}
    BY <1>4, <1>7
<1>9. CASE live.init
  <2>1. ~On(live.at, chain)
      BY <1>3, <1>6, <1>9 DEF FirstRun, OnLiveBranch
  <2>2. live' = live /\ blocks' = blocks
      BY <1>1, <1>9 DEF tables
  <2> QED
      BY <1>3, <1>5, <1>6, <1>7, <1>8, <1>9, <2>1, <2>2 DEF FirstRun
<1>10. CASE ~live.init
  <2> DEFINE n == Higher(0, head - 1)
             h == At(n)
  <2>1. n \in 0..Len(chain)
      BY <1>2 DEF Higher
  <2>2. h \in Hashes /\ Len(h) = n
      BY <2>1, AncestorIs, LiveTypes DEF At
  <2>3. Known(h, chain, forks)
      BY <2>1, ReadIsKnown, LiveTypes DEF At, FetchInv, IndexInv, IndexTypes
  <2>4. blocks = {} /\ events = {} /\ \A l \in Lanes : covered[l] = {}
      BY <1>6, <1>10 DEF FirstRun
  <2>5. live' = [init |-> TRUE, at |-> h] /\ blocks' = blocks \cup {h}
      BY <1>1, <1>10 DEF AnchorLive, StoreHeaders
  <2> HIDE DEF h
  <2>6. live'.init /\ live'.at = h /\ blocks' = {h}
      BY <2>4, <2>5
  <2>7. job'["live"].last = head
      BY <1>1, IndexAssumption DEF IndexInv, IndexTypes, NoJob
  <2>8. "history" \in Workers => place'["history"] \notin Reading \cup {"join", "store"}
      BY <1>7 DEF Reading
  <2>9. OnLiveBranch'
      BY <1>4, <1>5, <1>7, <2>2, <2>4, <2>6, <2>7, <2>8 DEF OnLiveBranch
  <2> QED
      BY <1>3, <1>5, <1>6, <1>7, <1>8, <2>3, <2>6, <2>9 DEF FirstRun
<1> QED
    BY <1>9, <1>10

LEMMA FreshNext ==
    ASSUME NEW n \in Nat, NEW target, NEW pending \in BOOLEAN, NEW origin,
           NEW complete \in BOOLEAN,
           AnchorHistory(At(n), FreshHistory(At(n), n + 1, target, pending, origin,
                                             complete))
    PROVE  history'.nextTo = n
BY DEF FreshHistory, AnchorHistory

LEMMA BootNext ==
    ASSUME NEW head, head = job["live"].last, NEW n \in Nat, n = Higher(0, head - 1),
           BootHistory, ~history.init
    PROVE  history'.nextTo = n
<1> DEFINE target == IF Lookback = 0 THEN head ELSE 0
           pending == Lookback > 0
           complete == Lookback = 0
<1>1. AnchorHistory(At(n), FreshHistory(At(n), n + 1, target, pending, head, complete))
    BY DEF BootHistory
<1>2. pending \in BOOLEAN /\ complete \in BOOLEAN
    OBVIOUS
<1> HIDE DEF target, pending, complete
<1> QED
    BY <1>1, <1>2, FreshNext

\* The history cursor starts at the number of the live cursor.
LEMMA FirstBootHistory ==
    ASSUME IndexInv, FirstInv, BootHistory PROVE FirstInv'
<1> DEFINE anchor == Higher(0, job["live"].last - 1)
<1>1. /\ place["live"] = "bootHistory" /\ place' = [place EXCEPT !["live"] = "idle"]
      /\ job' = [job EXCEPT !["live"] = NoJob]
      /\ chain' = chain /\ forks' = forks /\ crashes' = crashes
    BY DEF BootHistory, Finish, Goto, chainVars
<1>2. /\ place'["live"] = "idle"
      /\ \A v \in Workers : v # "live" => place'[v] = place[v] /\ job'[v] = job[v]
    BY <1>1, IndexAssumption DEF IndexInv, IndexTypes
<1>3. /\ epoch' = epoch /\ events' = events /\ covered' = covered /\ live' = live
    BY DEF BootHistory, tables, AnchorHistory
<1> SUFFICES ASSUME FirstLife PROVE FirstRun'
    BY <1>1, <1>3 DEF FirstInv, FirstLife
<1>4. FirstRun
    BY DEF FirstInv
<1>5. /\ ~Booted /\ Booted' /\ ~history.init /\ live.init
      /\ \A v \in Workers \ {"live"} : place'[v] = "idle"
    BY <1>1, <1>2, <1>4 DEF FirstRun, Booted
<1>6. \A v \in Workers : place'[v] \notin {"relive", "rehistory"}
    BY <1>2, <1>5
<1>7. anchor \in Nat
    BY <1>1, Types DEF Holds, Held, Higher
<1>8. history'.nextTo = anchor
    BY <1>5, <1>7, BootNext
<1>9. ASSUME On(live.at, chain) PROVE OnLiveBranch'
  <2>1. OnLiveBranch
      BY <1>4, <1>5, <1>9 DEF FirstRun
  <2>2. anchor = Len(live.at)
      BY <1>1, <2>1 DEF OnLiveBranch
  <2>3. history'.nextTo = Len(live.at)
      BY <1>8, <2>2
  <2>4. history'.nextTo <= Len(live.at)
      BY <2>3, LiveTypes
  <2>5. "history" \in Workers => place'["history"] \notin Reading \cup {"join", "store"}
      BY <1>5 DEF Reading
  <2>6. \A e \in events : HasLogs(e) /\ On(e, live.at)
      BY <2>1 DEF OnLiveBranch
  <2>7. \A l \in Lanes : \A n \in covered[l] :
          /\ n <= Len(live.at)
          /\ HasLogs(Ancestor(live.at, n)) => Ancestor(live.at, n) \in events
      BY <2>1 DEF OnLiveBranch
  <2> QED
      BY <1>2, <1>3, <2>4, <2>5, <2>6, <2>7 DEF OnLiveBranch
<1> QED
    BY <1>1, <1>3, <1>4, <1>5, <1>6, <1>9 DEF FirstRun

\* The second anchor is refused only when the first one is orphaned.
LEMMA FirstBootFails ==
    ASSUME IndexInv, FirstInv, BootFails PROVE FirstInv'
<1> DEFINE anchor == Higher(0, job["live"].last - 1)
<1>1. /\ place["live"] = "bootHistory" /\ place' = [place EXCEPT !["live"] = "boot"]
      /\ chain' = chain /\ forks' = forks /\ crashes' = crashes
      /\ anchor <= Len(chain) => Conflicting({At(anchor)})
    BY DEF BootFails, Goto, chainVars
<1>2. /\ place'["live"] = "boot"
      /\ \A v \in Workers : v # "live" => place'[v] = place[v]
    BY <1>1, IndexAssumption DEF IndexInv, IndexTypes
<1>3. /\ epoch' = epoch /\ events' = events /\ covered' = covered /\ live' = live
      /\ history' = history /\ blocks' = blocks
    BY DEF BootFails, tables
<1> SUFFICES ASSUME FirstLife PROVE FirstRun'
    BY <1>1, <1>3 DEF FirstInv, FirstLife
<1>4. FirstRun
    BY DEF FirstInv
<1>5. /\ ~Booted /\ ~Booted' /\ ~history.init /\ live.init /\ blocks \subseteq {live.at}
      /\ \A v \in Workers \ {"live"} : place'[v] = "idle"
    BY <1>1, <1>2, <1>4 DEF FirstRun, Booted
<1>6. \A v \in Workers : place'[v] \notin {"relive", "rehistory"}
    BY <1>2, <1>5
<1>7. ~On(live.at, chain)
  <2> SUFFICES ASSUME On(live.at, chain) PROVE FALSE
      OBVIOUS
  <2>1. anchor = Len(live.at)
      BY <1>1, <1>4, <1>5 DEF FirstRun, OnLiveBranch
  <2>2. At(anchor) = live.at /\ anchor <= Len(chain)
      BY <2>1 DEF On, At
  <2> HIDE DEF anchor
  <2>3. Conflicting({live.at}) /\ Len(live.at) \in Nat
      BY <1>1, <2>2, LiveTypes
  <2> QED
      BY <1>5, <2>3 DEF Conflicting, HashNumber
<1> QED
    BY <1>1, <1>3, <1>4, <1>5, <1>6, <1>7 DEF FirstRun

\* The coverage and events a lane adds to those of branch at, on the branch of c.
LEMMA CoverageGrows ==
    ASSUME NEW at \in Hashes, NEW c \in Hashes, On(at, c),
           NEW ev \in SUBSET Hashes, NEW logs, NEW first \in Nat,
           logs = LogsFrom(c, first),
           \A e \in ev : HasLogs(e) /\ On(e, at)
    PROVE  /\ \A e \in ev \cup logs : HasLogs(e) /\ On(e, c)
           /\ \A n \in first..Len(c) :
                 HasLogs(Ancestor(c, n)) => Ancestor(c, n) \in ev \cup logs
<1>1. Len(c) \in Nat
    BY HashLength
<1>2. \A e \in ev : On(e, c)
    BY OnTwice
<1>3. \A n \in first..Len(c) : n \in 0..Len(c)
    BY <1>1
<1>4. \A e \in logs : HasLogs(e) /\ On(e, c)
    BY <1>3, AncestorIsOn DEF LogsFrom
<1>5. \A n \in first..Len(c) : HasLogs(Ancestor(c, n)) => Ancestor(c, n) \in logs
    BY DEF LogsFrom
<1> QED
    BY <1>2, <1>4, <1>5

LEMMA CoverageStays ==
    ASSUME NEW at \in Hashes, NEW c \in Hashes, On(at, c), NEW ev, NEW more,
           NEW ns \in SUBSET Nat,
           \A n \in ns : /\ n <= Len(at)
                         /\ HasLogs(Ancestor(at, n)) => Ancestor(at, n) \in ev
    PROVE  \A n \in ns : /\ n <= Len(c)
                         /\ HasLogs(Ancestor(c, n)) => Ancestor(c, n) \in ev \cup more
<1> SUFFICES ASSUME NEW n \in ns
             PROVE  /\ n <= Len(c)
                    /\ HasLogs(Ancestor(c, n)) => Ancestor(c, n) \in ev \cup more
    OBVIOUS
<1>1. Len(at) \in Nat /\ Len(c) \in Nat /\ Len(at) <= Len(c) /\ n \in Nat
    BY HashLength DEF On
<1>2. n \in 0..Len(at)
    BY <1>1
<1>3. Ancestor(at, n) = Ancestor(c, n)
    BY <1>2, OnBranch
<1> QED
    BY <1>1, <1>2, <1>3

LEMMA FirstLiveStore ==
    ASSUME IndexInv, FetchInv, FirstInv, LiveStore PROVE FirstInv'
<1> DEFINE j == job["live"]
           foot == Foot(j)
           first == HeaderAt(j.heads, j.first)
<1>1. /\ place["live"] = "store" /\ place' = [place EXCEPT !["live"] = "idle"]
      /\ job' = [job EXCEPT !["live"] = NoJob]
      /\ chain' = chain /\ forks' = forks /\ crashes' = crashes
      /\ IngestLive(j.heads, j.logs, first, foot, j.seen, j.epoch)
    BY DEF LiveStore, Finish, Goto, chainVars, Foot
<1>2. /\ place'["live"] = "idle"
      /\ \A v \in Workers : v # "live" => place'[v] = place[v] /\ job'[v] = job[v]
    BY <1>1, IndexAssumption DEF IndexInv, IndexTypes
<1>3. /\ live.init /\ live.at = j.seen /\ live' = [init |-> TRUE, at |-> foot]
      /\ events' = events \cup j.logs /\ history' = history /\ epoch' = epoch
      /\ covered' = [covered EXCEPT !["live"] = @ \cup (Len(first)..Len(foot))]
    BY <1>1 DEF IngestLive, LiveCurrent, HashNumber
<1>4. /\ foot \in Hashes /\ Len(foot) = j.last /\ Len(foot) \in Nat
      /\ j.first \in Nat /\ j.first <= Len(foot) /\ j \in JobType
    BY <1>1, InJob, IndexAssumption DEF Reading
<1>5. Len(first) = j.first
  <2>1. Bounded(j)
      BY <1>1, InJob, IndexAssumption DEF Reading
  <2> QED
      BY <2>1, HeaderFound DEF Bounded
<1>6. /\ Known(foot, chain, forks) /\ j.logs = LogsFrom(foot, j.first)
      /\ j.first = Len(live.at) + 1 /\ live.at = Ancestor(foot, Len(live.at))
    BY <1>1, <1>3, IndexAssumption DEF FetchInv, Fetched, Extending, Reading
<1> HIDE DEF foot, first, j
<1>7. On(live.at, foot) /\ Len(live.at) <= Len(foot)
    BY <1>4, <1>6, LiveTypes DEF On
<1> SUFFICES ASSUME FirstLife PROVE FirstRun'
    BY <1>1, <1>3 DEF FirstInv, FirstLife
<1>8. FirstRun
    BY DEF FirstInv
<1>9. Booted /\ Booted' /\ live'.init /\ live'.at = foot
    BY <1>1, <1>2, <1>3 DEF Booted
<1>10. \A v \in Workers : place'[v] \notin {"relive", "rehistory"}
    BY <1>2, <1>8 DEF FirstRun
<1>11. /\ covered \in [Lanes -> SUBSET Nat] /\ covered' \in [Lanes -> SUBSET Nat]
       /\ covered'["live"] = covered["live"] \cup (j.first..Len(foot))
       /\ covered'["history"] = covered["history"]
    BY <1>3, <1>4, <1>5, <1>8 DEF FirstRun, Lanes
<1>12. ASSUME On(foot, chain) PROVE OnLiveBranch'
  <2>1. OnLiveBranch
      BY <1>3, <1>4, <1>7, <1>8, <1>12, OnTwice, LiveTypes DEF FirstRun
  <2>2. /\ \A e \in events \cup j.logs : HasLogs(e) /\ On(e, foot)
        /\ \A n \in j.first..Len(foot) :
              HasLogs(Ancestor(foot, n)) => Ancestor(foot, n) \in events \cup j.logs
    <3>1. \A e \in events : HasLogs(e) /\ On(e, live.at)
        BY <2>1 DEF OnLiveBranch
    <3> QED
        BY <1>4, <1>6, <1>7, <3>1, CoverageGrows, LiveTypes
  <2>3. ASSUME NEW l \in Lanes
        PROVE  \A n \in covered[l] :
                  /\ n <= Len(foot)
                  /\ HasLogs(Ancestor(foot, n)) => Ancestor(foot, n) \in events \cup j.logs
    <3>1. \A n \in covered[l] :
             /\ n <= Len(live.at)
             /\ HasLogs(Ancestor(live.at, n)) => Ancestor(live.at, n) \in events
        BY <2>1 DEF OnLiveBranch
    <3>2. covered[l] \in SUBSET Nat
        BY <1>11
    <3> QED
        BY <1>4, <1>7, <3>1, <3>2, CoverageStays, LiveTypes
  <2>4. \A l \in Lanes : \A n \in covered'[l] :
           /\ n <= Len(foot)
           /\ HasLogs(Ancestor(foot, n)) => Ancestor(foot, n) \in events \cup j.logs
    <3>1. \A n \in j.first..Len(foot) : n <= Len(foot)
        BY <1>4
    <3>2. \A l \in Lanes : l = "live" \/ l = "history"
        BY DEF Lanes
    <3> QED
        BY <1>11, <2>2, <2>3, <3>1, <3>2
  <2>5. history.init => history.nextTo <= Len(foot)
    <3>1. history.init => history.nextTo <= Len(live.at)
        BY <2>1 DEF OnLiveBranch
    <3>2. history.nextTo \in Int
        BY LiveTypes, ChainAssumption DEF HistoryType
    <3> QED
        BY <1>4, <1>7, <3>1, <3>2, LiveTypes
  <2>6. ASSUME "history" \in Workers
        PROVE  /\ place["history"] \in Reading => job["history"].last <= Len(foot)
               /\ place["history"] \in {"join", "store"} =>
                     On(Foot(job["history"]), foot)
    <3>1. ASSUME place["history"] \in Reading
          PROVE  job["history"].last <= Len(foot) /\ Foot(job["history"]) \in Hashes
      <4>1. job["history"].last <= Len(live.at)
          BY <2>1, <2>6, <3>1 DEF OnLiveBranch
      <4>2. job["history"].last \in Nat /\ Foot(job["history"]) \in Hashes
          BY <2>6, <3>1, InJob
      <4> QED
          BY <1>4, <1>7, <4>1, <4>2, LiveTypes
    <3>2. ASSUME place["history"] \in {"join", "store"}
          PROVE  On(Foot(job["history"]), foot)
      <4>1. On(Foot(job["history"]), live.at)
          BY <2>1, <2>6, <3>2 DEF OnLiveBranch
      <4>2. Foot(job["history"]) \in Hashes
          BY <3>1, <3>2 DEF Reading
      <4> QED
          BY <1>4, <1>7, <4>1, <4>2, OnTwice, LiveTypes
    <3> QED
        BY <3>1, <3>2
  <2> QED
      BY <1>2, <1>3, <1>9, <2>2, <2>4, <2>5, <2>6 DEF OnLiveBranch, Foot
<1> QED
    BY <1>1, <1>6, <1>9, <1>10, <1>11, <1>12 DEF FirstRun

\* The interval a history lane adds, on the branch of foot, to those of c.
LEMMA CoverageDeepens ==
    ASSUME NEW foot \in Hashes, NEW c \in Hashes, On(foot, c), NEW ev,
           NEW first \in Nat,
           \A e \in ev : HasLogs(e) /\ On(e, c)
    PROVE  /\ \A e \in ev \cup LogsFrom(foot, first) : HasLogs(e) /\ On(e, c)
           /\ \A n \in first..Len(foot) :
                 /\ n <= Len(c)
                 /\ HasLogs(Ancestor(c, n)) => Ancestor(c, n) \in ev \cup LogsFrom(foot, first)
<1>1. Len(foot) \in Nat /\ Len(c) \in Nat /\ Len(foot) <= Len(c)
    BY HashLength DEF On
<1>2. \A n \in first..Len(foot) : n \in 0..Len(foot) /\ n <= Len(c)
    BY <1>1
<1>3. \A n \in first..Len(foot) :
         Ancestor(foot, n) = Ancestor(c, n) /\ On(Ancestor(foot, n), c)
    BY <1>2, OnBranch
<1>4. \A e \in LogsFrom(foot, first) : HasLogs(e) /\ On(e, c)
    BY <1>3 DEF LogsFrom
<1>5. \A n \in first..Len(foot) :
         HasLogs(Ancestor(c, n)) => Ancestor(c, n) \in LogsFrom(foot, first)
    BY <1>3 DEF LogsFrom
<1> QED
    BY <1>2, <1>4, <1>5

LEMMA FirstHistoryStore ==
    ASSUME IndexInv, FetchInv, FirstInv, "history" \in Workers, HistoryStore
    PROVE  FirstInv'
<1> DEFINE j == job["history"]
           foot == Foot(j)
           first == HeaderAt(j.heads, j.first)
           complete == HashNumber(first) <= history.target
<1>1. /\ place["history"] = "store" /\ place' = [place EXCEPT !["history"] = "idle"]
      /\ job' = [job EXCEPT !["history"] = NoJob]
      /\ chain' = chain /\ forks' = forks /\ crashes' = crashes
      /\ IngestHistory(j.heads, j.logs, first, foot, j.epoch)
    BY DEF HistoryStore, Finish, Goto, chainVars, Foot
<1>2. /\ place'["history"] = "idle"
      /\ \A v \in Workers : v # "history" => place'[v] = place[v] /\ job'[v] = job[v]
    BY <1>1 DEF IndexInv, IndexTypes
<1>3. /\ foot \in Hashes /\ Len(foot) = j.last /\ Len(foot) \in Nat
      /\ j.first \in Nat /\ j.last \in Nat /\ j.first <= j.last
    BY <1>1, InJob DEF Reading
<1>4. Len(first) = j.first
  <2>1. Bounded(j)
      BY <1>1, InJob DEF Reading
  <2> QED
      BY <2>1, HeaderFound DEF Bounded
<1>5. j.logs = LogsFrom(foot, j.first)
    BY <1>1 DEF FetchInv, Fetched
<1> HIDE DEF foot, first, j, complete
<1>6. /\ live' = live /\ epoch' = epoch /\ events' = events \cup j.logs
      /\ covered' = [covered EXCEPT !["history"] = @ \cup (Len(first)..Len(foot))]
      /\ history.init /\ history.nextTo = Len(foot)
      /\ history' = [history EXCEPT !.nextTo = Len(first) - 1, !.low = Len(first),
                                    !.hash = first, !.complete = complete,
                                    !.scanned = TRUE]
    BY <1>1 DEF IngestHistory, HistoryCurrent, HashNumber, complete
<1>7. history'.nextTo = j.first - 1
    BY <1>4, <1>6, LiveTypes DEF HistoryType
<1> SUFFICES ASSUME FirstLife PROVE FirstRun'
    BY <1>1, <1>6 DEF FirstInv, FirstLife
<1>8. FirstRun
    BY DEF FirstInv
<1>9. Booted
    BY <1>1, <1>8, StartedUp
<1>10. live.init /\ place'["live"] = place["live"] /\ job'["live"] = job["live"] /\ Booted'
    BY <1>2, <1>8, <1>9, IndexAssumption DEF FirstRun, Booted
<1>11. \A v \in Workers : place'[v] \notin {"relive", "rehistory"}
    BY <1>2, <1>8 DEF FirstRun
<1>12. /\ covered' \in [Lanes -> SUBSET Nat]
       /\ covered'["history"] = covered["history"] \cup (j.first..Len(foot))
       /\ covered'["live"] = covered["live"]
    BY <1>3, <1>4, <1>6, <1>8 DEF FirstRun, Lanes
<1>13. ASSUME On(live.at, chain) PROVE OnLiveBranch'
  <2>1. OnLiveBranch
      BY <1>8, <1>10, <1>13 DEF FirstRun
  <2>2. j.last <= Len(live.at) /\ On(foot, live.at)
      BY <1>1, <2>1 DEF OnLiveBranch, Reading, foot, j
  <2>3. /\ \A e \in events : HasLogs(e) /\ On(e, live.at)
        /\ \A l \in Lanes : \A n \in covered[l] :
              /\ n <= Len(live.at)
              /\ HasLogs(Ancestor(live.at, n)) => Ancestor(live.at, n) \in events
      BY <2>1 DEF OnLiveBranch
  <2>4. /\ \A e \in events \cup j.logs : HasLogs(e) /\ On(e, live.at)
        /\ \A n \in j.first..Len(foot) :
              /\ n <= Len(live.at)
              /\ HasLogs(Ancestor(live.at, n)) => Ancestor(live.at, n) \in events \cup j.logs
      BY <1>3, <1>5, <2>2, <2>3, CoverageDeepens, LiveTypes
  <2>5. \A l \in Lanes : \A n \in covered'[l] :
           /\ n <= Len(live.at)
           /\ HasLogs(Ancestor(live.at, n)) => Ancestor(live.at, n) \in events \cup j.logs
    <3>1. \A l \in Lanes : l = "live" \/ l = "history"
        BY DEF Lanes
    <3>2. ASSUME NEW l \in Lanes, NEW n \in covered'[l]
          PROVE  n \in covered[l] \/ n \in j.first..Len(foot)
        BY <1>12, <3>1, <3>2
    <3> QED
        BY <2>3, <2>4, <3>2
  <2>6. history'.nextTo <= Len(live.at)
      BY <1>3, <1>7, <2>2, LiveTypes
  <2>7. "history" \in Workers => place'["history"] \notin Reading \cup {"join", "store"}
      BY <1>2 DEF Reading
  <2>8. /\ place["live"] # "boot"
        /\ place["live"] = "bootHistory" => Higher(0, job["live"].last - 1) = Len(live.at)
      BY <2>1 DEF OnLiveBranch
  <2> QED
      BY <1>6, <1>10, <2>4, <2>5, <2>6, <2>7, <2>8 DEF OnLiveBranch
<1> QED
    BY <1>1, <1>6, <1>8, <1>10, <1>11, <1>12, <1>13 DEF FirstRun

LEMMA FirstInit == IndexInit => FirstInv
<1> SUFFICES ASSUME IndexInit PROVE FirstRun /\ crashes \in Nat
    BY DEF FirstInv
<1>1. /\ crashes = 0 /\ ~live.init /\ blocks = {} /\ events = {}
      /\ covered = [l \in Lanes |-> {}] /\ place["live"] = "boot"
      /\ \A w \in Workers : place[w] = IF w = "live" THEN "boot" ELSE "idle"
    BY IndexAssumption DEF IndexInit
<1>2. ~history.init
    BY DEF IndexInit, NoHistory, EmptyHistory
<1> QED
    BY <1>1, <1>2 DEF FirstRun

LEMMA FirstStep ==
    ASSUME IndexInv, FetchInv, FirstInv, [IndexNext]_vars PROVE FirstInv'
<1>1. CASE LiveStep
    BY <1>1, FirstBootLive, FirstBootHistory, FirstBootFails, FirstLiveQuiet, FirstLiveStore
    DEF LiveStep
<1>2. CASE HistoryStep
    BY <1>2, FirstReadOrigin, FirstHistoryResolve, FirstHistoryFetch, FirstHistoryConfirm,
       FirstHistoryJoin, FirstHistoryStore DEF HistoryStep
<1>3. ASSUME NEW w \in Workers, ReadLogs(w) \/ GiveUp(w) \/ RecoverStep(w)
      PROVE  FirstInv'
    BY <1>3, FirstReads, FirstOthers, FirstRecovers DEF RecoverStep
<1>4. CASE UNCHANGED vars
  <2>1. /\ UNCHANGED <<chain, forks, blocks, events, covered, live, history, epoch>>
        /\ UNCHANGED <<place, job, crashes>>
      BY <1>4 DEF vars, chainVars, tables, workVars
  <2>2. FirstRun' <=> FirstRun
      BY <2>1 DEF FirstRun, OnLiveBranch, Booted
  <2> QED
      BY <2>1, <2>2 DEF FirstInv, FirstLife
<1> QED
    BY <1>1, <1>2, <1>3, <1>4, FirstEnvironment, FirstFindsOrphan, FirstCrash DEF IndexNext

LEMMA FirstSafe == IndexSpec => []FirstInv
<1>1. IndexInv /\ FetchInv /\ FirstInv /\ [IndexNext]_vars => FirstInv'
    BY FirstStep
<1> QED
    BY <1>1, FirstInit, FetchSafe, IndexSafe, PTL DEF IndexSpec

(***************************************************************************)
(* Until the index first rolls back or restarts, whatever the chain does   *)
(* and however the lanes interleave, LiveExact holds: while the live       *)
(* cursor is canonical the events of the covered blocks up to it are       *)
(* exactly the chain's.  An orphaned branch is never joined to another     *)
(* one, because a lane stores an interval only on the branch of the        *)
(* cursor it was read above or below.                                      *)
(***************************************************************************)
THEOREM LiveStaysExact == IndexSpec => [](FirstLife => LiveExact)
<1>1. IndexInv /\ FirstInv => (FirstLife => LiveExact)
  <2> SUFFICES ASSUME IndexInv, FirstInv, FirstLife, live.init, Canonical(live.at),
                      NEW n \in covered["live"] \cup covered["history"],
                      n <= Len(live.at)
               PROVE  EventsMatch(n)
      BY DEF LiveExact
  <2>1. FirstRun /\ On(live.at, chain)
      BY CanonicalIsOn DEF FirstInv
  <2>2. OnLiveBranch
      BY <2>1 DEF FirstRun
  <2>3. n \in 0..Len(live.at)
      BY <2>1, LiveTypes DEF FirstRun, Lanes
  <2>4. At(n) = Ancestor(live.at, n) /\ On(At(n), live.at)
    <3>1. Ancestor(live.at, n) = Ancestor(chain, n)
        BY <2>1, <2>3, OnBranch, LiveTypes
    <3>2. On(Ancestor(live.at, n), live.at)
        BY <2>3, AncestorIsOn, LiveTypes
    <3> QED
        BY <3>1, <3>2 DEF At
  <2>5. HasLogs(At(n)) => At(n) \in events
      BY <2>2, <2>4 DEF OnLiveBranch, Lanes
  <2>6. At(n) \in events => HasLogs(At(n))
      BY <2>2 DEF OnLiveBranch
  <2>7. ASSUME NEW e \in events, Len(e) = n PROVE e = At(n)
      BY <2>2, <2>4, <2>7 DEF OnLiveBranch, On
  <2> QED
      BY <2>5, <2>6, <2>7 DEF EventsMatch
<1> QED
    BY <1>1, FirstSafe, IndexSafe, PTL
================================================================================
