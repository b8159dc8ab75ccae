------------------------------ MODULE LiveFeed ------------------------------
(***************************************************************************)
(* The current lane of the indexer: the head thread publishes headers, the *)
(* activity thread late logs, the live lane canonical facts and the        *)
(* receipt workers their evidence, all into one bounded feed; the service  *)
(* keeps a continuous suffix of headers with their events; a browser       *)
(* follows the feed through a stream it resumes with its last event id.    *)
(*                                                                         *)
(* A block hash is its branch, the sequence of the choices that lead to    *)
(* it, so that its number is its length and its parent its prefix.  Each   *)
(* block holds one log.  The subscriber follows both channels, unfiltered. *)
(***************************************************************************)
EXTENDS Integers, Sequences, SequencesExt, FiniteSets, FiniteSetsExt, Absent

CONSTANTS
    FeedCap,        \* HEAD_FEED_MAX_EVENTS
    ReplayLimit,    \* HEAD_REPLAY_LIMIT
    SuffixCap,      \* headers the service keeps
    MaxFeedHeight,  \* bound on the chain's height
    MaxSwitches,    \* bound on reorganisations
    MaxFeedSeq,     \* bound on feed events of one process
    MaxRestarts     \* bound on process restarts

ASSUME FeedAssumption ==
    /\ {FeedCap, ReplayLimit, SuffixCap} \subseteq Nat \ {0}
    /\ {MaxFeedHeight, MaxSwitches, MaxFeedSeq, MaxRestarts} \subseteq Nat

VARIABLES
    canon,          \* the chain's current branch
    heads,          \* every block that was ever on it
    switches,
    lastHeader,     \* _observed_last_header
    observed,       \* _observed_blocks: number |-> [hash, events]
    headQueue,      \* headers the head thread has still to publish
    headEmit,       \* the header it has stored and not yet announced
    pendingLogs,    \* pending_logs of the activity session, by block hash
    flush,          \* the late publication under way, or NULL
    receiptJobs,       \* receipt workers: block hash |-> stage
    feedEpoch, feedSeq, feedEvents,
    observing,      \* whether a market observer is configured
    observerQueue,  \* calls submitted to the observer's single thread
    suffix,         \* _current_activity_headers: number |-> hash
    activity,       \* block hashes with an event in _current_activity_events
    conn,           \* the open stream, or NULL
    client,         \* the last event id the browser received
    seen,           \* feed events it received, as <<epoch, sequence>>
    excused,        \* the sequence a justified reset of this epoch covers
    restartCount

headVars == <<canon, heads, switches>>
laneVars == <<lastHeader, observed, headQueue, headEmit, pendingLogs, flush, receiptJobs>>
feedVars == <<feedEpoch, feedSeq, feedEvents>>
serviceVars == <<observing, suffix, activity>>
streamVars == <<conn, client, seen, excused>>
liveVars == <<headVars, laneVars, feedVars, observerQueue, serviceVars, streamVars, restartCount>>

NoNumbers == [n \in {} |-> <<>>]

LiveInit ==
    /\ canon = <<0>> /\ heads = {<<0>>} /\ switches = 0
    /\ lastHeader = NULL /\ observed = NoNumbers
    /\ headQueue = <<>> /\ headEmit = NULL
    /\ pendingLogs = {} /\ flush = NULL /\ receiptJobs = NoNumbers
    /\ feedEpoch = 1 /\ feedSeq = 0 /\ feedEvents = <<>>
    /\ observing \in BOOLEAN
    /\ observerQueue = <<>> /\ suffix = NoNumbers /\ activity = {}
    /\ conn = NULL /\ client = [epoch |-> 0, after |-> 0]
    /\ seen = {} /\ excused = 0 /\ restartCount = 0

(***************************************************************************)
(* The chain.                                                              *)
(***************************************************************************)
Mine ==
    /\ Len(canon) < MaxFeedHeight
    /\ canon' = Append(canon, 0)
    /\ heads' = heads \cup {canon'}
    /\ UNCHANGED <<switches, laneVars, feedVars, observerQueue, serviceVars, streamVars, restartCount>>

\* The tip is replaced by its rival, or given back.
SwitchTip ==
    /\ switches < MaxSwitches
    /\ switches' = switches + 1
    /\ canon' = [canon EXCEPT ![Len(canon)] = 1 - @]
    /\ heads' = heads \cup {canon'}
    /\ UNCHANGED <<laneVars, feedVars, observerQueue, serviceVars, streamVars, restartCount>>

(***************************************************************************)
(* The feed.                                                               *)
(***************************************************************************)
\* The newest FeedCap events survive in the deque.
Retained(items) ==
    SubSeq(items, Max({1, Len(items) - FeedCap + 1}), Len(items))

EmitFeed(kind, hash) ==
    /\ feedSeq < MaxFeedSeq
    /\ feedSeq' = feedSeq + 1
    /\ feedEvents' = Retained(Append(feedEvents,
           [event |-> kind, sequence |-> feedSeq + 1, number |-> Len(hash)]))
    /\ UNCHANGED feedEpoch

\* Without an observer nothing is submitted.
Submit(call, hash) ==
    observerQueue' = IF observing THEN Append(observerQueue, <<call, hash>>) ELSE <<>>

\* Submission to the observer and the emission that follows it.
EmitActivity(hash) ==
    /\ Submit("events", hash)
    /\ EmitFeed("activity", hash)

\* Mutant: the event just below the retained ones is taken as still there.
Mutant_ResumableEarly(after, epoch) ==
    /\ epoch = feedEpoch
    /\ feedEvents[1].sequence - 2 <= after
    /\ after <= feedSeq

Resumable(after, epoch) ==
    /\ epoch = feedEpoch
    /\ feedEvents[1].sequence - 1 <= after
    /\ after <= feedSeq

\* An answer is the set of its events: sequence numbers order it.
Items == Range(feedEvents)

\* The newest block event and the activity of its number that follows it.
ResetRows ==
    LET blocks == {item \in Items : item.event = "block"}
        latest == CHOOSE item \in blocks : \A other \in blocks : other.sequence <= item.sequence
    IN  IF blocks = {} THEN {}
        ELSE {item \in Items : item.sequence >= latest.sequence /\ item.number = latest.number}

FeedUpdates(after, epoch) ==
    IF feedEvents = <<>>
    THEN [reset |-> epoch \notin {0, feedEpoch}, events |-> {}]
    ELSE IF Resumable(after, epoch)
    THEN [reset |-> FALSE,
          events |-> {item \in Items : item.sequence > after}]
    ELSE [reset |-> TRUE, events |-> ResetRows]

(***************************************************************************)
(* The head thread.                                                        *)
(***************************************************************************)
\* A notification, late or repeated, for a block that was once mined.  What
\* lies between it and the last header is fetched from the current branch.
HeadReceive(hash) ==
    LET number == Len(hash)
        start == Max({Len(lastHeader) + 1, number - ReplayLimit + 1})
    IN  /\ headQueue = <<>> /\ headEmit = NULL
        /\ \/ /\ lastHeader = NULL
              /\ headQueue' = <<hash>>
           \/ /\ lastHeader # NULL
              /\ \/ number <= Len(lastHeader)
                 \/ Front(hash) = lastHeader
              /\ hash # lastHeader
              /\ headQueue' = <<hash>>
           \/ /\ lastHeader # NULL
              /\ number > Len(lastHeader) /\ Front(hash) # lastHeader
              /\ number <= Len(canon)
              /\ headQueue' = [i \in 1 .. number - start + 1 |->
                                  SubSeq(canon, 1, start + i - 1)]
    /\ UNCHANGED <<headVars, lastHeader, observed, headEmit, pendingLogs, flush, receiptJobs,
                   feedVars, observerQueue, serviceVars, streamVars, restartCount>>

\* The blocks of _observed_blocks that survive a new header.
Surviving(hash) ==
    LET replaced == /\ lastHeader # NULL
                    /\ \/ Len(hash) = Len(lastHeader)
                       \/ /\ Len(hash) = Len(lastHeader) + 1
                          /\ Front(hash) # lastHeader
        kept == {n \in DOMAIN observed : replaced => n < Len(hash)} \cup {Len(hash)}
        numbers == IF Cardinality(kept) > 2 * ReplayLimit THEN kept \ {Min(kept)} ELSE kept
    IN  [n \in numbers |-> IF n = Len(hash) THEN [hash |-> hash, events |-> <<>>]
                                            ELSE observed[n]]

\* An older header, or the one already stored, is dropped.
HeadStore ==
    /\ headQueue # <<>> /\ headEmit = NULL
    /\ LET hash == Head(headQueue)
           stale == lastHeader # NULL => Len(hash) < Len(lastHeader) \/ hash = lastHeader
       IN  IF lastHeader # NULL /\ stale
           THEN UNCHANGED <<lastHeader, observed, headEmit>>
           ELSE /\ lastHeader' = hash
                /\ observed' = Surviving(hash)
                /\ headEmit' = hash
    /\ headQueue' = Tail(headQueue)
    /\ UNCHANGED <<headVars, pendingLogs, flush, receiptJobs, feedVars, observerQueue,
                   serviceVars, streamVars, restartCount>>

\* After the lock is released: the observer's call and the block event.
HeadEmit ==
    /\ headEmit # NULL
    /\ Submit("block", headEmit)
    /\ EmitFeed("block", headEmit)
    /\ headEmit' = NULL
    /\ UNCHANGED <<headVars, lastHeader, observed, headQueue, pendingLogs, flush, receiptJobs,
                   serviceVars, streamVars, restartCount>>

(***************************************************************************)
(* The activity thread.                                                    *)
(***************************************************************************)
LogArrives(hash) ==
    /\ flush = NULL
    /\ hash \notin pendingLogs
    /\ pendingLogs' = pendingLogs \cup {hash}
    /\ UNCHANGED <<headVars, lastHeader, observed, headQueue, headEmit, flush, receiptJobs,
                   feedVars, observerQueue, serviceVars, streamVars, restartCount>>

\* A removed log, a lost socket or a backlog past twice the replay limit
\* ends the session, and its pending logs with it.
SessionEnds ==
    /\ flush = NULL
    /\ pendingLogs # {}
    /\ pendingLogs' = {}
    /\ UNCHANGED <<headVars, lastHeader, observed, headQueue, headEmit, flush, receiptJobs,
                   feedVars, observerQueue, serviceVars, streamVars, restartCount>>

HoldsEvent(number) == observed[number].events # <<>>

\* A ready number: its header is cached, and a newer log or the observed
\* head says that its own logs are in.  Logs of another branch are dropped.
FlushStart(number) ==
    /\ flush = NULL
    /\ number \in DOMAIN observed
    /\ \E hash \in pendingLogs : Len(hash) = number
    /\ number <= Len(lastHeader) \/ \E hash \in pendingLogs : number < Len(hash)
    /\ IF observed[number].hash \in pendingLogs
       THEN /\ flush' = [stage |-> "decode", hash |-> observed[number].hash]
            /\ UNCHANGED pendingLogs
       ELSE /\ pendingLogs' = {hash \in pendingLogs : Len(hash) # number}
            /\ UNCHANGED flush
    /\ UNCHANGED <<headVars, lastHeader, observed, headQueue, headEmit, receiptJobs,
                   feedVars, observerQueue, serviceVars, streamVars, restartCount>>

\* The decoded log joins its block if the header is still the cached one;
\* otherwise it stays pending.  A known event may only gain its pool.
FlushAppend(poolKnown) ==
    /\ flush # NULL /\ flush.stage = "decode"
    /\ LET number == Len(flush.hash)
           same == number \in DOMAIN observed /\ observed[number].hash = flush.hash
           fresh == same /\ ~HoldsEvent(number)
           gains == same /\ HoldsEvent(number) /\ poolKnown
                         /\ ~observed[number].events[1].pool
       IN  /\ observed' =
                 IF fresh THEN [observed EXCEPT ![number].events =
                                    <<[pool |-> poolKnown, receipt |-> FALSE]>>]
                 ELSE IF gains THEN [observed EXCEPT ![number].events[1].pool = TRUE]
                 ELSE observed
           /\ flush' = IF fresh \/ gains
                       THEN [stage |-> "emit", hash |-> flush.hash, fresh |-> fresh]
                       ELSE NULL
           /\ pendingLogs' = IF same THEN {hash \in pendingLogs : Len(hash) # number}
                             ELSE pendingLogs
    /\ UNCHANGED <<headVars, lastHeader, headQueue, headEmit, receiptJobs, feedVars,
                   observerQueue, serviceVars, streamVars, restartCount>>

\* A receipt is asked for once per block and transaction.
Scheduled(hash) ==
    IF hash \in DOMAIN receiptJobs THEN receiptJobs
    ELSE [h \in DOMAIN receiptJobs \cup {hash} |-> IF h = hash THEN "asked" ELSE receiptJobs[h]]

FlushEmit ==
    /\ flush # NULL /\ flush.stage = "emit"
    /\ EmitActivity(flush.hash)
    /\ receiptJobs' = IF flush.fresh THEN Scheduled(flush.hash) ELSE receiptJobs
    /\ flush' = NULL
    /\ UNCHANGED <<headVars, lastHeader, observed, headQueue, headEmit, pendingLogs,
                   serviceVars, streamVars, restartCount>>

(***************************************************************************)
(* The live lane and the receipt workers.                                  *)
(***************************************************************************)
\* The stored fact of a block is merged into its cached row, and the change
\* emitted under the same lock.
PublishCanonical(hash, addUnseen) ==
    LET number == Len(hash)
        unseen == ~HoldsEvent(number)
    IN  /\ number \in DOMAIN observed /\ observed[number].hash = hash
        /\ IF unseen THEN addUnseen ELSE ~observed[number].events[1].pool
        /\ observed' = [observed EXCEPT ![number].events =
                            <<[pool |-> TRUE, receipt |-> ~unseen /\ @[1].receipt]>>]
        /\ EmitActivity(hash)
        /\ receiptJobs' = IF unseen THEN Scheduled(hash) ELSE receiptJobs
        /\ UNCHANGED <<headVars, lastHeader, headQueue, headEmit, pendingLogs, flush,
                       serviceVars, streamVars, restartCount>>

\* The worker finds its row, verifies the receipt, then writes the row at
\* the index it found, if the block is still cached; a row that is gone by
\* then ends it.  A second worker emits what the first one wrote.
ReceiptStep(hash) ==
    LET number == Len(hash)
        found == /\ number \in DOMAIN observed /\ observed[number].hash = hash
                 /\ HoldsEvent(number)
        stage == receiptJobs[hash]
        next == IF stage = "asked" THEN "found" ELSE "written"
    IN  /\ stage \in {"asked", "found"}
        /\ receiptJobs' = [receiptJobs EXCEPT ![hash] = IF found THEN next ELSE "done"]
        /\ observed' = IF found /\ stage = "found"
                       THEN [observed EXCEPT ![number].events[1].receipt = TRUE]
                       ELSE observed
        /\ UNCHANGED <<headVars, lastHeader, headQueue, headEmit, pendingLogs, flush,
                       feedVars, observerQueue, serviceVars, streamVars, restartCount>>

ReceiptEmit(hash) ==
    /\ receiptJobs[hash] = "written"
    /\ receiptJobs' = [receiptJobs EXCEPT ![hash] = "done"]
    /\ EmitActivity(hash)
    /\ UNCHANGED <<headVars, lastHeader, observed, headQueue, headEmit, pendingLogs, flush,
                   serviceVars, streamVars, restartCount>>

(***************************************************************************)
(* The service's observer: one thread, in the order of submission.         *)
(***************************************************************************)
Trimmed(headers) ==
    LET numbers == DOMAIN headers
        kept == IF Cardinality(numbers) > SuffixCap THEN numbers \ {Min(numbers)} ELSE numbers
    IN  [n \in kept |-> headers[n]]

\* Mutant: the next number follows, whatever its parent.
Mutant_ExtendedUnlinked(hash) ==
    LET number == Len(hash)
        kept == {n \in DOMAIN suffix : n < number /\ number - 1 \in DOMAIN suffix}
    IN  [n \in kept \cup {number} |-> IF n = number THEN hash ELSE suffix[n]]

\* The headers kept below a new one: all of them when it follows the last,
\* those under it when it replaces one and still follows them, else none.
Extended(hash) ==
    LET number == Len(hash)
        prior == Max(DOMAIN suffix)
        under == {n \in DOMAIN suffix : n < number}
        follows(numbers) ==
            numbers # {} => Max(numbers) = number - 1 /\ suffix[Max(numbers)] = Front(hash)
        kept == IF DOMAIN suffix = {} THEN {}
                ELSE IF number <= prior THEN IF follows(under) THEN under ELSE {}
                ELSE IF follows(DOMAIN suffix) THEN DOMAIN suffix ELSE {}
    IN  [n \in kept \cup {number} |-> IF n = number THEN hash ELSE suffix[n]]

ObserveBlock(hash) ==
    /\ suffix' = IF Len(hash) \in DOMAIN suffix /\ suffix[Len(hash)] = hash THEN suffix
                 ELSE Trimmed(Extended(hash))
    /\ activity' = {h \in activity : \E n \in DOMAIN suffix' : suffix'[n] = h}

ObserveEvents(hash) ==
    /\ activity' = IF Len(hash) \in DOMAIN suffix /\ suffix[Len(hash)] = hash
                   THEN activity \cup {hash} ELSE activity
    /\ UNCHANGED suffix

RunObserver ==
    /\ observerQueue # <<>>
    /\ LET call == Head(observerQueue)
       IN  \/ call[1] = "block" /\ ObserveBlock(call[2])
           \/ call[1] = "events" /\ ObserveEvents(call[2])
    /\ observerQueue' = Tail(observerQueue)
    /\ UNCHANGED observing
    /\ UNCHANGED <<headVars, laneVars, feedVars, streamVars, restartCount>>

(***************************************************************************)
(* The stream.                                                             *)
(***************************************************************************)

CursorAfterReset(after, reset) == IF reset THEN 0 ELSE after

\* A reset is justified when the cursor is of another process or the deque
\* has dropped what follows it; it then covers the events up to now.
Answered(after, epoch) ==
    LET feed == FeedUpdates(after, epoch)
        lapped == feedEvents # <<>> /\ after < feedEvents[1].sequence - 1
        lost == epoch # feedEpoch \/ lapped
    IN  /\ conn' = [after |-> CursorAfterReset(after, feed.reset), batch |-> feed.events,
                    upto |-> feedSeq, reset |-> feed.reset]
        /\ excused' = IF feed.reset /\ lost THEN feedSeq ELSE excused

\* A browser connects, or returns with the last event id it received.
Connect ==
    /\ conn = NULL
    /\ Answered(client.after, client.epoch)
    /\ UNCHANGED <<headVars, laneVars, feedVars, observerQueue, serviceVars, client, seen,
                   restartCount>>

Deliver ==
    /\ conn # NULL /\ conn.batch # {}
    /\ LET item == CHOOSE x \in conn.batch : \A y \in conn.batch : x.sequence <= y.sequence
           after == Max({conn.after, item.sequence})
       IN  /\ conn' = [conn EXCEPT !.after = after, !.batch = @ \ {item}]
           /\ client' = [epoch |-> feedEpoch, after |-> after]
           /\ seen' = seen \cup {<<feedEpoch, item.sequence>>}
    /\ UNCHANGED <<headVars, laneVars, feedVars, observerQueue, serviceVars, excused,
                   restartCount>>

\* The cycle ends, the stream waits and asks again from its own cursor.
Poll ==
    /\ conn # NULL /\ conn.batch = {}
    /\ Answered(Max({conn.after, conn.upto}), feedEpoch)
    /\ UNCHANGED <<headVars, laneVars, feedVars, observerQueue, serviceVars, client, seen,
                   restartCount>>

\* A durable frame is sent on a second pass over the same answer, whose
\* reset flag still stands; its id carries the cursor of that pass.
SendFrame ==
    /\ conn # NULL /\ conn.batch = {}
    /\ client' = [epoch |-> feedEpoch,
                  after |-> CursorAfterReset(Max({conn.after, conn.upto}), conn.reset)]
    /\ UNCHANGED <<headVars, laneVars, feedVars, observerQueue, serviceVars, conn, seen,
                   excused, restartCount>>

\* The browser leaves, the write fails, or the gate's recheck refuses it.
Disconnect ==
    /\ conn # NULL
    /\ conn' = NULL
    /\ UNCHANGED <<headVars, laneVars, feedVars, observerQueue, serviceVars, client, seen,
                   excused, restartCount>>

\* A new process: a new feed epoch, and nothing of the current lane left.
RestartFeed ==
    /\ restartCount < MaxRestarts
    /\ restartCount' = restartCount + 1
    /\ feedEpoch' = feedEpoch + 1 /\ feedSeq' = 0 /\ feedEvents' = <<>>
    /\ lastHeader' = NULL /\ observed' = NoNumbers /\ headQueue' = <<>> /\ headEmit' = NULL
    /\ pendingLogs' = {} /\ flush' = NULL /\ receiptJobs' = NoNumbers
    /\ observerQueue' = <<>> /\ suffix' = NoNumbers /\ activity' = {}
    /\ conn' = NULL /\ excused' = 0
    /\ UNCHANGED <<headVars, observing, client, seen>>

LiveNext ==
    \/ Mine \/ SwitchTip
    \/ \E hash \in heads : HeadReceive(hash) \/ LogArrives(hash)
    \/ HeadStore \/ HeadEmit
    \/ SessionEnds
    \/ \E number \in DOMAIN observed : FlushStart(number)
    \/ \E known \in BOOLEAN : FlushAppend(known)
    \/ FlushEmit
    \/ \E hash \in heads, unseen \in BOOLEAN : PublishCanonical(hash, unseen)
    \/ \E hash \in DOMAIN receiptJobs : ReceiptStep(hash) \/ ReceiptEmit(hash)
    \/ RunObserver
    \/ Connect \/ Deliver \/ Poll \/ SendFrame \/ Disconnect
    \/ RestartFeed

LiveSpec == LiveInit /\ [][LiveNext]_liveVars

-----------------------------------------------------------------------------
(***************************************************************************)
(* Everything up to the cursor a browser holds in the running feed epoch   *)
(* was delivered to it, or lies under a reset it could not be spared: no   *)
(* event falls between two answers, whatever the deque drops, the process  *)
(* restarts or the stream is cut in the middle of a batch.                 *)
(***************************************************************************)
CursorHonest ==
    client.epoch = feedEpoch =>
        \A s \in 1 .. client.after : <<feedEpoch, s>> \in seen \/ s <= excused

(***************************************************************************)
(* The service's headers are consecutive and each is its successor's       *)
(* parent, and every event it shows belongs to one of them.                *)
(***************************************************************************)
SuffixContinuous ==
    /\ \A n \in DOMAIN suffix :
           n # Min(DOMAIN suffix) => n - 1 \in DOMAIN suffix /\ Front(suffix[n]) = suffix[n - 1]
    /\ \A hash \in activity : \E n \in DOMAIN suffix : suffix[n] = hash
=============================================================================
