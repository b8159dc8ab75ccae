------------------------------ MODULE FlowFeed ------------------------------
(***************************************************************************)
(* The public flow reader (lp_fomo_flow.py): pages of one publisher are    *)
(* cached, read by one caller at a time for each page (the others wait for *)
(* its future) and one request at a time for the publisher, behind a       *)
(* breaker that opens after BreakAfter consecutive failures.  close() may  *)
(* come at any time.  Ages and deadlines are abstracted: a cached page     *)
(* goes stale, an open breaker closes and a follower times out whenever    *)
(* the clock says so.                                                      *)
(***************************************************************************)
EXTENDS Naturals, FiniteSets, Absent

CONSTANTS
  Readers,      \* threads that ask for a page
  FlowKeys,     \* pages of the publisher
  BreakAfter,   \* _CIRCUIT_FAILURE_THRESHOLD
  MaxPending,   \* max_cache_entries
  MaxAsks

\* None is no thread, and no answer of a future.
ASSUME FlowAssumption == NULL \notin Readers \cup {"page", "error"}

VARIABLES
  page,         \* key -> "none", "fresh" or "stale"
  leaderOf,     \* _pending: key -> the reader that leads its read, or NULL
  reader,       \* reader -> [pc, key, answer]
  breaker,      \* [failures, open]
  publisherLock,\* the reader inside the publisher's lock, or NULL
  closing,      \* "no", "closing", "closed"
  asked

flowVars == <<page, leaderOf, reader, breaker, publisherLock, closing, asked>>

IdleReader == [pc |-> "idle", key |-> NULL, answer |-> NULL]

FlowInit ==
  /\ page = [k \in FlowKeys |-> "none"]
  /\ leaderOf = [k \in FlowKeys |-> NULL]
  /\ reader = [r \in Readers |-> IdleReader]
  /\ breaker = [failures |-> 0, open |-> FALSE]
  /\ publisherLock = NULL /\ closing = "no" /\ asked = 0

(* _page up to the release of the service lock: the call is answered at *)
(* once, or waits for the leader, or leads.                             *)
Ask(r, k) ==
  LET pending == {q \in FlowKeys : leaderOf[q] # NULL}
      answered == \/ closing # "no" \/ page[k] = "fresh" \/ breaker.open
                  \/ (leaderOf[k] = NULL /\ Cardinality(pending) >= MaxPending)
  IN
  /\ reader[r].pc = "idle" /\ asked < MaxAsks
  /\ asked' = asked + 1
  /\ \/ answered /\ UNCHANGED <<reader, leaderOf>>
     \/ /\ ~answered /\ leaderOf[k] # NULL
        /\ reader' = [reader EXCEPT ![r] = [pc |-> "follow", key |-> k, answer |-> NULL]]
        /\ UNCHANGED leaderOf
     \/ /\ ~answered /\ leaderOf[k] = NULL
        /\ reader' = [reader EXCEPT ![r] = [pc |-> "lead", key |-> k, answer |-> NULL]]
        /\ leaderOf' = [leaderOf EXCEPT ![k] = r]
  /\ UNCHANGED <<page, breaker, publisherLock, closing>>

(* A reader's future is settled: every follower of it has its answer. *)
Settled(r, answer) ==
  [x \in Readers |->
     IF x = r THEN IdleReader
     ELSE IF reader[x].pc = "follow" /\ reader[x].key = reader[r].key /\ reader[x].answer = NULL
          THEN [reader[x] EXCEPT !.answer = answer] ELSE reader[x]]

(* Mutant: the closed flag is not looked at again under the publisher's lock. *)
Mutant_SendAnyway(r) ==
  /\ reader[r].pc = "lead" /\ publisherLock = NULL
  /\ publisherLock' = r
  /\ reader' = [reader EXCEPT ![r].pc = "read"]
  /\ UNCHANGED <<page, leaderOf, breaker, closing, asked>>

(* _fetch: once inside the publisher's lock the closed flag is read again. *)
SendRequest(r) ==
  /\ reader[r].pc = "lead" /\ publisherLock = NULL /\ closing = "no"
  /\ publisherLock' = r
  /\ reader' = [reader EXCEPT ![r].pc = "read"]
  /\ UNCHANGED <<page, leaderOf, breaker, closing, asked>>

OneMoreFailure ==
  [failures |-> IF breaker.failures < BreakAfter THEN breaker.failures + 1 ELSE BreakAfter,
   open |-> breaker.open \/ breaker.failures + 1 >= BreakAfter]

(* A leader that finds the service closed fails like any other read. *)
RefuseRequest(r) ==
  /\ reader[r].pc = "lead" /\ publisherLock = NULL /\ closing # "no"
  /\ leaderOf' = [leaderOf EXCEPT ![reader[r].key] = NULL]
  /\ breaker' = OneMoreFailure
  /\ reader' = Settled(r, "error")
  /\ UNCHANGED <<page, publisherLock, closing, asked>>

(* The page arrives and projects: cached unless the service was closed. *)
ReadSucceeds(r) ==
  /\ reader[r].pc = "read"
  /\ publisherLock' = NULL
  /\ leaderOf' = [leaderOf EXCEPT ![reader[r].key] = NULL]
  /\ breaker' = [failures |-> 0, open |-> FALSE]
  /\ page' = IF closing = "no" THEN [page EXCEPT ![reader[r].key] = "fresh"] ELSE page
  /\ reader' = Settled(r, "page")
  /\ UNCHANGED <<closing, asked>>

(* The publisher fails (counted by the breaker), or rejects the query's *)
(* cursor (not counted); the followers get the exception either way.    *)
ReadFails(r, counted) ==
  /\ reader[r].pc = "read"
  /\ publisherLock' = NULL
  /\ leaderOf' = [leaderOf EXCEPT ![reader[r].key] = NULL]
  /\ breaker' = IF counted THEN OneMoreFailure ELSE breaker
  /\ reader' = Settled(r, "error")
  /\ UNCHANGED <<page, closing, asked>>

(* A follower returns the answer, or the last good page after its timeout. *)
FollowerReturns(r) ==
  /\ reader[r].pc = "follow" /\ reader[r].answer # NULL
  /\ reader' = [reader EXCEPT ![r] = IdleReader]
  /\ UNCHANGED <<page, leaderOf, breaker, publisherLock, closing, asked>>

FollowerTimesOut(r) ==
  /\ reader[r].pc = "follow" /\ reader[r].answer = NULL
  /\ reader' = [reader EXCEPT ![r] = IdleReader]
  /\ UNCHANGED <<page, leaderOf, breaker, publisherLock, closing, asked>>

PageAges(k) ==
  /\ page[k] = "fresh"
  /\ page' = [page EXCEPT ![k] = "stale"]
  /\ UNCHANGED <<leaderOf, reader, breaker, publisherLock, closing, asked>>

BreakerCloses ==
  /\ breaker.open
  /\ breaker' = [breaker EXCEPT !.open = FALSE]
  /\ UNCHANGED <<page, leaderOf, reader, publisherLock, closing, asked>>

(* close(): the flag and the cache first, the session once the publisher's *)
(* lock is free.                                                           *)
StartClose ==
  /\ closing = "no"
  /\ closing' = "closing"
  /\ page' = [k \in FlowKeys |-> "none"]
  /\ UNCHANGED <<leaderOf, reader, breaker, publisherLock, asked>>

CloseSession ==
  /\ closing = "closing" /\ publisherLock = NULL
  /\ closing' = "closed"
  /\ UNCHANGED <<page, leaderOf, reader, breaker, publisherLock, asked>>

FlowStep(r) ==
  \/ SendRequest(r) \/ RefuseRequest(r) \/ ReadSucceeds(r)
  \/ ReadFails(r, TRUE) \/ ReadFails(r, FALSE) \/ FollowerReturns(r)

FlowNext ==
  \/ \E r \in Readers : FlowStep(r) \/ FollowerTimesOut(r) \/ \E k \in FlowKeys : Ask(r, k)
  \/ \E k \in FlowKeys : PageAges(k)
  \/ BreakerCloses \/ StartClose \/ CloseSession

FlowSpec == FlowInit /\ [][FlowNext]_flowVars

-----------------------------------------------------------------------------
(* No future is orphaned: a follower whose answer is still out waits for a *)
(* reader that is leading that very page, so a leader that fails, or finds *)
(* the service closed, never leaves the others waiting; and a closed       *)
(* service has no request on its session and no page in its cache.         *)
FlightsLed ==
  /\ \A r \in Readers : reader[r].pc = "follow" /\ reader[r].answer = NULL =>
       /\ leaderOf[reader[r].key] # NULL
       /\ LET l == leaderOf[reader[r].key]
          IN  reader[l].pc \in {"lead", "read"} /\ reader[l].key = reader[r].key
  /\ closing = "closed" =>
       /\ \A r \in Readers : reader[r].pc # "read"
       /\ \A k \in FlowKeys : page[k] = "none"
=============================================================================
