------------------------------ MODULE ChainIndex ------------------------------
(***************************************************************************)
(* The scanning lanes of MarketIndexer (lp_market_index.py) over the       *)
(* durable store and a chain that reorganises: startup, the live lane, the *)
(* history lane, the enrichment lane as far as it reports orphans, and the *)
(* reorganisation recovery the three share.                                *)
(*                                                                         *)
(* Every worker is a thread.  A step is one store transaction, or one      *)
(* batch of provider reads with the decisions taken on it; the chain and   *)
(* the other workers move between steps.  An RPC failure, and every reason *)
(* to give way that the code has (catch-up debt, paused bulk work, a       *)
(* projection backlog), ends an iteration without an effect on the store:  *)
(* it is the step GiveUp.                                                  *)
(***************************************************************************)
EXTENDS Chain, FiniteSets

CONSTANTS
    Workers,        \* the threads that run, a subset of AllWorkers
    LiveChunk,      \* bound of _live_chunk
    HistoryChunk,   \* bound of _history_chunk
    Lookback,       \* history_days, in blocks below the origin head
    MaxLag,         \* how far a provider's head may trail the chain
    MaxCrashes      \* bound: restarts of the process

AllWorkers == {"live", "history", "enrich"}

ASSUME IndexAssumption ==
    /\ "live" \in Workers
    /\ Workers \subseteq AllWorkers
    /\ LiveChunk \in Nat \ {0}
    /\ HistoryChunk \in Nat \ {0}
    /\ Lookback \in Nat
    /\ MaxLag \in Nat
    /\ MaxCrashes \in Nat

VARIABLES
    blocks, events, covered, live, history, epoch,   \* the durable store
    place,             \* where each worker stands
    job,            \* what each worker holds in its local variables
    fix,            \* the locals of the worker that holds _reorg_lock
    crashes         \* restarts so far

INSTANCE CanonicalStore
    WITH Hash <- Hashes, Number <- HashNumber, Parent <- HashParent,
         Targets <- 0..MaxHeight

tables == <<blocks, events, covered, live, history, epoch>>
workVars == <<place, job, fix, crashes>>
vars == <<chainVars, tables, workVars>>

Higher(a, b) == IF a >= b THEN a ELSE b
Lower(a, b) == IF a <= b THEN a ELSE b

\* The locals of an iteration: the cursor's block and epoch when they were
\* read, the interval, the headers read for it and its blocks with logs; for
\* the history lane, whether the interval lies below one it stored before and
\* whether it was cut.
NoJob == [seen |-> <<>>, epoch |-> 0, first |-> 0, last |-> 0,
          heads |-> {}, logs |-> {}, below |-> FALSE, cut |-> FALSE]

NoHistory == EmptyHistory(NoHash)

NoFix == [ancestor |-> <<>>, prior |-> NoHistory]

\* The lane is in an iteration of its own and holds no lock.
Scanning == {"logs", "confirm", "join", "store", "origin"}
\* The worker is about to call _recover_reorg; the three ways to call it.
Repairing == {"conflict", "observed", "anchored"}
\* The worker holds _reorg_lock.
Locked == {"rollback", "relive", "rehistory"}

LockFree == \A w \in Workers : place[w] \notin Locked
Booted == place["live"] \notin {"boot", "bootHistory"}

\* The head number a provider reports.
Heads == Higher(0, Len(chain) - MaxLag)..Len(chain)

HeaderAt(hs, n) == CHOOSE h \in hs : Len(h) = n

IndexInit ==
    /\ ChainInit
    /\ blocks = {} /\ events = {} /\ epoch = 0
    /\ covered = [l \in Lanes |-> {}]
    /\ live = [init |-> FALSE, at |-> NoHash]
    /\ history = NoHistory
    /\ place = [w \in Workers |-> IF w = "live" THEN "boot" ELSE "idle"]
    /\ job = [w \in Workers |-> NoJob]
    /\ fix = NoFix
    /\ crashes = 0

Goto(w, label) == place' = [place EXCEPT ![w] = label]

\* An iteration ends; its locals are gone.
Finish(w) ==
    /\ Goto(w, "idle")
    /\ job' = [job EXCEPT ![w] = NoJob]

-----------------------------------------------------------------------------
(* Startup: _bootstrap, by the live worker.                                *)

\* _initialize_cursors, first half: a live cursor one block below the head.
BootLive ==
    /\ place["live"] = "boot"
    /\ \E head \in Heads :
          /\ job' = [job EXCEPT !["live"] = [NoJob EXCEPT !.last = head]]
          /\ IF live.init THEN UNCHANGED tables
             ELSE AnchorLive(At(Higher(0, head - 1)))
    /\ Goto("live", "bootHistory")
    /\ UNCHANGED <<chainVars, fix, crashes>>

\* Second half: a history cursor at the same number, read anew.
BootHistory ==
    /\ place["live"] = "bootHistory"
    /\ LET head == job["live"].last
           anchor == Higher(0, head - 1)
           target == IF Lookback = 0 THEN head ELSE 0
           cursor == FreshHistory(At(anchor), anchor + 1, target, Lookback > 0,
                                  head, Lookback = 0)
       IN \/ /\ history.init
             /\ UNCHANGED tables
          \/ /\ ~history.init
             /\ anchor <= Len(chain)
             /\ AnchorHistory(At(anchor), cursor)
    /\ Finish("live")
    /\ UNCHANGED <<chainVars, fix, crashes>>

\* The anchor is gone, or conflicts with the stored header: _live_run starts
\* the bootstrap again.
BootFails ==
    /\ place["live"] = "bootHistory"
    /\ ~history.init
    /\ LET anchor == Higher(0, job["live"].last - 1)
       IN anchor <= Len(chain) => Conflicting({At(anchor)})
    /\ Goto("live", "boot")
    /\ job' = [job EXCEPT !["live"] = NoJob]
    /\ UNCHANGED <<chainVars, tables, fix, crashes>>

-----------------------------------------------------------------------------
(* The live lane: _scan_live_once.                                         *)

\* The cursor and the head are read.  A head below the cursor is no evidence;
\* a different hash at the cursor's own number is.
LiveCompare ==
    /\ place["live"] = "idle"
    /\ Len(live.at) \in Heads
    /\ live.at # At(Len(live.at))
    /\ job' = [job EXCEPT !["live"] = [NoJob EXCEPT !.seen = live.at]]
    /\ Goto("live", "observed")
    /\ UNCHANGED <<chainVars, tables, fix, crashes>>

\* An interval above the cursor is chosen and its boundary headers are read.
LiveFetch ==
    /\ place["live"] = "idle"
    /\ \E head \in Heads :
       \E last \in (Len(live.at) + 1)..Lower(head, Len(live.at) + LiveChunk) :
          job' = [job EXCEPT !["live"] =
                    [NoJob EXCEPT
                        !.seen = live.at, !.epoch = epoch,
                        !.first = Len(live.at) + 1, !.last = last,
                        !.heads = {At(Len(live.at) + 1), At(last)}]]
    /\ Goto("live", "logs")
    /\ UNCHANGED <<chainVars, tables, fix, crashes>>

\* eth_getLogs over the interval.
ReadLogs(w) ==
    /\ place[w] = "logs"
    /\ job' = [job EXCEPT ![w].logs =
                 { h \in { At(n) : n \in job[w].first..Lower(job[w].last, Len(chain)) } :
                      HasLogs(h) }]
    /\ Goto(w, "confirm")
    /\ UNCHANGED <<chainVars, tables, fix, crashes>>

\* The wave after the logs: headers of the blocks with logs and, once more,
\* of the end of the interval.
ConfirmHeads(w) ==
    job[w].heads \cup
       { At(n) : n \in { Len(h) : h \in job[w].logs }
                       \ { Len(h) : h \in job[w].heads } }

Confirmed(w) ==
    /\ job[w].logs \subseteq ConfirmHeads(w)
    /\ HeaderAt(job[w].heads, job[w].last) = At(job[w].last)

Mutant_Extends == TRUE

\* The first block of a live interval is a child of the live cursor.
Extends ==
    HashParent(HeaderAt(job["live"].heads, job["live"].first)) = job["live"].seen

\* The interval is cut where it exceeds the store budget: the live lane keeps
\* its oldest whole blocks with logs.
LiveConfirm ==
    /\ place["live"] = "confirm"
    /\ job["live"].last <= Len(chain)
    /\ Confirmed("live")
    /\ Extends
    /\ LET j == job["live"]
       IN \E last \in {j.last} \cup { Len(h) : h \in j.logs } :
             job' = [job EXCEPT !["live"] =
                [j EXCEPT !.last = last,
                          !.logs = { h \in j.logs : Len(h) <= last },
                          !.heads = { h \in ConfirmHeads("live") : Len(h) <= last }]]
    /\ Goto("live", "store")
    /\ UNCHANGED <<chainVars, tables, fix, crashes>>

\* The interval changed while it was fetched (CanonicalConflict), or its first
\* block does not extend the cursor.
LiveDiverges ==
    /\ place["live"] = "confirm"
    /\ job["live"].last <= Len(chain)
    /\ \/ ~Confirmed("live") /\ Goto("live", "conflict")
       \/ /\ Confirmed("live")
          /\ ~Extends
          /\ Goto("live", "observed")
    /\ UNCHANGED <<chainVars, tables, job, fix, crashes>>

LiveStore ==
    /\ place["live"] = "store"
    /\ LET j == job["live"]
       IN IngestLive(j.heads, j.logs, HeaderAt(j.heads, j.first),
                     HeaderAt(j.heads, j.last), j.seen, j.epoch)
    /\ Finish("live")
    /\ UNCHANGED <<chainVars, fix, crashes>>

LiveRefused ==
    /\ place["live"] = "store"
    /\ \/ ~LiveCurrent(job["live"].seen, job["live"].epoch)
       \/ Conflicting(job["live"].heads)
    /\ Goto("live", "conflict")
    /\ UNCHANGED <<chainVars, tables, job, fix, crashes>>

-----------------------------------------------------------------------------
(* The history lane: _scan_history_once.                                   *)

\* The origin header is read to resolve a pending lookback target.
HistoryReadOrigin ==
    /\ place["history"] = "idle"
    /\ Booted
    /\ history.init /\ history.pending
    /\ history.origin <= Len(chain)
    /\ job' = [job EXCEPT !["history"] =
                 [NoJob EXCEPT !.epoch = epoch, !.last = history.nextTo,
                               !.heads = {At(history.origin)}]]
    /\ Goto("history", "origin")
    /\ UNCHANGED <<chainVars, tables, fix, crashes>>

\* _history_target: the first block inside the lookback window.
HistoryResolve ==
    /\ place["history"] = "origin"
    /\ \E origin \in job["history"].heads :
          ResolveTarget(origin, Higher(0, Len(origin) - Lookback),
                        job["history"].last, job["history"].epoch)
    /\ Finish("history")
    /\ UNCHANGED <<chainVars, fix, crashes>>

HistoryFetch ==
    /\ place["history"] = "idle"
    /\ Booted
    /\ history.init /\ ~history.pending /\ ~history.complete
    /\ history.nextTo <= Len(chain)
    /\ \E first \in Higher(history.target, history.nextTo - HistoryChunk + 1)
                      ..history.nextTo :
          job' = [job EXCEPT !["history"] =
                    [NoJob EXCEPT
                        !.seen = history.hash, !.epoch = epoch,
                        !.first = first, !.last = history.nextTo,
                        !.heads = {At(first), At(history.nextTo)},
                        !.below = history.scanned]]
    /\ Goto("history", "logs")
    /\ UNCHANGED <<chainVars, tables, fix, crashes>>

\* The history lane keeps the newest whole blocks of a cut interval.
HistoryConfirm ==
    /\ place["history"] = "confirm"
    /\ job["history"].last <= Len(chain)
    /\ Confirmed("history")
    /\ LET j == job["history"]
       IN \E first \in {j.first} \cup { Len(h) : h \in j.logs } :
             job' = [job EXCEPT !["history"] =
                [j EXCEPT !.first = first,
                          !.cut = first # j.first,
                          !.logs = { h \in j.logs : Len(h) >= first },
                          !.heads = { h \in ConfirmHeads("history") : Len(h) >= first }]]
    /\ Goto("history", "join")
    /\ UNCHANGED <<chainVars, tables, fix, crashes>>

\* Only the fetched boundaries were confirmed canonical: the start of a cut
\* interval, which becomes the anchor of the next one, is read again.
CutConfirmed(j) ==
    j.cut => /\ j.first <= Len(chain)
             /\ HeaderAt(j.heads, j.first) = At(j.first)

\* The lowest block of the lane must still be canonical and extend the
\* interval that is about to be stored below it.
Joins(j) ==
    LET prior == At(j.last + 1)
    IN prior = j.seen /\ HashParent(prior) = HeaderAt(j.heads, j.last)

HistoryJoin ==
    /\ place["history"] = "join"
    /\ CutConfirmed(job["history"])
    /\ \/ /\ ~job["history"].below
          /\ Goto("history", "store")
       \/ /\ job["history"].below
          /\ job["history"].last + 1 <= Len(chain)
          /\ Goto("history", IF Joins(job["history"]) THEN "store" ELSE "anchored")
    /\ UNCHANGED <<chainVars, tables, job, fix, crashes>>

HistoryStore ==
    /\ place["history"] = "store"
    /\ LET j == job["history"]
       IN IngestHistory(j.heads, j.logs, HeaderAt(j.heads, j.first),
                        HeaderAt(j.heads, j.last), j.epoch)
    /\ Finish("history")
    /\ UNCHANGED <<chainVars, fix, crashes>>

\* An iteration ends without touching the store: an RPC failure or a reason to
\* give way.  For the history lane a refused interval is one of them.
GiveUp(w) ==
    /\ place[w] \in Scanning
    /\ Finish(w)
    /\ UNCHANGED <<chainVars, tables, fix, crashes>>

-----------------------------------------------------------------------------
(* The enrichment lane finds that the block of a stored event is orphaned. *)

EnrichFindsOrphan ==
    /\ place["enrich"] = "idle"
    /\ Booted
    /\ \E e \in events :
          /\ Len(e) <= Len(chain)
          /\ ~Canonical(e)
          /\ job' = [job EXCEPT !["enrich"] = [NoJob EXCEPT !.seen = e]]
    /\ Goto("enrich", "anchored")
    /\ UNCHANGED <<chainVars, tables, fix, crashes>>

-----------------------------------------------------------------------------
(* _recover_reorg, under _reorg_lock.                                      *)

\* The block whose place on the chain is in doubt.
Suspect(w) == IF place[w] = "anchored" THEN job[w].seen ELSE live.at

\* An observed conflict counts only against the cursor it was observed with.
ConflictApplies(w) ==
    \/ place[w] = "anchored"
    \/ place[w] = "observed" /\ live.at = job[w].seen

\* No rollback: the suspect is canonical, or beyond a head that may just lag.
Unproven(w, head) ==
    \/ Len(Suspect(w)) <= head /\ Canonical(Suspect(w))
    \/ Len(Suspect(w)) > head /\ ~ConflictApplies(w)

RecoverSkips(w) ==
    /\ place[w] \in Repairing
    /\ LockFree
    /\ \E head \in Heads : Unproven(w, head)
    /\ Finish(w)
    /\ UNCHANGED <<chainVars, tables, fix, crashes>>

\* The highest canonical row of blocks up to number n, or genesis.
SparseAncestor(n) ==
    CHOOSE h \in {<<>>} \cup { b \in blocks : Canonical(b) /\ Len(b) <= n } :
        \A b \in blocks : Canonical(b) /\ Len(b) <= n => Len(b) <= Len(h)

\* The common ancestor is found, by the parents of the orphan where a provider
\* still knows it, else among the stored headers.
RecoverLocate(w) ==
    /\ place[w] \in Repairing
    /\ LockFree
    /\ \E head \in Heads :
          LET n == Lower(Len(Suspect(w)), head)
          IN /\ ~Unproven(w, head)
             /\ \E a \in {CommonAncestor(Suspect(w), n), SparseAncestor(n)} :
                   fix' = [ancestor |-> a, prior |-> history]
    /\ Goto(w, "rollback")
    /\ UNCHANGED <<chainVars, tables, job, crashes>>

RecoverRollback(w) ==
    /\ place[w] = "rollback"
    /\ Rollback(fix.ancestor)
    /\ Goto(w, "relive")
    /\ UNCHANGED <<chainVars, job, fix, crashes>>

RecoverLive(w) ==
    /\ place[w] = "relive"
    /\ AnchorLive(fix.ancestor)
    /\ Goto(w, "rehistory")
    /\ UNCHANGED <<chainVars, job, fix, crashes>>

Mutant_RepairedHistory(a, prior) ==
    FreshHistory(a, Len(a), prior.target, prior.pending, prior.origin,
                 ~prior.pending)

\* The history cursor that recovery recreates below the ancestor.
RepairedHistory(a, prior) ==
    FreshHistory(a, Len(a), IF prior.pending THEN 0 ELSE prior.target,
                 prior.pending, prior.origin,
                 ~prior.pending /\ Len(a) - 1 < prior.target)

RecoverHistory(w) ==
    /\ place[w] = "rehistory"
    /\ IF history.init THEN UNCHANGED tables
       ELSE AnchorHistory(fix.ancestor, RepairedHistory(fix.ancestor, fix.prior))
    /\ fix' = NoFix
    /\ Finish(w)
    /\ UNCHANGED <<chainVars, crashes>>

\* A recovery transaction is refused: the exception leaves the lock.
RecoverFails(w) ==
    /\ place[w] \in Locked
    /\ place[w] = "rehistory" => ~history.init
    /\ Conflicting({fix.ancestor})
    /\ fix' = NoFix
    /\ Finish(w)
    /\ UNCHANGED <<chainVars, tables, crashes>>

-----------------------------------------------------------------------------
\* The process dies between two transactions and starts again on the store.
Crash ==
    /\ crashes < MaxCrashes
    /\ crashes' = crashes + 1
    /\ place' = [w \in Workers |-> IF w = "live" THEN "boot" ELSE "idle"]
    /\ job' = [w \in Workers |-> NoJob]
    /\ fix' = NoFix
    /\ UNCHANGED <<chainVars, tables>>

LiveStep ==
    \/ BootLive \/ BootHistory \/ BootFails
    \/ LiveCompare \/ LiveFetch \/ LiveConfirm \/ LiveDiverges
    \/ LiveStore \/ LiveRefused

HistoryStep ==
    /\ "history" \in Workers
    /\ \/ HistoryReadOrigin \/ HistoryResolve \/ HistoryFetch
       \/ HistoryConfirm \/ HistoryJoin \/ HistoryStore

EnrichStep == "enrich" \in Workers /\ EnrichFindsOrphan

RecoverStep(w) ==
    \/ RecoverSkips(w) \/ RecoverLocate(w) \/ RecoverRollback(w)
    \/ RecoverLive(w) \/ RecoverHistory(w) \/ RecoverFails(w)

Environment ==
    /\ Mine \/ Reorganise
    /\ UNCHANGED <<tables, workVars>>

IndexNext ==
    \/ Environment
    \/ LiveStep
    \/ HistoryStep
    \/ EnrichStep
    \/ \E w \in Workers : ReadLogs(w) \/ GiveUp(w) \/ RecoverStep(w)
    \/ Crash

IndexSpec == IndexInit /\ [][IndexNext]_vars

\* The chain grows.  Threads run and providers answer: an iteration of the
\* live lane that can go on is not given up for ever.  Nothing is assumed of
\* the history and enrichment lanes until they hold the recovery lock.
IndexFairness ==
    /\ WF_vars(Mine /\ UNCHANGED <<tables, workVars>>)
    /\ WF_vars(BootLive \/ BootHistory \/ BootFails)
    /\ WF_vars(LiveCompare \/ LiveFetch)
    /\ SF_vars(ReadLogs("live"))
    /\ SF_vars(LiveConfirm \/ LiveDiverges)
    /\ SF_vars(LiveStore \/ LiveRefused)
    /\ \A w \in Workers : SF_vars(RecoverStep(w))

IndexFairSpec == IndexSpec /\ IndexFairness

-----------------------------------------------------------------------------
Labels == {"boot", "bootHistory", "idle"} \cup Scanning \cup Repairing \cup Locked

Heights == 0..MaxHeight

IndexTypeOK ==
    /\ chain \in Hashes
    /\ forks \in 0..MaxForks
    /\ blocks \subseteq Hashes
    /\ events \subseteq Hashes
    /\ covered \in [Lanes -> SUBSET Heights]
    /\ live.init \in BOOLEAN /\ live.at \in Hashes
    /\ history.init \in BOOLEAN /\ history.hash \in Hashes
    /\ history.nextTo \in -1..MaxHeight /\ history.target \in Heights
    /\ place \in [Workers -> Labels]
    /\ \A w \in Workers :
          /\ job[w].seen \in Hashes
          /\ job[w].heads \subseteq Hashes
          /\ job[w].logs \subseteq Hashes
          /\ job[w].first \in Heights /\ job[w].last \in -1..MaxHeight
    /\ crashes \in 0..MaxCrashes

\* The stored events of number n are those of the canonical block n.
EventsMatch(n) ==
    /\ HasLogs(At(n)) <=> At(n) \in events
    /\ \A e \in events : Len(e) = n => e = At(n)

(***************************************************************************)
(* Whenever the live cursor is canonical, the stored events of the covered *)
(* blocks up to it are exactly those of the canonical chain.  The two      *)
(* lanes fetch in several waves while the chain reorganises, and a         *)
(* recovery of another worker may run between any two of them: the         *)
(* confirmation wave of _fetch_interval, the parent check, the boundary    *)
(* join and the epoch check of ingest keep what is stored exact.           *)
(***************************************************************************)
LiveExact ==
    live.init /\ Canonical(live.at) =>
        \A n \in covered["live"] \cup covered["history"] :
            n <= Len(live.at) => EventsMatch(n)

(***************************************************************************)
(* A resolved history cursor that has nothing left to scan says so: the    *)
(* branch "if end < target" of _scan_history_once, which would complete    *)
(* such a cursor, is never needed, whichever of startup, target            *)
(* resolution, scanning and recovery wrote the cursor last.                *)
(***************************************************************************)
CompleteExact ==
    history.init /\ ~history.pending =>
        (history.nextTo < history.target <=> history.complete)

(***************************************************************************)
(* The live cursor never moves forward over blocks the live lane has not   *)
(* stored: every block between its old and its new place is covered.       *)
(***************************************************************************)
NoSkip ==
    [][live.init => (Len(live.at) + 1)..Len(live'.at) \subseteq covered'["live"]]_vars

\* The lookback window and everything above it up to the live cursor.
Window == history.target..Len(live.at)

Finished ==
    /\ Booted /\ LockFree
    /\ Canonical(live.at)
    /\ history.init /\ history.complete

(***************************************************************************)
(* "window_complete: true only when indexed history reaches the start of a *)
(* finite requested window": once the history cursor is complete, no block *)
(* with logs in the window is missing.                                     *)
(***************************************************************************)
CoverageComplete ==
    Finished =>
        \A n \in Window : HasLogs(At(n)) => At(n) \in events

(***************************************************************************)
(* "Keep the durable cursor and retry until this provider can show either  *)
(* the cursor or its child": once the chain settles, the live cursor       *)
(* reaches its head and stays there.                                       *)
(***************************************************************************)
LiveCatchesUp == <>[](live.at = chain)
=============================================================================
