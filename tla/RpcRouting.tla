------------------------------ MODULE RpcRouting ------------------------------
(***************************************************************************)
(* RoutedRpc and _Registry (lp_rpc.py): how a call or a batch fails over   *)
(* between the sources of a capability, how a source's chain is verified   *)
(* before its first use, and how close() waits for requests in flight.     *)
(*                                                                         *)
(* A caller is a thread that makes one call or batch_results on a lane of  *)
(* its own.  An item is its position in the batch.  An answer is what      *)
(* _validate_item makes of a response item: "result" (a result, or an      *)
(* execution revert, which is not retried either), "null" (no such         *)
(* transaction), "limited" (rate limited) or "error".  A call is a batch   *)
(* of one item.  A batch of several capabilities is run as one batch per   *)
(* capability and is not modelled.  The cooldowns that the failures and    *)
(* successes of all threads start and end are left open: a source may be   *)
(* cooling down whenever it is looked at.                                  *)
(***************************************************************************)
EXTENDS Integers, Sequences, FiniteSets, SequencesExt

CONSTANTS
    Caller,
    Size,           \* the number of items each caller asks for
    Sources,        \* the sources of each capability, in the order they are tried
    Limit,          \* batch_limit of each source
    Local,          \* the sources on this machine, whose head may lag
    Foreign,        \* the sources that serve another chain
    Explorer,       \* the block explorer, a last resort for single log calls
    LogCaller       \* the callers of eth_getLogs; the others look up hashes

Capabilities == {"logs", "receipts"}
Source == UNION { Range(Sources[p]) : p \in Capabilities }

None == "none"

ASSUME RoutingAssumption ==
    /\ IsFiniteSet(Caller) /\ None \notin Caller
    /\ \A p \in Capabilities : Sources[p] \in Seq(Range(Sources[p]))
    /\ Size \in [Caller -> Nat \ {0}]
    /\ Limit \in [Source -> Nat \ {0}]
    /\ Local \subseteq Source
    /\ Foreign \subseteq Source
    /\ Explorer \notin Source
    /\ LogCaller \subseteq Caller

VARIABLES
    pc,             \* where each caller is
    job,            \* the locals of each caller's _run_batch
    verified,       \* _verified_sources
    verifier,       \* the holder of each source's verification lock
    active,         \* _active_requests
    laneClosed,     \* the lanes with _closed set
    closer,         \* where _Registry.close is
    dozing          \* close sleeps in _requests_drained.wait

vars == <<pc, job, verified, verifier, active, laneClosed, closer, dozing>>

Item(c) == 1..Size[c]
Capability(c) == IF c \in LogCaller THEN "logs" ELSE "receipts"

\* What one post may bring for one item.
Answers(c) == {"result", "limited", "error"}
              \cup (IF c \in LogCaller THEN {} ELSE {"null"})

(***************************************************************************)
(* plan: the candidates not tried yet; source: the one in use; pending,    *)
(* chunks, nulls: pending, chunks and null_pending; out: output, whose     *)
(* entries start as None; failed: the items with failure messages;         *)
(* missing: valid_nulls.                                                   *)
(***************************************************************************)
FreshJob(c) ==
    [plan |-> <<>>, source |-> Explorer, purpose |-> None,
     pending |-> <<>>, chunks |-> <<>>, nulls |-> <<>>,
     out |-> [i \in Item(c) |-> "null"], failed |-> {}, missing |-> {}]

Init ==
    /\ pc = [c \in Caller |-> "called"]
    /\ job = [c \in Caller |-> FreshJob(c)]
    /\ verified = {}
    /\ verifier = [s \in Source |-> None]
    /\ active = 0
    /\ laneClosed = {}
    /\ closer = "open"
    /\ dozing = FALSE

-----------------------------------------------------------------------------
Goto(c, label) == pc' = [pc EXCEPT ![c] = label]

Attempted(c) == Head(job[c].chunks).items

ItemsOf(chunks) == FlattenSeq([k \in DOMAIN chunks |-> chunks[k].items])

\* The pending items in pieces of at most n.
Cut(items, n) ==
    [k \in 1..((Len(items) + n - 1) \div n) |->
        [items |-> SubSeq(items, (k - 1) * n + 1,
                          IF k * n < Len(items) THEN k * n ELSE Len(items)),
         split |-> FALSE]]

\* Where a batch ends: what became of the items no source settled.
Settled(j) ==
    [j EXCEPT !.pending = <<>>, !.chunks = <<>>, !.nulls = <<>>, !.plan = <<>>,
              !.purpose = None, !.source = Explorer,
              !.out = [i \in DOMAIN j.out |->
                          IF i \notin Range(j.pending) THEN j.out[i]
                          ELSE IF i \in j.failed THEN "error"
                          ELSE IF i \in j.missing THEN "null"
                          ELSE "deferred"]]

\* A closed lane raises before anything is asked.
Begin(c) ==
    /\ pc[c] = "called"
    /\ IF c \in laneClosed
       THEN /\ Goto(c, "raised")
            /\ UNCHANGED job
       ELSE /\ Goto(c, "next")
            /\ job' = [job EXCEPT ![c].plan = Sources[Capability(c)],
                                  ![c].pending = [i \in Item(c) |-> i]]
    /\ UNCHANGED <<verified, verifier, active, laneClosed, closer, dozing>>

\* The source is cooling down, when candidates() listed it or by now.
PassOver(c) ==
    /\ pc[c] = "next"
    /\ job[c].pending # <<>>
    /\ job[c].plan # <<>>
    /\ job' = [job EXCEPT ![c].plan = Tail(@)]
    /\ UNCHANGED <<pc, verified, verifier, active, laneClosed, closer, dozing>>

\* The next source takes what is still pending, in chunks.
NextSource(c) ==
    /\ pc[c] = "next"
    /\ job[c].pending # <<>>
    /\ job[c].plan # <<>>
    /\ LET s == Head(job[c].plan) IN
          job' = [job EXCEPT ![c].plan = Tail(@),
                             ![c].source = s,
                             ![c].chunks = Cut(job[c].pending, Limit[s]),
                             ![c].pending = <<>>,
                             ![c].nulls = <<>>]
    /\ Goto(c, "chunk")
    /\ UNCHANGED <<verified, verifier, active, laneClosed, closer, dozing>>

\* A single eth_getLogs that no source answered goes to the explorer, unless
\* that is cooling down.
AskExplorer(c) ==
    /\ pc[c] = "next"
    /\ job[c].plan = <<>>
    /\ job[c].pending # <<>>
    /\ c \in LogCaller
    /\ Size[c] = 1
    /\ job' = [job EXCEPT ![c].source = Explorer, ![c].purpose = "explore"]
    /\ Goto(c, "acquire")
    /\ UNCHANGED <<verified, verifier, active, laneClosed, closer, dozing>>

Conclude(c) ==
    /\ pc[c] = "next"
    /\ job[c].pending = <<>> \/ job[c].plan = <<>>
    /\ job' = [job EXCEPT ![c] = Settled(@)]
    /\ Goto(c, "done")
    /\ UNCHANGED <<verified, verifier, active, laneClosed, closer, dozing>>

-----------------------------------------------------------------------------
Mutant_FailedRequest(c) ==
    /\ job' = [job EXCEPT ![c].failed = @ \cup Range(Attempted(c)),
                          ![c].pending = Attempted(c) \o job[c].nulls,
                          ![c].chunks = <<>>,
                          ![c].purpose = None]
    /\ verifier' = [s \in Source |-> IF verifier[s] = c THEN None ELSE verifier[s]]
    /\ Goto(c, "next")

Mutant_KeptLock(c) ==
    /\ job' = [job EXCEPT ![c].failed = @ \cup Range(Attempted(c)),
                          ![c].pending = job[c].nulls \o ItemsOf(job[c].chunks),
                          ![c].chunks = <<>>,
                          ![c].purpose = None]
    /\ UNCHANGED verifier
    /\ Goto(c, "next")

\* An exception of the request itself (transport, malformed response, wrong
\* chain, closed lane or registry): the source cools down, the items of this
\* chunk get a message, and they and the later chunks go to the next source.
FailedRequest(c) ==
    /\ job' = [job EXCEPT ![c].failed = @ \cup Range(Attempted(c)),
                          ![c].pending = job[c].nulls \o ItemsOf(job[c].chunks),
                          ![c].chunks = <<>>,
                          ![c].purpose = None]
    /\ verifier' = [s \in Source |-> IF verifier[s] = c THEN None ELSE verifier[s]]
    /\ Goto(c, "next")

\* _reserve_ids, then the request waits for its session.
Reserve(c, purpose) ==
    IF c \in laneClosed
    THEN FailedRequest(c)
    ELSE /\ job' = [job EXCEPT ![c].purpose = purpose]
         /\ Goto(c, "acquire")

Mutant_UseSource(c) ==
    /\ pc[c] = "chunk"
    /\ Reserve(c, IF c \in LogCaller /\ job[c].source \in Local
                  THEN "range" ELSE "ask")
    /\ UNCHANGED <<verified, verifier, active, laneClosed, closer, dozing>>

\* The chunk on a verified source; a local one is first asked how far it is.
UseSource(c) ==
    /\ pc[c] = "chunk"
    /\ job[c].source \in verified
    /\ Reserve(c, IF c \in LogCaller /\ job[c].source \in Local
                  THEN "range" ELSE "ask")
    /\ UNCHANGED <<verified, verifier, active, laneClosed, closer, dozing>>

\* _ensure_chain: under the verification lock, if it is still needed then.
Verify(c) ==
    LET s == job[c].source IN
    /\ pc[c] = "chunk"
    /\ s \notin verified
    /\ verifier[s] = None
    /\ Reserve(c, "verify")
    /\ verifier' = [verifier EXCEPT ![s] = IF c \in laneClosed THEN None ELSE c]
    /\ UNCHANGED <<verified, active, laneClosed, closer, dozing>>

Mutant_Acquire(c) ==
    /\ pc[c] = "acquire"
    /\ active' = active + 1
    /\ Goto(c, "posting")
    /\ UNCHANGED <<job, verified, verifier, laneClosed, closer, dozing>>

\* _acquire_session, before the post.
Acquire(c) ==
    /\ pc[c] = "acquire"
    /\ closer \in {"open", "lane"}
    /\ active' = active + 1
    /\ Goto(c, "posting")
    /\ UNCHANGED <<job, verified, verifier, laneClosed, closer, dozing>>

\* What the explorer call ends with: a result, or one more message.
ExplorerSays(c, ok) ==
    /\ job' = [job EXCEPT ![c] =
                  IF ok THEN Settled([@ EXCEPT !.out[1] = "result", !.pending = <<>>])
                  ELSE Settled([@ EXCEPT !.failed = {1}])]
    /\ Goto(c, "done")
    /\ UNCHANGED verifier

AcquireRefused(c) ==
    /\ pc[c] = "acquire"
    /\ closer \in {"draining", "closed"}
    /\ IF job[c].purpose = "explore" THEN ExplorerSays(c, FALSE) ELSE FailedRequest(c)
    /\ UNCHANGED <<verified, active, laneClosed, closer, dozing>>

-----------------------------------------------------------------------------
Mutant_Release ==
    /\ active' = active - 1
    /\ UNCHANGED dozing

\* _release_session: the last one wakes close().
Release ==
    /\ active' = active - 1
    /\ dozing' = IF active = 1 THEN FALSE ELSE dozing

\* No usable response within the timeout, or of the wrong shape.
PostFails(c) ==
    /\ pc[c] = "posting"
    /\ Release
    /\ IF job[c].purpose = "explore" THEN ExplorerSays(c, FALSE) ELSE FailedRequest(c)
    /\ UNCHANGED <<verified, laneClosed, closer>>

PostExplored(c) ==
    /\ pc[c] = "posting"
    /\ job[c].purpose = "explore"
    /\ Release
    /\ ExplorerSays(c, TRUE)
    /\ UNCHANGED <<verified, laneClosed, closer>>

\* eth_chainId: another chain is a failure like any other.
PostVerified(c) ==
    LET s == job[c].source IN
    /\ pc[c] = "posting"
    /\ job[c].purpose = "verify"
    /\ Release
    /\ IF s \in Foreign
       THEN FailedRequest(c) /\ UNCHANGED verified
       ELSE /\ verified' = verified \cup {s}
            /\ verifier' = [verifier EXCEPT ![s] = None]
            /\ Goto(c, "chunk")
            /\ job' = [job EXCEPT ![c].purpose = None]
    /\ UNCHANGED <<laneClosed, closer>>

\* eth_blockNumber of a local source: behind the range it is passed over,
\* without blame.
PostRange(c, reached) ==
    /\ pc[c] = "posting"
    /\ job[c].purpose = "range"
    /\ Release
    /\ IF reached
       THEN Reserve(c, "ask") /\ (c \in laneClosed \/ UNCHANGED verifier)
       ELSE /\ job' = [job EXCEPT ![c].pending = job[c].nulls \o ItemsOf(job[c].chunks),
                                  ![c].chunks = <<>>,
                                  ![c].purpose = None]
            /\ Goto(c, "next")
            /\ UNCHANGED <<verifier>>
    /\ UNCHANGED <<verified, laneClosed, closer>>

-----------------------------------------------------------------------------
\* The positions of K, first to last.
InOrder(K) ==
    CHOOSE at \in [1..Cardinality(K) -> K] :
        \A a, b \in DOMAIN at : a < b => at[a] < at[b]

(***************************************************************************)
(* The response to a chunk: says[k] is the answer for its k-th item.       *)
(***************************************************************************)
Where(c, says, kinds) ==
    LET at == InOrder({k \in DOMAIN says : says[k] \in kinds})
    IN [n \in DOMAIN at |-> Attempted(c)[at[n]]]

Unresolved(c, says) == Where(c, says, {"limited", "error"})

\* The locals after the loop over the items of the response.
Noted(c, says) ==
    LET j == job[c]
        results == Range(Where(c, says, {"result"}))
        none == Where(c, says, {"null"})
    IN [j EXCEPT !.out = [i \in DOMAIN j.out |->
                             IF i \in results THEN "result" ELSE j.out[i]],
                 !.nulls = @ \o none,
                 !.missing = @ \cup Range(none),
                 !.failed = @ \cup Range(Unresolved(c, says)),
                 !.purpose = None]

\* The provider throttled the burst: two smaller posts, once.
Splits(c, says) ==
    /\ ~Head(job[c].chunks).split
    /\ Len(Attempted(c)) > 1
    /\ \A k \in DOMAIN says : says[k] # "error"

Halves(items) ==
    LET half == Len(items) \div 2
    IN << [items |-> SubSeq(items, 1, half), split |-> TRUE],
          [items |-> SubSeq(items, half + 1, Len(items)), split |-> TRUE] >>

\* The items of a chunk that go to the next source when some of them failed.
Leftover(c, says) == Unresolved(c, says)

PostAnswered(c, says) ==
    LET j == Noted(c, says)
        later == Tail(j.chunks)
    IN
    /\ pc[c] = "posting"
    /\ job[c].purpose = "ask"
    /\ Release
    /\ \/ /\ Unresolved(c, says) = <<>>
          /\ job' = [job EXCEPT ![c] =
                        IF later = <<>>
                        THEN [j EXCEPT !.chunks = <<>>, !.pending = j.nulls]
                        ELSE [j EXCEPT !.chunks = later]]
          /\ Goto(c, IF later = <<>> THEN "next" ELSE "chunk")
       \/ /\ Unresolved(c, says) # <<>>
          /\ Splits(c, says)
          /\ job' = [job EXCEPT ![c] =
                        [j EXCEPT !.chunks = Halves(Attempted(c)) \o later]]
          /\ Goto(c, "chunk")
       \/ /\ Unresolved(c, says) # <<>>
          /\ ~Splits(c, says)
          /\ job' = [job EXCEPT ![c] =
                        [j EXCEPT !.chunks = <<>>,
                                  !.pending = Leftover(c, says) \o ItemsOf(later)
                                              \o j.nulls]]
                /\ Goto(c, "next")
    /\ UNCHANGED <<verified, verifier, laneClosed, closer>>

-----------------------------------------------------------------------------
\* RoutedRpc.close marks its lane before it closes the registry;
\* RpcFactory.close closes only the registry.
CloseLane(c) ==
    /\ closer = "open"
    /\ closer' = "lane"
    /\ laneClosed' = {c}
    /\ UNCHANGED <<pc, job, verified, verifier, active, dozing>>

CloseRegistry ==
    /\ closer \in {"open", "lane"}
    /\ closer' = "draining"
    /\ dozing' = (active # 0)
    /\ UNCHANGED <<pc, job, verified, verifier, active, laneClosed>>

\* close() got the lock again: it leaves its loop, or sleeps on.
CloseDrained ==
    /\ closer = "draining"
    /\ ~dozing
    /\ IF active = 0 THEN closer' = "closed" /\ UNCHANGED dozing
       ELSE dozing' = TRUE /\ UNCHANGED closer
    /\ UNCHANGED <<pc, job, verified, verifier, active, laneClosed>>

Step(c) ==
    \/ Begin(c) \/ PassOver(c) \/ NextSource(c) \/ AskExplorer(c) \/ Conclude(c)
    \/ UseSource(c) \/ Verify(c) \/ Acquire(c) \/ AcquireRefused(c)
    \/ PostFails(c) \/ PostExplored(c) \/ PostVerified(c)
    \/ \E reached \in BOOLEAN : PostRange(c, reached)
    \/ /\ job[c].chunks # <<>>
       /\ \E says \in [DOMAIN Attempted(c) -> Answers(c)] : PostAnswered(c, says)

Next ==
    \/ \E c \in Caller : Step(c) \/ CloseLane(c)
    \/ CloseRegistry
    \/ CloseDrained

\* Threads run, every request ends by its timeout, and a close() that began
\* goes on.
Fairness ==
    /\ \A c \in Caller : WF_vars(Step(c))
    /\ WF_vars(closer = "lane" /\ CloseRegistry)
    /\ WF_vars(CloseDrained)

Spec == Init /\ [][Next]_vars

FairSpec == Spec /\ Fairness

-----------------------------------------------------------------------------
Posting == { c \in Caller : pc[c] = "posting" }

JobOK(c) ==
    LET j == job[c] IN
    /\ j.pending \in Seq(Item(c))
    /\ j.nulls \in Seq(Item(c))
    /\ \A k \in DOMAIN j.chunks :
          j.chunks[k].items \in Seq(Item(c)) \ {<<>>} /\ j.chunks[k].split \in BOOLEAN
    /\ Range(j.plan) \subseteq Source
    /\ j.source \in Source \cup {Explorer}
    /\ j.purpose \in {None, "verify", "range", "ask", "explore"}
    /\ j.out \in [Item(c) -> {"null", "result", "error", "deferred"}]
    /\ j.failed \cup j.missing \subseteq Item(c)

TypeOK ==
    /\ pc \in [Caller -> {"called", "next", "chunk", "acquire", "posting",
                          "done", "raised"}]
    /\ \A c \in Caller : JobOK(c)
    /\ verified \subseteq Source
    /\ verifier \in [Source -> Caller \cup {None}]
    /\ active \in Nat
    /\ laneClosed \subseteq Caller
    /\ closer \in {"open", "lane", "draining", "closed"}
    /\ dozing \in BOOLEAN

(***************************************************************************)
(* None in the output says that the transaction does not exist, and None   *)
(* is also what an entry holds before anything is known.  When a batch     *)
(* returns None, some source said null, and every source that was asked    *)
(* answered: no item is lost between the chunks, the split and the         *)
(* failovers.                                                              *)
(***************************************************************************)
NullIsKnown ==
    \A c \in Caller : pc[c] = "done" =>
        \A i \in Item(c) : job[c].out[i] = "null" =>
            i \in job[c].missing \ job[c].failed

(***************************************************************************)
(* Only sources that proved to be on this chain are used, and one thread   *)
(* at a time asks a source for its chain.                                  *)
(***************************************************************************)
ChainVerified ==
    /\ \A c \in Posting : job[c].purpose \in {"range", "ask"} =>
                             job[c].source \in verified \ Foreign
    /\ \A c, d \in Posting : job[c].purpose = "verify" /\ job[d].purpose = "verify"
                             /\ job[c].source = job[d].source => c = d

(***************************************************************************)
(* "Shutdown waits for admitted requests before closing pooled sessions":  *)
(* once the sessions are closed no request is in flight and none starts.   *)
(***************************************************************************)
SessionsOutliveRequests ==
    /\ active = Cardinality(Posting)
    /\ closer = "closed" => Posting = {}

(***************************************************************************)
(* Every call and batch returns, whatever its sources, the verification    *)
(* locks and a concurrent close() do.                                      *)
(***************************************************************************)
EveryBatchReturns ==
    \A c \in Caller : (pc[c] # "called") ~> (pc[c] \in {"done", "raised"})

(***************************************************************************)
(* close() returns: the request that ends last wakes it.                   *)
(***************************************************************************)
CloseReturns == (closer # "open") ~> (closer = "closed")
=============================================================================
