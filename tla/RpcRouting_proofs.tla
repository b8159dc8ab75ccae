------------------------ MODULE RpcRouting_proofs ---------------------------
(***************************************************************************)
(* Safety of the routed calls: a source is used only after it proved its   *)
(* chain, the sessions outlive the requests, and no item of a batch is     *)
(* lost.  The first two follow from what a caller's place and purpose say  *)
(* of the locks it holds, the last from where the items without a result   *)
(* are.                                                                    *)
(***************************************************************************)
EXTENDS RpcRouting, FiniteSetTheorems, SequenceTheorems, WellFoundedInduction, TLAPS

Places == {"called", "next", "chunk", "acquire", "posting", "done", "raised"}
Fields == {"plan", "source", "purpose", "pending", "chunks", "nulls", "out", "failed", "missing"}

\* The types that the safety of the routing rests on.
RouteTypeOK ==
    /\ pc \in [Caller -> Places]
    /\ DOMAIN job = Caller
    /\ \A c \in Caller : DOMAIN job[c] = Fields /\ job[c].plan \in Seq(Source)
    /\ verifier \in [Source -> Caller \cup {None}]
    /\ verified \subseteq Source \ Foreign

\* A request that waits for its session, or is out, is a chain check of a
\* source whose verification lock its caller holds, an explorer call, or goes
\* to a source that proved its chain.
Directed(c) ==
    /\ pc[c] = "chunk" => job[c].source \in Source
    /\ pc[c] \in {"acquire", "posting"} =>
         \/ job[c].purpose = "explore"
         \/ job[c].purpose = "verify" /\ job[c].source \in Source /\ verifier[job[c].source] = c
         \/ job[c].purpose \in {"range", "ask"} /\ job[c].source \in verified

RouteInv == RouteTypeOK /\ \A c \in Caller : Directed(c)

LEMMA SourcesTyped == \A p \in Capabilities : Sources[p] \in Seq(Source)
<1> SUFFICES ASSUME NEW p \in Capabilities PROVE Sources[p] \in Seq(Source)
    OBVIOUS
<1>1. Sources[p] \in Seq(Range(Sources[p])) /\ Range(Sources[p]) \subseteq Source
    BY RoutingAssumption DEF Source
<1> QED
    BY <1>1, SeqMonotonic

LEMMA RouteInitInv == Init => RouteInv
<1> SUFFICES ASSUME Init PROVE RouteInv
    OBVIOUS
<1>1. \A c \in Caller : DOMAIN job[c] = Fields /\ job[c].plan = <<>>
    BY DEF Init, FreshJob, Fields
<1>2. <<>> \in Seq(Source)
    BY EmptySeq
<1>3. RouteTypeOK
    BY <1>1, <1>2 DEF Init, RouteTypeOK, Places
<1>4. \A c \in Caller : Directed(c)
    BY DEF Init, Directed
<1> QED
    BY <1>3, <1>4 DEF RouteInv

\* Another caller's step that gives up no lock and un-verifies no source.
LEMMA OthersDirected ==
    ASSUME RouteInv, NEW c \in Caller,
           \A d \in Caller \ {c} : pc'[d] = pc[d] /\ job'[d] = job[d],
           verified \subseteq verified',
           \A s \in Source : verifier[s] \in Caller \ {c} => verifier'[s] = verifier[s]
    PROVE  \A d \in Caller \ {c} : Directed(d)'
BY DEF RouteInv, RouteTypeOK, Directed

\* A caller is done with its request: it looks for the next source.
LEMMA FailedRequestInv ==
    ASSUME RouteInv, NEW c \in Caller, FailedRequest(c), UNCHANGED verified
    PROVE  RouteInv'
<1> USE DEF RouteInv
<1>1. /\ pc' = [pc EXCEPT ![c] = "next"]
      /\ \A d \in Caller \ {c} : pc'[d] = pc[d] /\ job'[d] = job[d]
    BY DEF FailedRequest, Goto, RouteTypeOK
<1>2. DOMAIN job' = Caller /\ DOMAIN job'[c] = Fields /\ job'[c].plan = job[c].plan
    BY DEF FailedRequest, RouteTypeOK, Fields
<1>3. /\ verifier' \in [Source -> Caller \cup {None}]
      /\ \A s \in Source : verifier[s] \in Caller \ {c} => verifier'[s] = verifier[s]
    BY DEF FailedRequest, RouteTypeOK
<1>4. RouteTypeOK'
    BY <1>1, <1>2, <1>3 DEF RouteTypeOK, Places
<1>5. Directed(c)'
    BY <1>1 DEF Directed, RouteTypeOK
<1>6. \A d \in Caller \ {c} : Directed(d)'
    BY <1>1, <1>3, OthersDirected
<1> QED
    BY <1>4, <1>5, <1>6

\* A step of c that leaves the locks and the verified sources alone and ends
\* where no request is under way.
LEMMA LocalStepInv ==
    ASSUME RouteInv, NEW c \in Caller, NEW label \in Places \ {"acquire", "posting"},
           Goto(c, label) \/ (label = pc[c] /\ UNCHANGED pc),
           DOMAIN job' = Caller, DOMAIN job'[c] = Fields, job'[c].plan \in Seq(Source),
           label = "chunk" => job'[c].source \in Source,
           \A d \in Caller \ {c} : job'[d] = job[d],
           UNCHANGED <<verified, verifier>>
    PROVE  RouteInv'
<1> USE DEF RouteInv
<1>1. pc' = [pc EXCEPT ![c] = label]
    BY DEF Goto, RouteTypeOK
<1>2. RouteTypeOK'
    BY <1>1 DEF RouteTypeOK
<1>3. Directed(c)'
    BY <1>1 DEF Directed, RouteTypeOK
<1>4. \A d \in Caller \ {c} : Directed(d)'
    BY <1>1, OthersDirected DEF RouteTypeOK
<1> QED
    BY <1>2, <1>3, <1>4

\* A step of c that issues a request, or goes on with one.
LEMMA RequestInv ==
    ASSUME RouteInv, NEW c \in Caller, NEW label \in {"acquire", "posting"},
           Goto(c, label),
           DOMAIN job' = Caller, DOMAIN job'[c] = Fields, job'[c].plan \in Seq(Source),
           \A d \in Caller \ {c} : job'[d] = job[d],
           \/ job'[c].purpose = "explore"
           \/ job'[c].purpose = "verify" /\ job'[c].source \in Source /\ verifier'[job'[c].source] = c
           \/ job'[c].purpose \in {"range", "ask"} /\ job'[c].source \in verified,
           verifier' \in [Source -> Caller \cup {None}],
           \A s \in Source : verifier[s] \in Caller \ {c} => verifier'[s] = verifier[s],
           UNCHANGED verified
    PROVE  RouteInv'
<1> USE DEF RouteInv
<1>1. pc' = [pc EXCEPT ![c] = label]
    BY DEF Goto
<1>2. RouteTypeOK'
    BY <1>1 DEF RouteTypeOK, Places
<1>3. Directed(c)'
    BY <1>1 DEF Directed, RouteTypeOK
<1>4. \A d \in Caller \ {c} : Directed(d)'
    BY <1>1, OthersDirected DEF RouteTypeOK
<1> QED
    BY <1>2, <1>3, <1>4

LEMMA ReserveInv ==
    ASSUME RouteInv, NEW c \in Caller, NEW purpose \in {"range", "ask"},
           Reserve(c, purpose), job[c].source \in verified,
           c \in laneClosed \/ UNCHANGED verifier, UNCHANGED verified
    PROVE  RouteInv'
<1>1. CASE c \in laneClosed
    BY <1>1, FailedRequestInv DEF Reserve
<1>2. CASE c \notin laneClosed
  <2>1. job' = [job EXCEPT ![c].purpose = purpose] /\ Goto(c, "acquire") /\ UNCHANGED verifier
      BY <1>2 DEF Reserve
  <2>2. /\ DOMAIN job' = Caller /\ DOMAIN job'[c] = Fields
        /\ \A d \in Caller \ {c} : job'[d] = job[d]
        /\ job'[c].plan = job[c].plan /\ job'[c].source = job[c].source
        /\ job'[c].purpose = purpose
      BY <2>1 DEF RouteInv, RouteTypeOK, Fields
  <2> QED
      BY <2>1, <2>2, RequestInv DEF RouteInv, RouteTypeOK
<1> QED
    BY <1>1, <1>2

LEMMA ExplorerSaysInv ==
    ASSUME RouteInv, NEW c \in Caller, NEW ok \in BOOLEAN, ExplorerSays(c, ok), UNCHANGED verified
    PROVE  RouteInv'
<1>1. /\ DOMAIN job' = Caller /\ DOMAIN job'[c] = Fields /\ job'[c].plan = <<>>
      /\ \A d \in Caller \ {c} : job'[d] = job[d]
    BY DEF ExplorerSays, Settled, RouteInv, RouteTypeOK, Fields
<1>2. <<>> \in Seq(Source)
    BY EmptySeq
<1>3. Goto(c, "done") /\ UNCHANGED <<verified, verifier>>
    BY DEF ExplorerSays
<1>4. "done" \in Places \ {"acquire", "posting"}
    BY DEF Places
<1>5. job'[c].plan \in Seq(Source)
    BY <1>1, <1>2
<1> HIDE DEF RouteInv
<1> QED
    BY <1>1, <1>3, <1>4, <1>5, LocalStepInv

LEMMA StepRouteInv ==
    ASSUME RouteInv, NEW c \in Caller, Step(c)
    PROVE  RouteInv'
<1> USE DEF RouteInv
<1>1. CASE Begin(c)
  <2>1. Sources[Capability(c)] \in Seq(Source)
      BY SourcesTyped DEF Capability, Capabilities
  <2>2. /\ DOMAIN job' = Caller /\ DOMAIN job'[c] = Fields
        /\ \A d \in Caller \ {c} : job'[d] = job[d]
        /\ job'[c].plan \in Seq(Source)
      BY <1>1, <2>1 DEF Begin, RouteTypeOK, Fields
  <2>3. \E label \in {"raised", "next"} : Goto(c, label)
      BY <1>1 DEF Begin
  <2> QED
      BY <1>1, <2>2, <2>3, LocalStepInv DEF Begin, Places
<1>2. CASE PassOver(c)
  <2>1. Tail(job[c].plan) \in Seq(Source)
      BY <1>2, HeadTailProperties DEF PassOver, RouteTypeOK
  <2>2. /\ DOMAIN job' = Caller /\ DOMAIN job'[c] = Fields
        /\ \A d \in Caller \ {c} : job'[d] = job[d]
        /\ job'[c].plan \in Seq(Source)
      BY <1>2, <2>1 DEF PassOver, RouteTypeOK, Fields
  <2> QED
      BY <1>2, <2>2, LocalStepInv DEF PassOver, Places
<1>3. CASE NextSource(c)
  <2>1. Tail(job[c].plan) \in Seq(Source) /\ Head(job[c].plan) \in Source
      BY <1>3, HeadTailProperties DEF NextSource, RouteTypeOK
  <2>2. /\ DOMAIN job' = Caller /\ DOMAIN job'[c] = Fields
        /\ \A d \in Caller \ {c} : job'[d] = job[d]
        /\ job'[c].plan = Tail(job[c].plan) /\ job'[c].source = Head(job[c].plan)
      BY <1>3 DEF NextSource, RouteTypeOK, Fields
  <2>3. Goto(c, "chunk") /\ UNCHANGED <<verified, verifier>>
      BY <1>3 DEF NextSource
  <2>4. "chunk" \in Places \ {"acquire", "posting"}
      BY DEF Places
  <2>5. job'[c].plan \in Seq(Source) /\ job'[c].source \in Source
      BY <2>1, <2>2
  <2> HIDE DEF RouteInv
  <2> QED
      BY <2>2, <2>3, <2>4, <2>5, LocalStepInv
<1>4. CASE AskExplorer(c)
  <2>1. /\ DOMAIN job' = Caller /\ DOMAIN job'[c] = Fields
        /\ \A d \in Caller \ {c} : job'[d] = job[d]
        /\ job'[c].plan = job[c].plan /\ job'[c].purpose = "explore"
      BY <1>4 DEF AskExplorer, RouteTypeOK, Fields
  <2> QED
      BY <1>4, <2>1, RequestInv DEF AskExplorer, RouteTypeOK
<1>5. CASE Conclude(c)
  <2>1. /\ DOMAIN job' = Caller /\ DOMAIN job'[c] = Fields /\ job'[c].plan = <<>>
        /\ \A d \in Caller \ {c} : job'[d] = job[d]
      BY <1>5 DEF Conclude, Settled, RouteTypeOK, Fields
  <2>2. <<>> \in Seq(Source)
      BY EmptySeq
  <2>3. Goto(c, "done") /\ UNCHANGED <<verified, verifier>>
      BY <1>5 DEF Conclude
  <2>4. "done" \in Places \ {"acquire", "posting"}
      BY DEF Places
  <2>5. job'[c].plan \in Seq(Source)
      BY <2>1, <2>2
  <2> HIDE DEF RouteInv
  <2> QED
      BY <2>1, <2>3, <2>4, <2>5, LocalStepInv
<1>6. CASE UseSource(c)
    BY <1>6, ReserveInv DEF UseSource
<1>7. CASE Verify(c)
  <2>1. job[c].source \in Source
      BY <1>7 DEF Verify, Directed
  <2>2. CASE c \in laneClosed
      BY <1>7, <2>2, FailedRequestInv DEF Verify, Reserve
  <2>3. CASE c \notin laneClosed
    <3>1. /\ job' = [job EXCEPT ![c].purpose = "verify"] /\ Goto(c, "acquire")
          /\ verifier' = [verifier EXCEPT ![job[c].source] = c] /\ verifier[job[c].source] = None
          /\ UNCHANGED verified
        BY <1>7, <2>3 DEF Verify, Reserve
    <3>2. /\ DOMAIN job' = Caller /\ DOMAIN job'[c] = Fields
          /\ \A d \in Caller \ {c} : job'[d] = job[d]
          /\ job'[c].plan = job[c].plan /\ job'[c].source = job[c].source
          /\ job'[c].purpose = "verify"
        BY <3>1 DEF RouteTypeOK, Fields
    <3>3. /\ verifier' \in [Source -> Caller \cup {None}] /\ verifier'[job[c].source] = c
          /\ \A s \in Source : verifier[s] \in Caller \ {c} => verifier'[s] = verifier[s]
        BY <2>1, <3>1, RoutingAssumption DEF RouteTypeOK
    <3> QED
        BY <2>1, <3>1, <3>2, <3>3, RequestInv DEF RouteTypeOK
  <2> QED
      BY <2>2, <2>3
<1>8. CASE Acquire(c)
    BY <1>8, RequestInv DEF Acquire, RouteTypeOK, Directed
<1>9. CASE AcquireRefused(c)
    BY <1>9, ExplorerSaysInv, FailedRequestInv DEF AcquireRefused
<1>10. CASE PostFails(c)
    BY <1>10, ExplorerSaysInv, FailedRequestInv DEF PostFails
<1>11. CASE PostExplored(c)
    BY <1>11, ExplorerSaysInv DEF PostExplored
<1>12. CASE PostVerified(c)
  <2>1. job[c].source \in Source /\ verifier[job[c].source] = c
      BY <1>12 DEF PostVerified, Directed
  <2>2. CASE job[c].source \in Foreign
      BY <1>12, <2>2, FailedRequestInv DEF PostVerified
  <2>3. CASE job[c].source \notin Foreign
    <3>1. /\ verified' = verified \cup {job[c].source}
          /\ verifier' = [verifier EXCEPT ![job[c].source] = None]
          /\ pc' = [pc EXCEPT ![c] = "chunk"] /\ job' = [job EXCEPT ![c].purpose = None]
        BY <1>12, <2>3 DEF PostVerified, Goto
    <3>2. /\ DOMAIN job' = Caller /\ DOMAIN job'[c] = Fields
          /\ \A d \in Caller \ {c} : job'[d] = job[d]
          /\ job'[c].plan = job[c].plan /\ job'[c].source = job[c].source
        BY <3>1 DEF RouteTypeOK, Fields
    <3>3. /\ verifier' \in [Source -> Caller \cup {None}]
          /\ \A s \in Source : verifier[s] \in Caller \ {c} => verifier'[s] = verifier[s]
        BY <2>1, <3>1 DEF RouteTypeOK
    <3>4. RouteTypeOK'
        BY <2>1, <2>3, <3>1, <3>2, <3>3 DEF RouteTypeOK, Places
    <3>5. Directed(c)'
        BY <2>1, <3>1, <3>2 DEF Directed, RouteTypeOK
    <3>6. \A d \in Caller \ {c} : Directed(d)'
        BY <3>1, <3>2, <3>3, OthersDirected DEF RouteTypeOK
    <3> QED
        BY <3>4, <3>5, <3>6
  <2> QED
      BY <2>2, <2>3
<1>13. ASSUME NEW reached \in BOOLEAN, PostRange(c, reached)
       PROVE  RouteInv'
  <2>1. job[c].source \in verified
      BY <1>13 DEF PostRange, Directed
  <2>2. CASE reached
      BY <1>13, <2>1, <2>2, ReserveInv DEF PostRange
  <2>3. CASE ~reached
    <3>1. /\ DOMAIN job' = Caller /\ DOMAIN job'[c] = Fields /\ job'[c].plan = job[c].plan
          /\ \A d \in Caller \ {c} : job'[d] = job[d]
        BY <1>13, <2>3 DEF PostRange, RouteTypeOK, Fields
    <3> QED
        BY <1>13, <2>3, <3>1, LocalStepInv DEF PostRange, Places, RouteTypeOK
  <2> QED
      BY <2>2, <2>3
<1>14. ASSUME NEW says, PostAnswered(c, says)
       PROVE  RouteInv'
  <2>1. job[c].source \in Source
      BY <1>14 DEF PostAnswered, Directed, RouteTypeOK
  <2>2. /\ DOMAIN Noted(c, says) = Fields
        /\ Noted(c, says).plan = job[c].plan /\ Noted(c, says).source = job[c].source
      BY DEF Noted, RouteTypeOK, Fields
  <2>3. /\ DOMAIN job' = Caller /\ DOMAIN job'[c] = Fields /\ job'[c].plan = job[c].plan
        /\ \A d \in Caller \ {c} : job'[d] = job[d]
        /\ job'[c].source = job[c].source
      BY <1>14, <2>2 DEF PostAnswered, RouteTypeOK, Fields
  <2>4. \E label \in {"next", "chunk"} : Goto(c, label)
      BY <1>14 DEF PostAnswered
  <2> QED
      BY <1>14, <2>1, <2>3, <2>4, LocalStepInv DEF PostAnswered, Places, RouteTypeOK
<1> QED
    BY <1>1, <1>2, <1>3, <1>4, <1>5, <1>6, <1>7, <1>8, <1>9, <1>10, <1>11, <1>12, <1>13, <1>14
    DEF Step

LEMMA RouteNextInv == RouteInv /\ [Next]_vars => RouteInv'
<1> SUFFICES ASSUME RouteInv, [Next]_vars PROVE RouteInv'
    OBVIOUS
<1>1. ASSUME NEW c \in Caller, Step(c) PROVE RouteInv'
    BY <1>1, StepRouteInv
<1>2. CASE UNCHANGED <<pc, job, verified, verifier>>
    BY <1>2 DEF RouteInv, RouteTypeOK, Directed
<1>3. ASSUME NEW c \in Caller, CloseLane(c) PROVE RouteInv'
    BY <1>2, <1>3 DEF CloseLane
<1>4. CASE CloseRegistry
    BY <1>2, <1>4 DEF CloseRegistry
<1>5. CASE CloseDrained
    BY <1>2, <1>5 DEF CloseDrained
<1>6. CASE UNCHANGED vars
    BY <1>2, <1>6 DEF vars
<1> QED
    BY <1>1, <1>3, <1>4, <1>5, <1>6 DEF Next

\* _ensure_chain and _run_batch: RoutedRpc asks a source for data only after that source proved to serve
\* this chain, and one thread at a time asks it for its chain.
THEOREM RpcChainVerified == Spec => []ChainVerified
<1>1. RouteInv => ChainVerified
    BY DEF RouteInv, RouteTypeOK, Directed, ChainVerified, Posting
<1> QED
    BY <1>1, RouteInitInv, RouteNextInv, PTL DEF Spec

-----------------------------------------------------------------------------
\* The sessions: active counts the callers that are between _acquire_session
\* and _release_session, and none of them is once the registry is closed.
SessionInv ==
    /\ active = Cardinality(Posting)
    /\ closer = "closed" => active = 0

\* What a caller's step does to its session.
Takes(c) ==
    /\ pc[c] # "posting" /\ pc' = [pc EXCEPT ![c] = "posting"]
    /\ active' = active + 1 /\ UNCHANGED closer /\ closer # "closed"
GivesBack(c) ==
    /\ pc[c] = "posting" /\ \E l \in Places \ {"posting"} : pc' = [pc EXCEPT ![c] = l]
    /\ active' = active - 1 /\ UNCHANGED closer
Apart(c) ==
    /\ pc[c] # "posting" /\ \E l \in Places \ {"posting"} : pc' = [pc EXCEPT ![c] = l]
    /\ UNCHANGED <<active, closer>>

LEMMA StepSession ==
    ASSUME RouteTypeOK, NEW c \in Caller, Step(c)
    PROVE  Takes(c) \/ GivesBack(c) \/ Apart(c)
<1> USE DEF Places, Goto
<1>1. CASE Begin(c) \/ NextSource(c) \/ AskExplorer(c) \/ Conclude(c)
    BY <1>1 DEF Apart, Begin, NextSource, AskExplorer, Conclude
<1>2. CASE PassOver(c)
  <2>1. pc' = [pc EXCEPT ![c] = "next"]
      BY <1>2 DEF PassOver, RouteTypeOK
  <2> QED
      BY <1>2, <2>1 DEF Apart, PassOver
<1>3. CASE UseSource(c) \/ Verify(c)
    BY <1>3 DEF Apart, UseSource, Verify, Reserve, FailedRequest
<1>4. CASE Acquire(c)
    BY <1>4 DEF Takes, Acquire
<1>5. CASE AcquireRefused(c)
    BY <1>5 DEF Apart, AcquireRefused, ExplorerSays, FailedRequest
<1>6. CASE PostFails(c)
    BY <1>6 DEF GivesBack, Release, PostFails, ExplorerSays, FailedRequest
<1>7. CASE PostExplored(c)
    BY <1>7 DEF GivesBack, Release, PostExplored, ExplorerSays
<1>8. CASE PostVerified(c)
    BY <1>8 DEF GivesBack, Release, PostVerified, FailedRequest
<1>9. ASSUME NEW reached \in BOOLEAN, PostRange(c, reached)
      PROVE  GivesBack(c)
    BY <1>9 DEF GivesBack, Release, PostRange, Reserve, FailedRequest
<1>10. ASSUME NEW says, PostAnswered(c, says)
       PROVE  GivesBack(c)
  <2>1. \E label \in {"next", "chunk"} : Goto(c, label)
      BY <1>10 DEF PostAnswered
  <2>2. pc[c] = "posting" /\ Release /\ UNCHANGED closer
      BY <1>10 DEF PostAnswered
  <2> QED
      BY <2>1, <2>2 DEF GivesBack, Release
<1> QED
    BY <1>1, <1>2, <1>3, <1>4, <1>5, <1>6, <1>7, <1>8, <1>9, <1>10 DEF Step

LEMMA PostingFinite == IsFiniteSet(Posting) /\ Cardinality(Posting) \in Nat
<1>1. IsFiniteSet(Posting)
    BY RoutingAssumption, FS_Subset DEF Posting
<1> QED
    BY <1>1, FS_CardinalityType

LEMMA SessionNextInv == RouteInv /\ SessionInv /\ [Next]_vars => SessionInv'
<1> SUFFICES ASSUME RouteInv, SessionInv, [Next]_vars PROVE SessionInv'
    OBVIOUS
<1> USE DEF RouteInv, SessionInv
<1>1. pc \in [Caller -> Places] /\ RouteTypeOK
    BY DEF RouteTypeOK
<1>2. ASSUME NEW c \in Caller, Step(c) PROVE SessionInv'
  <2>1. CASE Takes(c)
    <3>1. Posting' = Posting \cup {c} /\ c \notin Posting
        BY <1>1, <2>1 DEF Takes, Posting
    <3>2. Cardinality(Posting') = Cardinality(Posting) + 1
        BY <3>1, PostingFinite, FS_AddElement
    <3> QED
        BY <2>1, <3>2 DEF Takes
  <2>2. CASE GivesBack(c)
    <3>1. Posting' = Posting \ {c} /\ c \in Posting
        BY <1>1, <2>2 DEF GivesBack, Posting, Places
    <3>2. Cardinality(Posting') = Cardinality(Posting) - 1
        BY <3>1, PostingFinite, FS_RemoveElement
    <3>3. Cardinality(Posting) # 0
        BY <3>1, PostingFinite, FS_EmptySet
    <3> QED
        BY <2>2, <3>2, <3>3 DEF GivesBack
  <2>3. CASE Apart(c)
    <3>1. Posting' = Posting
        BY <1>1, <2>3 DEF Apart, Posting
    <3> QED
        BY <2>3, <3>1 DEF Apart
  <2> QED
      BY <1>1, <1>2, <2>1, <2>2, <2>3, StepSession
<1>3. CASE UNCHANGED <<pc, active>> /\ (closer' = "closed" => closer = "closed" \/ active = 0)
  <2>1. Posting' = Posting
      BY <1>3 DEF Posting
  <2> QED
      BY <1>3, <2>1
<1>4. ASSUME NEW c \in Caller, CloseLane(c) PROVE SessionInv'
    BY <1>3, <1>4 DEF CloseLane
<1>5. CASE CloseRegistry
    BY <1>3, <1>5 DEF CloseRegistry
<1>6. CASE CloseDrained
    BY <1>3, <1>6 DEF CloseDrained
<1>7. CASE UNCHANGED vars
    BY <1>3, <1>7 DEF vars
<1> QED
    BY <1>2, <1>4, <1>5, <1>6, <1>7 DEF Next

\* _Registry.close waits for the admitted requests before it closes the pooled
\* sessions: once it has, no request is in flight.
THEOREM RpcSessionsOutlive == Spec => []SessionsOutliveRequests
<1>1. Init => SessionInv
  <2> SUFFICES ASSUME Init PROVE SessionInv
      OBVIOUS
  <2>1. Posting = {}
      BY DEF Init, Posting
  <2> QED
      BY <2>1, FS_EmptySet DEF Init, SessionInv
<1>2. SessionInv => SessionsOutliveRequests
    BY PostingFinite, FS_EmptySet DEF SessionInv, SessionsOutliveRequests
<1> QED
    BY <1>1, <1>2, RouteInitInv, RouteNextInv, SessionNextInv, PTL DEF Spec

-----------------------------------------------------------------------------
(* Sequences of items: flattened, cut, halved and picked from.             *)

\* A set of numbers has a least one.
LEMMA LeastNumber ==
    ASSUME NEW S \in SUBSET Nat, S # {}
    PROVE  \E n \in S : \A m \in S : n <= m
<1> DEFINE below == {0..k : k \in S}
           R == StrictSubsetOrdering(Nat)
<1>1. \A k \in S : 0..k \in FiniteSubsetsOf(Nat)
    BY FS_Interval DEF FiniteSubsetsOf
<1>2. below \subseteq FiniteSubsetsOf(Nat) /\ below # {}
    BY <1>1
<1>3. IsWellFoundedOn(R, FiniteSubsetsOf(Nat))
    BY FS_StrictSubsetOrderingWellFounded
<1> HIDE DEF below, R
<1>4. PICK x \in below : \A y \in below : <<y, x>> \notin R
    BY <1>2, <1>3, WFMin
<1>5. PICK k \in S : x = 0..k
    BY <1>4 DEF below
<1>6. ASSUME NEW m \in S, m < k PROVE FALSE
  <2>1. 0..m \in below /\ 0..m \subseteq 0..k /\ 0..m # 0..k
      BY <1>6 DEF below
  <2>2. 0..m \in SUBSET Nat /\ 0..k \in SUBSET Nat
      OBVIOUS
  <2>3. <<0..m, 0..k>> \in R
      BY <2>1, <2>2 DEF R, StrictSubsetOrdering
  <2> QED
      BY <1>4, <1>5, <2>1, <2>3
<1> QED
    BY <1>6

\* A set of numbers with 0 and every successor has all of them.
LEMMA NumberInduction ==
    ASSUME NEW good \in SUBSET Nat, 0 \in good, \A n \in good : n + 1 \in good
    PROVE  good = Nat
<1>1. SUFFICES ASSUME Nat \ good # {} PROVE FALSE
    OBVIOUS
<1>2. PICK n \in Nat \ good : \A m \in Nat \ good : n <= m
    BY <1>1, LeastNumber
<1>3. n - 1 \in good
    BY <1>2
<1> QED
    BY <1>2, <1>3

LEMMA RangeOfConcat ==
    ASSUME NEW I, NEW s \in Seq(I), NEW t \in Seq(I)
    PROVE  s \o t \in Seq(I) /\ Range(s \o t) = Range(s) \cup Range(t)
<1>1. /\ s \o t \in Seq(I) /\ Len(s \o t) = Len(s) + Len(t)
      /\ \A i \in 1..Len(s) : (s \o t)[i] = s[i]
      /\ \A i \in 1..Len(t) : (s \o t)[Len(s) + i] = t[i]
      /\ \A i \in 1..Len(s \o t) : (s \o t)[i] = IF i <= Len(s) THEN s[i] ELSE t[i - Len(s)]
    BY ConcatProperties
<1>2. DOMAIN s = 1..Len(s) /\ DOMAIN t = 1..Len(t) /\ DOMAIN (s \o t) = 1..Len(s \o t)
      /\ Len(s) \in Nat /\ Len(t) \in Nat
    BY <1>1, LenProperties
<1>3. Range(s \o t) \subseteq Range(s) \cup Range(t)
    BY <1>1, <1>2 DEF Range
<1>4. Range(s) \subseteq Range(s \o t)
    BY <1>1, <1>2 DEF Range
<1>5. \A i \in 1..Len(t) : Len(s) + i \in DOMAIN (s \o t)
    BY <1>1, <1>2
<1>6. \A i \in DOMAIN t : t[i] = (s \o t)[Len(s) + i] /\ Len(s) + i \in DOMAIN (s \o t)
    BY <1>1, <1>2, <1>5
<1>7. Range(t) \subseteq Range(s \o t)
    BY <1>6, Zenon DEF Range
<1> QED
    BY <1>1, <1>3, <1>4, <1>7

\* What FlattenSeq computes, one sequence after the other.
Joined(s, n, f) == f = [i \in 1..n |-> IF i = 1 THEN s[i] ELSE f[i - 1] \o s[i]]

LEMMA JoinedExists ==
    ASSUME NEW s, NEW n \in Nat
    PROVE  \E f : Joined(s, n, f)
<1> DEFINE good == {m \in Nat : \E f : Joined(s, m, f)}
<1>1. 0 \in good
  <2>1. Joined(s, 0, [i \in 1..0 |-> 0])
      BY DEF Joined
  <2> QED
      BY <2>1
<1>2. ASSUME NEW m \in good PROVE m + 1 \in good
  <2>1. PICK f : Joined(s, m, f)
      BY <1>2
  <2> DEFINE g == [i \in 1..(m + 1) |-> IF i <= m THEN f[i]
                                        ELSE IF i = 1 THEN s[i] ELSE f[i - 1] \o s[i]]
  <2>2. \A i \in 1..m : f[i] = IF i = 1 THEN s[i] ELSE f[i - 1] \o s[i]
      BY <2>1 DEF Joined
  <2>3. \A i \in 1..(m + 1) : g[i] = IF i = 1 THEN s[i] ELSE f[i - 1] \o s[i]
      BY <2>2
  <2>4. \A i \in 1..(m + 1) : i # 1 => g[i - 1] = f[i - 1]
      OBVIOUS
  <2>5. g = [i \in 1..(m + 1) |-> g[i]]
      OBVIOUS
  <2> HIDE DEF g
  <2>6. Joined(s, m + 1, g)
      BY <2>3, <2>4, <2>5 DEF Joined
  <2> QED
      BY <2>6
<1> HIDE DEF good
<1>3. good \in SUBSET Nat
    BY DEF good
<1>4. good = Nat
    BY <1>1, <1>2, <1>3, NumberInduction
<1> QED
    BY <1>4 DEF good

LEMMA FlattenIsJoined ==
    ASSUME NEW s, Len(s) # 0
    PROVE  FlattenSeq(s) = (CHOOSE f : Joined(s, Len(s), f))[Len(s)]
BY DEF FlattenSeq, Joined

\* FlattenSeq of a sequence of sequences loses none of their members.
LEMMA FlattenKeeps ==
    ASSUME NEW I, NEW s \in Seq(Seq(I))
    PROVE  /\ FlattenSeq(s) \in Seq(I)
           /\ Range(FlattenSeq(s)) = UNION {Range(s[k]) : k \in DOMAIN s}
<1>1. Len(s) \in Nat /\ DOMAIN s = 1..Len(s) /\ \A k \in 1..Len(s) : s[k] \in Seq(I)
    BY LenProperties, ElementOfSeq
<1>2. CASE Len(s) = 0
  <2>1. s = <<>>
      BY <1>2, EmptySeq
  <2>2. FlattenSeq(s) = s
      BY <1>2 DEF FlattenSeq
  <2>3. DOMAIN s = {} /\ <<>> \in Seq(I)
      BY <1>1, <1>2
  <2>4. Range(s) = {} /\ UNION {Range(s[k]) : k \in DOMAIN s} = {}
      BY <2>3 DEF Range
  <2> QED
      BY <2>1, <2>2, <2>3, <2>4
<1>3. CASE Len(s) # 0
  <2> DEFINE f == CHOOSE g : Joined(s, Len(s), g)
  <2>1. Joined(s, Len(s), f)
      BY <1>1, JoinedExists
  <2>2. FlattenSeq(s) = f[Len(s)]
      BY <1>3, FlattenIsJoined
  <2> HIDE DEF f
  <2>3. \A k \in 1..Len(s) : f[k] = IF k = 1 THEN s[k] ELSE f[k - 1] \o s[k]
      BY <2>1 DEF Joined
  <2> DEFINE upTo(n) == UNION {Range(s[k]) : k \in 1..n}
             good == {n \in Nat : n \in 1..Len(s) => f[n] \in Seq(I) /\ Range(f[n]) = upTo(n)}
  <2>4. 0 \in good
      BY <1>1
  <2>5. ASSUME NEW n \in good PROVE n + 1 \in good
    <3>1. CASE n + 1 \notin 1..Len(s)
        BY <3>1
    <3>2. CASE n + 1 \in 1..Len(s) /\ n = 0
      <4>1. f[1] = s[1] /\ 1..1 = {1}
        <5>1. 1 \in 1..Len(s) /\ 1..1 = {1}
            BY <1>1, <1>3
        <5> QED
            BY <2>3, <5>1
      <4>2. upTo(1) = Range(s[1])
          BY <4>1
      <4> QED
          BY <1>1, <3>2, <4>1, <4>2
    <3>3. CASE n + 1 \in 1..Len(s) /\ n # 0
      <4>1. n \in 1..Len(s)
          BY <1>1, <3>3
      <4>2. f[n + 1] = f[n] \o s[n + 1]
        <5>1. n + 1 # 1 /\ (n + 1) - 1 = n
            BY <3>3
        <5> QED
            BY <2>3, <3>3, <5>1
      <4>3. f[n] \in Seq(I) /\ Range(f[n]) = upTo(n) /\ s[n + 1] \in Seq(I)
          BY <1>1, <4>1, <3>3
      <4>4. f[n + 1] \in Seq(I) /\ Range(f[n + 1]) = upTo(n) \cup Range(s[n + 1])
          BY <4>2, <4>3, RangeOfConcat
      <4>5. 1..(n + 1) = (1..n) \cup {n + 1}
          BY <4>1
      <4>6. upTo(n + 1) = upTo(n) \cup Range(s[n + 1])
          BY <4>5
      <4> QED
          BY <4>4, <4>6
    <3> QED
        BY <3>1, <3>2, <3>3
  <2> HIDE DEF good
  <2>6. good \in SUBSET Nat
      BY DEF good
  <2>7. good = Nat
      BY <2>4, <2>5, <2>6, NumberInduction
  <2>8. Len(s) \in good /\ Len(s) \in 1..Len(s)
      BY <1>1, <1>3, <2>7
  <2> QED
      BY <1>1, <2>2, <2>8 DEF good
<1> QED
    BY <1>2, <1>3

-----------------------------------------------------------------------------
Piece(I) == [items : Seq(I), split : BOOLEAN]
Chunked(chunks) == UNION { Range(chunks[k].items) : k \in DOMAIN chunks }

LEMMA ItemsOfKeeps ==
    ASSUME NEW I, NEW chunks \in Seq(Piece(I))
    PROVE  ItemsOf(chunks) \in Seq(I) /\ Range(ItemsOf(chunks)) = Chunked(chunks)
<1> DEFINE s == [k \in DOMAIN chunks |-> chunks[k].items]
<1>1. Len(chunks) \in Nat /\ DOMAIN chunks = 1..Len(chunks)
      /\ \A k \in 1..Len(chunks) : chunks[k] \in Piece(I)
    BY LenProperties, ElementOfSeq
<1>2. \A k \in 1..Len(chunks) : chunks[k].items \in Seq(I)
    BY <1>1 DEF Piece
<1>3. s \in Seq(Seq(I))
    BY <1>1, <1>2
<1>4. DOMAIN s = DOMAIN chunks /\ \A k \in DOMAIN chunks : s[k] = chunks[k].items
    OBVIOUS
<1>5. ItemsOf(chunks) = FlattenSeq(s)
    BY DEF ItemsOf
<1> HIDE DEF s
<1>6. UNION {Range(s[k]) : k \in DOMAIN s} = Chunked(chunks)
    BY <1>4 DEF Chunked
<1> QED
    BY <1>3, <1>5, <1>6, FlattenKeeps

LEMMA ChunkedConcat ==
    ASSUME NEW I, NEW a \in Seq(Piece(I)), NEW b \in Seq(Piece(I))
    PROVE  a \o b \in Seq(Piece(I)) /\ Chunked(a \o b) = Chunked(a) \cup Chunked(b)
<1>1. a \o b \in Seq(Piece(I)) /\ Range(a \o b) = Range(a) \cup Range(b)
    BY RangeOfConcat
<1>2. \A s : Chunked(s) = UNION {Range(piece.items) : piece \in Range(s)}
    BY DEF Chunked, Range
<1> QED
    BY <1>1, <1>2

LEMMA ChunkedTail ==
    ASSUME NEW I, NEW chunks \in Seq(Piece(I)), chunks # <<>>
    PROVE  /\ Head(chunks) \in Piece(I) /\ Tail(chunks) \in Seq(Piece(I))
           /\ Chunked(chunks) = Range(Head(chunks).items) \cup Chunked(Tail(chunks))
<1>1. /\ Head(chunks) \in Piece(I) /\ Tail(chunks) \in Seq(Piece(I))
      /\ chunks = <<Head(chunks)>> \o Tail(chunks)
  <2>1. /\ Head(chunks) = chunks[1] /\ Tail(chunks) \in Seq(Piece(I)) /\ Head(chunks) \in Piece(I)
        /\ Len(Tail(chunks)) = Len(chunks) - 1
        /\ \A i \in 1..Len(Tail(chunks)) : Tail(chunks)[i] = chunks[i + 1]
      BY HeadTailProperties
  <2>2. <<Head(chunks)>> \in Seq(Piece(I)) /\ Len(<<Head(chunks)>>) = 1
      BY <2>1
  <2>3. Len(chunks) \in Nat
      BY LenProperties
  <2> QED
      BY <2>1, <2>2, <2>3, ConcatProperties, SeqEqual
<1> DEFINE first == <<Head(chunks)>>
           others == Tail(chunks)
<1>2. first \in Seq(Piece(I)) /\ DOMAIN first = {1} /\ first[1] = Head(chunks)
    BY <1>1
<1>3. chunks = first \o others /\ others \in Seq(Piece(I))
    BY <1>1
<1> HIDE DEF first, others
<1>4. Chunked(first) = Range(Head(chunks).items)
    BY <1>2 DEF Chunked
<1>5. Chunked(first \o others) = Chunked(first) \cup Chunked(others)
    BY <1>2, <1>3, ChunkedConcat
<1>6. Chunked(chunks) = Range(Head(chunks).items) \cup Chunked(others)
    BY <1>3, <1>4, <1>5
<1> QED
    BY <1>1, <1>6 DEF others

-----------------------------------------------------------------------------
LEMMA PiecesCover ==
    ASSUME NEW I, NEW items \in Seq(I), NEW chunks \in Seq(Piece(I)),
           \A p \in 1..Len(items) : \E k \in DOMAIN chunks : items[p] \in Range(chunks[k].items)
    PROVE  Range(items) \subseteq Chunked(chunks)
<1>1. DOMAIN items = 1..Len(items)
    BY LenProperties
<1>2. \A k \in DOMAIN chunks : Range(chunks[k].items) \subseteq Chunked(chunks)
    BY DEF Chunked
<1>3. \A x \in Range(items) : \E p \in 1..Len(items) : x = items[p]
    BY <1>1 DEF Range
<1> QED
    BY <1>2, <1>3

\* A slice of the items is a sequence of them, and has the positions from..to.
LEMMA SliceHas ==
    ASSUME NEW I, NEW items \in Seq(I), NEW from \in 1..(Len(items) + 1), NEW to \in 0..Len(items)
    PROVE  /\ SubSeq(items, from, to) \in Seq(I)
           /\ \A p \in from..to : items[p] \in Range(SubSeq(items, from, to))
<1> DEFINE slice == SubSeq(items, from, to)
<1>0. Len(items) \in Nat /\ \A p \in 1..Len(items) : items[p] \in I
    BY LenProperties, ElementOfSeq
<1>1. slice \in Seq(I)
    BY <1>0
<1>2. ASSUME NEW p \in from..to PROVE items[p] \in Range(slice)
  <2>1. Len(slice) = to - from + 1 /\ p - from + 1 \in 1..Len(slice) /\ slice[p - from + 1] = items[p]
      BY <1>0, <1>2
  <2>2. DOMAIN slice = 1..Len(slice)
      BY <1>1, LenProperties
  <2> HIDE DEF slice
  <2> QED
      BY <2>1, <2>2 DEF Range
<1> QED
    BY <1>1, <1>2

\* Division by a positive number.
LEMMA Quotient ==
    ASSUME NEW a \in Int, NEW n \in Nat \ {0}
    PROVE  /\ a \div n \in Int
           /\ (a \div n) * n <= a /\ a < (a \div n) * n + n
OBVIOUS

LEMMA QuotientBound ==
    ASSUME NEW a \in Int, NEW n \in Nat \ {0}, NEW q \in Int, q * n <= a
    PROVE  q <= a \div n
OBVIOUS

\* Cut puts each item into a piece.
LEMMA PiecesOfCut ==
    ASSUME NEW I, NEW items \in Seq(I), NEW n \in Nat \ {0}
    PROVE  /\ Cut(items, n) \in Seq(Piece(I))
           /\ Range(items) \subseteq Chunked(Cut(items, n))
<1> DEFINE L == Len(items)
           K == (L + n - 1) \div n
           from(k) == (k - 1) * n + 1
           to(k) == IF k * n < L THEN k * n ELSE L
<1>1. L \in Nat
    BY LenProperties
<1>2. K \in Nat /\ K * n <= L + n - 1
  <2>1. L + n - 1 \in Nat
      BY <1>1
  <2> QED
      BY <2>1, Quotient
<1>3. ASSUME NEW k \in 1..K PROVE from(k) \in 1..(L + 1) /\ to(k) \in 0..L
  <2>1. k * n <= K * n /\ k * n \in Nat
      BY <1>2
  <2>2. (k - 1) * n = k * n - n /\ (k - 1) * n \in Nat
      BY <1>2
  <2> QED
      BY <1>1, <1>2, <2>1, <2>2
<1>4. \A k \in 1..K : /\ SubSeq(items, from(k), to(k)) \in Seq(I)
                      /\ \A p \in from(k)..to(k) : items[p] \in Range(SubSeq(items, from(k), to(k)))
    BY <1>3, SliceHas
<1> DEFINE slice(k) == SubSeq(items, from(k), to(k))
           chunks == Cut(items, n)
<1>5. chunks = [k \in 1..K |-> [items |-> slice(k), split |-> FALSE]]
    BY DEF Cut
<1> HIDE DEF chunks, slice, K
<1>6. DOMAIN chunks = 1..K /\ \A k \in 1..K : chunks[k] = [items |-> slice(k), split |-> FALSE]
    BY <1>5
<1>7. \A k \in 1..K : slice(k) \in Seq(I) /\ \A p \in from(k)..to(k) : items[p] \in Range(slice(k))
    BY <1>4 DEF slice
<1>8. chunks \in Seq(Piece(I))
  <2>1. \A k \in 1..K : [items |-> slice(k), split |-> FALSE] \in Piece(I)
      BY <1>7 DEF Piece
  <2>2. chunks \in [1..K -> Piece(I)]
      BY <1>5, <2>1
  <2> QED
      BY <1>2, <2>2
<1>9. ASSUME NEW p \in 1..L PROVE \E k \in DOMAIN chunks : items[p] \in Range(chunks[k].items)
  <2> DEFINE q == (p - 1) \div n
  <2>1. q \in Int /\ q * n <= p - 1 /\ p - 1 < q * n + n
      BY <1>1, Quotient
  <2>2. q \in Nat
      BY <1>1
  <2> HIDE DEF q
  <2>3. (q + 1) * n = q * n + n /\ q * n \in Nat
      BY <2>2
  <2>4. (q + 1) * n <= L + n - 1
      BY <1>1, <2>1, <2>3
  <2>5. q + 1 <= K
    <3>1. L + n - 1 \in Int /\ q + 1 \in Int
        BY <1>1, <2>2
    <3> QED
        BY <2>4, <3>1, QuotientBound DEF K
  <2>6. q + 1 \in 1..K /\ (q + 1) - 1 = q
      BY <1>2, <2>2, <2>5
  <2>7. p \in from(q + 1)..to(q + 1)
      BY <1>1, <2>1, <2>3, <2>6
  <2> QED
      BY <1>6, <1>7, <2>6, <2>7
<1>10. Range(items) \subseteq Chunked(chunks)
    BY <1>8, <1>9, PiecesCover
<1> QED
    BY <1>8, <1>10 DEF chunks

\* And so does the split in two.
LEMMA PiecesOfHalves ==
    ASSUME NEW I, NEW items \in Seq(I)
    PROVE  /\ Halves(items) \in Seq(Piece(I))
           /\ Range(items) \subseteq Chunked(Halves(items))
<1> DEFINE L == Len(items)
           half == L \div 2
           chunks == Halves(items)
<1>1. L \in Nat
    BY LenProperties
<1>2. half \in 0..L
    BY <1>1
<1>3. /\ SubSeq(items, 1, half) \in Seq(I) /\ SubSeq(items, half + 1, L) \in Seq(I)
      /\ \A p \in 1..half : items[p] \in Range(SubSeq(items, 1, half))
      /\ \A p \in (half + 1)..L : items[p] \in Range(SubSeq(items, half + 1, L))
    BY <1>1, <1>2, SliceHas
<1>4. chunks = << [items |-> SubSeq(items, 1, half), split |-> TRUE],
                  [items |-> SubSeq(items, half + 1, L), split |-> TRUE] >>
    BY DEF Halves
<1>5. /\ DOMAIN chunks = {1, 2}
      /\ chunks[1].items = SubSeq(items, 1, half) /\ chunks[2].items = SubSeq(items, half + 1, L)
    BY <1>4
<1>6. chunks \in Seq(Piece(I))
    BY <1>3, <1>4 DEF Piece
<1> HIDE DEF chunks, half
<1>7. \A p \in 1..L : \E k \in DOMAIN chunks : items[p] \in Range(chunks[k].items)
  <2> SUFFICES ASSUME NEW p \in 1..L PROVE \E k \in DOMAIN chunks : items[p] \in Range(chunks[k].items)
      OBVIOUS
  <2>1. p \in 1..half \/ p \in (half + 1)..L
      BY <1>1, <1>2
  <2> QED
      BY <1>3, <1>5, <2>1
<1>8. Range(items) \subseteq Chunked(chunks)
    BY <1>6, <1>7, PiecesCover
<1> QED
    BY <1>6, <1>8 DEF chunks

-----------------------------------------------------------------------------
Ascending(at) == \A a, b \in DOMAIN at : a < b => at[a] < at[b]

LEMMA PositionsFinite ==
    ASSUME NEW n \in Nat, NEW K \in SUBSET (1..n)
    PROVE  IsFiniteSet(K) /\ Cardinality(K) \in Nat
<1>1. IsFiniteSet(1..n)
    BY FS_Interval
<1>2. IsFiniteSet(K)
    BY <1>1, FS_Subset
<1> QED
    BY <1>2, FS_CardinalityType

LEMMA AscendingExists ==
    ASSUME NEW n \in Nat
    PROVE  \A K \in SUBSET (1..n) : \E at \in [1..Cardinality(K) -> K] : Ascending(at)
<1> DEFINE ok(m) == \A K \in SUBSET (1..m) : \E at \in [1..Cardinality(K) -> K] : Ascending(at)
           good == {m \in Nat : ok(m)}
<1>1. 0 \in good
  <2>1. SUBSET (1..0) = {{}} /\ Cardinality({}) = 0
      BY FS_EmptySet
  <2>2. [i \in 1..0 |-> i] \in [1..0 -> {}] /\ Ascending([i \in 1..0 |-> i])
      BY DEF Ascending
  <2> QED
      BY <2>1, <2>2
<1>2. ASSUME NEW m \in good, NEW K \in SUBSET (1..(m + 1))
      PROVE  \E at \in [1..Cardinality(K) -> K] : Ascending(at)
  <2>1. CASE m + 1 \notin K
    <3>1. K \in SUBSET (1..m)
        BY <2>1
    <3> QED
        BY <3>1
  <2>2. CASE m + 1 \in K
    <3> DEFINE J == K \ {m + 1}
    <3>1. J \in SUBSET (1..m) /\ \A k \in J : k < m + 1
        OBVIOUS
    <3>2. PICK at \in [1..Cardinality(J) -> J] : Ascending(at)
        BY <3>1
    <3>3. IsFiniteSet(K)
      <4>1. m + 1 \in Nat
          OBVIOUS
      <4> QED
          BY <4>1, PositionsFinite
    <3>4. Cardinality(K) \in Nat /\ Cardinality(J) = Cardinality(K) - 1 /\ Cardinality(J) \in Nat
        BY <2>2, <3>3, FS_CardinalityType, FS_RemoveElement
    <3> DEFINE more == [i \in 1..Cardinality(K) |-> IF i = Cardinality(K) THEN m + 1 ELSE at[i]]
    <3>5. \A i \in 1..Cardinality(K) : i = Cardinality(K) \/ i \in 1..Cardinality(J)
        BY <3>4
    <3>6. more \in [1..Cardinality(K) -> K]
        BY <2>2, <3>2, <3>5
    <3> HIDE DEF J
    <3>7. \A i \in 1..Cardinality(J) : at[i] \in J /\ at[i] < m + 1
        BY <3>1, <3>2
    <3>8. ASSUME NEW a \in 1..Cardinality(K), NEW b \in 1..Cardinality(K), a < b
          PROVE  more[a] < more[b]
      <4>1. a \in 1..Cardinality(J) /\ more[a] = at[a]
          BY <3>4, <3>8
      <4>2. CASE b = Cardinality(K)
          BY <3>7, <4>1, <4>2
      <4>3. CASE b # Cardinality(K)
        <5>1. b \in 1..Cardinality(J) /\ more[b] = at[b]
            BY <3>5, <4>3
        <5> QED
            BY <3>2, <3>8, <4>1, <5>1 DEF Ascending
      <4> QED
          BY <4>2, <4>3
    <3>9. Ascending(more)
        BY <3>8 DEF Ascending
    <3> QED
        BY <3>6, <3>9
  <2> QED
      BY <2>1, <2>2
<1>3. \A m \in good : ok(m + 1)
    BY <1>2
<1> HIDE DEF ok
<1>4. good \in SUBSET Nat /\ \A m \in good : m + 1 \in good
    BY <1>3
<1> HIDE DEF good
<1>5. good = Nat
    BY <1>1, <1>4, NumberInduction
<1>6. ok(n)
    BY <1>5 DEF good
<1> QED
    BY <1>6 DEF ok

\* InOrder lists each position of K.
LEMMA InOrderLists ==
    ASSUME NEW n \in Nat, NEW K \in SUBSET (1..n)
    PROVE  InOrder(K) \in Seq(K) /\ Range(InOrder(K)) = K
<1>1. IsFiniteSet(K) /\ Cardinality(K) \in Nat
    BY PositionsFinite
<1> DEFINE at == InOrder(K)
           D == 1..Cardinality(K)
<1>2. at \in [D -> K] /\ Ascending(at)
    BY AscendingExists DEF InOrder, Ascending
<1> HIDE DEF at
<1>3. \A a, b \in D : a # b => at[a] # at[b]
  <2>1. \A a, b \in D : a # b => a < b \/ b < a
      BY <1>1
  <2>2. \A a \in D : at[a] \in K
      BY <1>2
  <2>3. \A k \in K : k \in Nat
      OBVIOUS
  <2>4. \A a, b \in D : a < b => at[a] < at[b]
    <3>1. DOMAIN at = D
        BY <1>2
    <3> QED
        BY <1>2, <3>1 DEF Ascending
  <2>5. \A k, l \in K : k < l => k # l
      BY <2>3
  <2> HIDE DEF D
  <2> QED
      BY <2>1, <2>2, <2>4, <2>5
<1>4. IsFiniteSet(D) /\ Cardinality(D) = Cardinality(K)
    BY <1>1, FS_Interval
<1>5. at \in Injection(D, K)
    BY <1>2, <1>3 DEF Injection, IsInjective
<1>6. at \in Surjection(D, K)
    BY <1>1, <1>4, <1>5, FS_Injection
<1>7. Range(at) = K
    BY <1>2, <1>6 DEF Surjection, Range
<1>8. at \in Seq(K)
    BY <1>1, <1>2
<1> QED
    BY <1>7, <1>8 DEF at

\* Where picks the items with such an answer, all of them.
LEMMA WhereLists ==
    ASSUME NEW I, NEW c, Attempted(c) \in Seq(I), NEW says, DOMAIN says = DOMAIN Attempted(c), NEW kinds
    PROVE  /\ Where(c, says, kinds) \in Seq(I)
           /\ Range(Where(c, says, kinds))
                = {Attempted(c)[k] : k \in {k \in DOMAIN says : says[k] \in kinds}}
<1> DEFINE K == {k \in DOMAIN says : says[k] \in kinds}
           at == InOrder(K)
           items == Attempted(c)
           picked == [n \in DOMAIN at |-> items[at[n]]]
<1>1. Len(items) \in Nat /\ DOMAIN items = 1..Len(items) /\ \A k \in 1..Len(items) : items[k] \in I
    BY LenProperties, ElementOfSeq
<1>2. K \in SUBSET (1..Len(items))
    BY <1>1
<1>3. at \in Seq(K) /\ Range(at) = K
    BY <1>1, <1>2, InOrderLists
<1>4. Where(c, says, kinds) = picked
    BY DEF Where
<1> HIDE DEF at, items, K
<1>5. Len(at) \in Nat /\ DOMAIN at = 1..Len(at) /\ \A n \in 1..Len(at) : at[n] \in K
    BY <1>3, LenProperties, ElementOfSeq
<1>6. picked \in Seq(I)
  <2>1. \A n \in 1..Len(at) : items[at[n]] \in I
      BY <1>1, <1>2, <1>5
  <2>2. picked \in [1..Len(at) -> I]
      BY <1>5, <2>1
  <2> QED
      BY <1>5, <2>2
<1>7. Range(picked) = {items[k] : k \in Range(at)}
    BY DEF Range
<1> QED
    BY <1>3, <1>4, <1>6, <1>7 DEF K, items

-----------------------------------------------------------------------------
(* No item is lost: an item without a result is pending, in a chunk or     *)
(* among the nulls, and between two sources the nulls are pending too.     *)

Held(j, I) ==
    /\ j.pending \in Seq(I) /\ j.nulls \in Seq(I)
    /\ j.chunks \in Seq(Piece(I))
    /\ DOMAIN j.out = I

Open(j) == Range(j.pending) \cup Chunked(j.chunks) \cup Range(j.nulls)
Covered(j, I) == \A i \in I : j.out[i] = "result" \/ i \in Open(j)
Between(j) == j.chunks = <<>> /\ Range(j.nulls) \subseteq Range(j.pending)
Told(j, I) == \A i \in I : j.out[i] = "null" => i \in j.missing \ j.failed

Tracked(c) ==
    /\ Held(job[c], Item(c))
    /\ pc[c] = "called" => job[c].chunks = <<>> /\ job[c].nulls = <<>>
    /\ pc[c] \in {"next", "chunk", "acquire", "posting"} => Covered(job[c], Item(c))
    /\ pc[c] = "next" => Between(job[c])
    /\ pc[c] = "chunk" => job[c].pending = <<>>
    /\ pc[c] \in {"acquire", "posting"} =>
         IF job[c].purpose = "explore" THEN Between(job[c]) /\ Item(c) = {1}
                                       ELSE job[c].pending = <<>>
    /\ pc[c] = "done" => Told(job[c], Item(c))

Others(c) == \A d \in Caller \ {c} : pc'[d] = pc[d] /\ job'[d] = job[d]

LEMMA NothingHeld == Range(<<>>) = {} /\ Chunked(<<>>) = {}
BY DEF Range, Chunked

\* Where a batch ends, what is neither a result nor pending is not left open.
LEMMA SettledTells ==
    ASSUME NEW j, DOMAIN j = Fields, NEW I, Held(j, I), Covered(j, I), Between(j)
    PROVE  Held(Settled(j), I) /\ Told(Settled(j), I)
<1>1. /\ Settled(j).pending = <<>> /\ Settled(j).chunks = <<>> /\ Settled(j).nulls = <<>>
      /\ Settled(j).failed = j.failed /\ Settled(j).missing = j.missing
      /\ Settled(j).out = [i \in DOMAIN j.out |->
                              IF i \notin Range(j.pending) THEN j.out[i]
                              ELSE IF i \in j.failed THEN "error"
                              ELSE IF i \in j.missing THEN "null"
                              ELSE "deferred"]
    BY DEF Settled, Fields
<1>2. Held(Settled(j), I)
    BY <1>1, EmptySeq DEF Held
<1>3. \A i \in I : i \in Range(j.pending) \/ j.out[i] = "result"
    BY NothingHeld DEF Covered, Between, Open
<1>4. Told(Settled(j), I)
    BY <1>1, <1>3 DEF Told, Held
<1> QED
    BY <1>2, <1>4

\* The locals of c after a step that sets them, and those of the others.
LEMMA OnlyIts ==
    ASSUME RouteTypeOK, NEW c \in Caller, NEW label, Goto(c, label), NEW j,
           job' = [job EXCEPT ![c] = j]
    PROVE  pc'[c] = label /\ job'[c] = j /\ Others(c)
BY DEF RouteTypeOK, Goto, Others

\* A chunk that was not answered: the nulls and the chunks are pending again.
LEMMA PutBackKept ==
    ASSUME RouteTypeOK, NEW c \in Caller, Tracked(c), Covered(job[c], Item(c)),
           job[c].pending = <<>>, pc'[c] = "next",
           job'[c].pending = job[c].nulls \o ItemsOf(job[c].chunks), job'[c].chunks = <<>>,
           job'[c].nulls = job[c].nulls, job'[c].out = job[c].out
    PROVE  Tracked(c)'
<1> DEFINE I == Item(c)
           j == job[c]
<1>1. j.nulls \in Seq(I) /\ j.chunks \in Seq(Piece(I)) /\ DOMAIN j.out = I
    BY DEF Tracked, Held
<1>2. ItemsOf(j.chunks) \in Seq(I) /\ Range(ItemsOf(j.chunks)) = Chunked(j.chunks)
    BY <1>1, ItemsOfKeeps
<1>3. /\ job'[c].pending \in Seq(I)
      /\ Range(job'[c].pending) = Range(j.nulls) \cup Chunked(j.chunks)
    BY <1>1, <1>2, RangeOfConcat
<1>4. Held(job'[c], I)
    BY <1>1, <1>3, EmptySeq DEF Held
<1>5. Covered(job'[c], I) /\ Between(job'[c])
    BY <1>3, NothingHeld DEF Covered, Open, Between
<1> QED
    BY <1>4, <1>5 DEF Tracked

LEMMA FailedRequestKept ==
    ASSUME RouteTypeOK, NEW c \in Caller, Tracked(c), FailedRequest(c),
           job[c].pending = <<>>, Covered(job[c], Item(c))
    PROVE  Tracked(c)' /\ Others(c)
<1>1. /\ pc'[c] = "next" /\ Others(c)
      /\ job'[c].pending = job[c].nulls \o ItemsOf(job[c].chunks) /\ job'[c].chunks = <<>>
      /\ job'[c].nulls = job[c].nulls /\ job'[c].out = job[c].out
    BY DEF FailedRequest, Goto, RouteTypeOK, Fields, Others
<1> QED
    BY <1>1, PutBackKept

\* A step that leaves the items where they are and ends at a chunk or a request for one.
LEMMA ItemsStay ==
    ASSUME NEW c \in Caller, Tracked(c), job[c].pending = <<>>, Covered(job[c], Item(c)),
           pc'[c] \in {"chunk", "acquire", "posting"}, job'[c].purpose # "explore",
           job'[c].pending = job[c].pending, job'[c].chunks = job[c].chunks,
           job'[c].nulls = job[c].nulls, job'[c].out = job[c].out
    PROVE  Tracked(c)'
<1>1. Held(job'[c], Item(c)) /\ Covered(job'[c], Item(c))
    BY DEF Tracked, Held, Covered, Open
<1> QED
    BY <1>1 DEF Tracked

LEMMA ReserveKept ==
    ASSUME RouteTypeOK, NEW c \in Caller, Tracked(c), job[c].pending = <<>>, Covered(job[c], Item(c)),
           NEW purpose \in {"verify", "range", "ask"}, Reserve(c, purpose)
    PROVE  Tracked(c)' /\ Others(c)
<1>1. CASE c \in laneClosed
    BY <1>1, FailedRequestKept DEF Reserve
<1>2. CASE c \notin laneClosed
  <2>1. /\ pc'[c] = "acquire" /\ Others(c) /\ job'[c].purpose = purpose
        /\ job'[c].pending = job[c].pending /\ job'[c].chunks = job[c].chunks
        /\ job'[c].nulls = job[c].nulls /\ job'[c].out = job[c].out
      BY <1>2 DEF Reserve, Goto, RouteTypeOK, Fields, Others
  <2> QED
      BY <2>1, ItemsStay
<1> QED
    BY <1>1, <1>2

LEMMA ExplorerSaysKept ==
    ASSUME RouteTypeOK, NEW c \in Caller, Tracked(c), NEW ok \in BOOLEAN, ExplorerSays(c, ok),
           Covered(job[c], Item(c)), Between(job[c]), Item(c) = {1}
    PROVE  Tracked(c)' /\ Others(c)
<1> DEFINE I == Item(c)
           j == job[c]
           answered == [j EXCEPT !.out[1] = "result", !.pending = <<>>]
           blamed == [j EXCEPT !.failed = {1}]
           end == IF ok THEN Settled(answered) ELSE Settled(blamed)
<1>0. DOMAIN j = Fields /\ Held(j, I)
    BY DEF RouteTypeOK, Tracked
<1>1. job' = [job EXCEPT ![c] = end] /\ Goto(c, "done")
    BY DEF ExplorerSays
<1>2. Held(end, I) /\ Told(end, I)
  <2>1. CASE ok
    <3>1. /\ DOMAIN answered = Fields
          /\ answered.pending = <<>> /\ answered.out = [j.out EXCEPT ![1] = "result"]
          /\ answered.nulls = j.nulls /\ answered.chunks = j.chunks
        BY <1>0 DEF Fields
    <3>2. Settled(answered).pending = <<>> /\ Settled(answered).chunks = <<>>
          /\ Settled(answered).nulls = <<>>
          /\ Settled(answered).out = [i \in DOMAIN answered.out |->
                              IF i \notin Range(answered.pending) THEN answered.out[i]
                              ELSE IF i \in answered.failed THEN "error"
                              ELSE IF i \in answered.missing THEN "null"
                              ELSE "deferred"]
        BY <3>1 DEF Settled, Fields
    <3>3. DOMAIN answered.out = {1} /\ answered.out[1] = "result" /\ Range(answered.pending) = {}
        BY <1>0, <3>1, NothingHeld DEF Held
    <3>4. DOMAIN Settled(answered).out = {1} /\ Settled(answered).out[1] = "result"
        BY <3>2, <3>3
    <3> HIDE DEF answered
    <3> QED
        BY <2>1, <3>2, <3>4, EmptySeq DEF Held, Told
  <2>2. CASE ~ok
    <3>1. /\ DOMAIN blamed = Fields /\ blamed.pending = j.pending /\ blamed.chunks = j.chunks
          /\ blamed.nulls = j.nulls /\ blamed.out = j.out
        BY <1>0 DEF Fields
    <3> HIDE DEF blamed
    <3>2. Held(blamed, I) /\ Covered(blamed, I) /\ Between(blamed)
        BY <1>0, <3>1 DEF Held, Covered, Open, Between
    <3> QED
        BY <2>2, <3>1, <3>2, SettledTells
  <2> QED
      BY <2>1, <2>2
<1> HIDE DEF end
<1>3. pc'[c] = "done" /\ job'[c] = end /\ Others(c)
    BY <1>1, OnlyIts
<1> QED
    BY <1>2, <1>3 DEF Tracked

\* The items of an answered chunk: each is a result now, among the nulls, or
\* unresolved.
LEMMA NotedKeeps ==
    ASSUME NEW c \in Caller, DOMAIN job[c] = Fields, Held(job[c], Item(c)), Covered(job[c], Item(c)),
           job[c].pending = <<>>, job[c].chunks # <<>>,
           NEW says \in [DOMAIN Attempted(c) -> Answers(c)],
           NEW j, j = Noted(c, says)
    PROVE  /\ DOMAIN j = Fields /\ Held(j, Item(c))
           /\ j.pending = <<>> /\ j.chunks = job[c].chunks
           /\ Unresolved(c, says) \in Seq(Item(c)) /\ Attempted(c) \in Seq(Item(c))
           /\ Tail(j.chunks) \in Seq(Piece(Item(c)))
           /\ Range(Unresolved(c, says)) \subseteq Range(Attempted(c))
           /\ \A i \in Item(c) : \/ j.out[i] = "result"
                                 \/ i \in Range(Unresolved(c, says))
                                 \/ i \in Chunked(Tail(j.chunks))
                                 \/ i \in Range(j.nulls)
<1> DEFINE I == Item(c)
           answered == Where(c, says, {"result"})
           none == Where(c, says, {"null"})
           unresolved == Unresolved(c, says)
<1>1. /\ DOMAIN j = Fields /\ j.pending = job[c].pending /\ j.chunks = job[c].chunks
      /\ j.nulls = job[c].nulls \o none
      /\ j.out = [i \in DOMAIN job[c].out |-> IF i \in Range(answered) THEN "result" ELSE job[c].out[i]]
    BY DEF Noted, Fields
<1>2. /\ job[c].chunks \in Seq(Piece(I)) /\ job[c].nulls \in Seq(I) /\ DOMAIN job[c].out = I
    BY DEF Held
<1>3. /\ Head(job[c].chunks) \in Piece(I) /\ Tail(job[c].chunks) \in Seq(Piece(I))
      /\ Chunked(job[c].chunks) = Range(Attempted(c)) \cup Chunked(Tail(job[c].chunks))
    BY <1>2, ChunkedTail DEF Attempted
<1>4. Attempted(c) \in Seq(I)
    BY <1>3 DEF Attempted, Piece
<1>5. DOMAIN says = DOMAIN Attempted(c) /\ \A k \in DOMAIN says : says[k] \in Answers(c)
    OBVIOUS
<1>6. /\ answered \in Seq(I) /\ none \in Seq(I) /\ unresolved \in Seq(I)
      /\ Range(answered) = {Attempted(c)[k] : k \in {k \in DOMAIN says : says[k] \in {"result"}}}
      /\ Range(none) = {Attempted(c)[k] : k \in {k \in DOMAIN says : says[k] \in {"null"}}}
      /\ Range(unresolved)
           = {Attempted(c)[k] : k \in {k \in DOMAIN says : says[k] \in {"limited", "error"}}}
    BY <1>4, <1>5, WhereLists DEF Unresolved
<1> HIDE DEF answered, none, unresolved
<1>7. Range(Attempted(c)) = {Attempted(c)[k] : k \in DOMAIN says}
    BY <1>5 DEF Range
<1>8. \A k \in DOMAIN says : says[k] \in {"result"} \/ says[k] \in {"null"} \/ says[k] \in {"limited", "error"}
    BY <1>5 DEF Answers
<1>9. /\ Range(Attempted(c)) \subseteq Range(answered) \cup Range(none) \cup Range(unresolved)
      /\ Range(unresolved) \subseteq Range(Attempted(c))
    BY <1>6, <1>7, <1>8
<1>10. j.nulls \in Seq(I) /\ Range(j.nulls) = Range(job[c].nulls) \cup Range(none)
    BY <1>1, <1>2, <1>6, RangeOfConcat
<1>11. Held(j, I)
    BY <1>1, <1>2, <1>10, EmptySeq DEF Held
<1>12. ASSUME NEW i \in I
       PROVE  \/ j.out[i] = "result" \/ i \in Range(unresolved)
              \/ i \in Chunked(Tail(j.chunks)) \/ i \in Range(j.nulls)
  <2>1. job[c].out[i] = "result" \/ i \in Chunked(job[c].chunks) \/ i \in Range(job[c].nulls)
      BY NothingHeld DEF Covered, Open
  <2>2. j.out[i] = IF i \in Range(answered) THEN "result" ELSE job[c].out[i]
      BY <1>1, <1>2
  <2> QED
      BY <1>1, <1>3, <1>9, <1>10, <2>1, <2>2
<1> QED
    BY <1>1, <1>3, <1>4, <1>6, <1>9, <1>11, <1>12 DEF unresolved

LEMMA PostAnsweredKept ==
    ASSUME RouteTypeOK, NEW c \in Caller, Tracked(c), job[c].chunks # <<>>,
           NEW says \in [DOMAIN Attempted(c) -> Answers(c)], PostAnswered(c, says)
    PROVE  Tracked(c)' /\ Others(c)
<1> DEFINE I == Item(c)
           j == Noted(c, says)
           later == Tail(j.chunks)
           unresolved == Unresolved(c, says)
<1>1. /\ DOMAIN job[c] = Fields /\ Held(job[c], I) /\ Covered(job[c], I)
      /\ job[c].pending = <<>>
    BY DEF RouteTypeOK, Tracked, PostAnswered
<1>2. /\ DOMAIN j = Fields /\ Held(j, I) /\ j.pending = <<>>
      /\ unresolved \in Seq(I) /\ Attempted(c) \in Seq(I) /\ later \in Seq(Piece(I))
      /\ Range(unresolved) \subseteq Range(Attempted(c))
      /\ \A i \in I : \/ j.out[i] = "result" \/ i \in Range(unresolved)
                      \/ i \in Chunked(later) \/ i \in Range(j.nulls)
    BY <1>1, NotedKeeps
<1>3. j.purpose = None
    BY <1>1 DEF Noted, Fields
<1>4. \/ /\ unresolved = <<>>
         /\ job' = [job EXCEPT ![c] = IF later = <<>> THEN [j EXCEPT !.chunks = <<>>, !.pending = j.nulls]
                                                    ELSE [j EXCEPT !.chunks = later]]
         /\ Goto(c, IF later = <<>> THEN "next" ELSE "chunk")
      \/ /\ job' = [job EXCEPT ![c] = [j EXCEPT !.chunks = Halves(Attempted(c)) \o later]]
         /\ Goto(c, "chunk")
      \/ /\ job' = [job EXCEPT ![c] = [j EXCEPT !.chunks = <<>>,
                                                !.pending = unresolved \o ItemsOf(later) \o j.nulls]]
         /\ Goto(c, "next")
    BY DEF PostAnswered, Leftover
<1> HIDE DEF j, later, unresolved
<1>5. j.nulls \in Seq(I) /\ DOMAIN j.out = I
    BY <1>2 DEF Held
<1>6. CASE /\ unresolved = <<>> /\ later = <<>>
           /\ job' = [job EXCEPT ![c] = [j EXCEPT !.chunks = <<>>, !.pending = j.nulls]]
           /\ Goto(c, "next")
  <2> DEFINE k == [j EXCEPT !.chunks = <<>>, !.pending = j.nulls]
  <2>1. /\ pc'[c] = "next" /\ Others(c)
        /\ job'[c].chunks = <<>> /\ job'[c].pending = j.nulls /\ job'[c].nulls = j.nulls
        /\ job'[c].out = j.out
    <3>1. k.nulls = j.nulls /\ k.out = j.out /\ k.chunks = <<>> /\ k.pending = j.nulls
        BY <1>2 DEF Fields
    <3>2. job' = [job EXCEPT ![c] = k]
        BY <1>6
    <3> HIDE DEF k
    <3>3. pc'[c] = "next" /\ job'[c] = k /\ Others(c)
        BY <1>6, <3>2, OnlyIts
    <3> QED
        BY <3>1, <3>3
  <2>2. Held(job'[c], I) /\ Between(job'[c])
      BY <1>5, <2>1, EmptySeq DEF Held, Between
  <2>3. Covered(job'[c], I)
      BY <1>2, <1>6, <2>1, NothingHeld DEF Covered, Open
  <2> QED
      BY <2>1, <2>2, <2>3 DEF Tracked
<1>7. CASE /\ unresolved = <<>> /\ later # <<>>
           /\ job' = [job EXCEPT ![c] = [j EXCEPT !.chunks = later]]
           /\ Goto(c, "chunk")
  <2> DEFINE k == [j EXCEPT !.chunks = later]
  <2>1. /\ pc'[c] = "chunk" /\ Others(c)
        /\ job'[c].chunks = later /\ job'[c].pending = <<>> /\ job'[c].nulls = j.nulls
        /\ job'[c].out = j.out
    <3>1. k.nulls = j.nulls /\ k.out = j.out /\ k.chunks = later /\ k.pending = <<>>
        BY <1>2 DEF Fields
    <3>2. job' = [job EXCEPT ![c] = k]
        BY <1>7
    <3> HIDE DEF k
    <3>3. pc'[c] = "chunk" /\ job'[c] = k /\ Others(c)
        BY <1>7, <3>2, OnlyIts
    <3> QED
        BY <3>1, <3>3
  <2>2. Held(job'[c], I)
      BY <1>2, <1>5, <2>1, EmptySeq DEF Held
  <2>3. Covered(job'[c], I)
      BY <1>2, <1>7, <2>1, NothingHeld DEF Covered, Open
  <2> QED
      BY <2>1, <2>2, <2>3 DEF Tracked
<1>8. CASE /\ job' = [job EXCEPT ![c] = [j EXCEPT !.chunks = Halves(Attempted(c)) \o later]]
           /\ Goto(c, "chunk")
  <2> DEFINE k == [j EXCEPT !.chunks = Halves(Attempted(c)) \o later]
  <2>1. /\ pc'[c] = "chunk" /\ Others(c)
        /\ job'[c].chunks = Halves(Attempted(c)) \o later /\ job'[c].pending = <<>>
        /\ job'[c].nulls = j.nulls /\ job'[c].out = j.out
    <3>1. k.nulls = j.nulls /\ k.out = j.out /\ k.chunks = Halves(Attempted(c)) \o later /\ k.pending = <<>>
        BY <1>2 DEF Fields
    <3>2. job' = [job EXCEPT ![c] = k]
        BY <1>8
    <3> HIDE DEF k
    <3>3. pc'[c] = "chunk" /\ job'[c] = k /\ Others(c)
        BY <1>8, <3>2, OnlyIts
    <3> QED
        BY <3>1, <3>3
  <2>2. Halves(Attempted(c)) \in Seq(Piece(I)) /\ Range(Attempted(c)) \subseteq Chunked(Halves(Attempted(c)))
      BY <1>2, PiecesOfHalves
  <2>3. /\ job'[c].chunks \in Seq(Piece(I))
        /\ Chunked(job'[c].chunks) = Chunked(Halves(Attempted(c))) \cup Chunked(later)
      BY <1>2, <2>1, <2>2, ChunkedConcat
  <2>4. Held(job'[c], I)
      BY <1>5, <2>1, <2>3, EmptySeq DEF Held
  <2>5. Covered(job'[c], I)
      BY <1>2, <2>1, <2>2, <2>3 DEF Covered, Open
  <2> QED
      BY <2>1, <2>4, <2>5 DEF Tracked
<1>9. CASE /\ job' = [job EXCEPT ![c] = [j EXCEPT !.chunks = <<>>,
                                                  !.pending = unresolved \o ItemsOf(later) \o j.nulls]]
           /\ Goto(c, "next")
  <2> DEFINE k == [j EXCEPT !.chunks = <<>>, !.pending = unresolved \o ItemsOf(later) \o j.nulls]
  <2>1. /\ pc'[c] = "next" /\ Others(c)
        /\ job'[c].chunks = <<>> /\ job'[c].pending = unresolved \o ItemsOf(later) \o j.nulls
        /\ job'[c].nulls = j.nulls /\ job'[c].out = j.out
    <3>1. k.nulls = j.nulls /\ k.out = j.out /\ k.chunks = <<>> /\ k.pending = unresolved \o ItemsOf(later) \o j.nulls
        BY <1>2 DEF Fields
    <3>2. job' = [job EXCEPT ![c] = k]
        BY <1>9
    <3> HIDE DEF k
    <3>3. pc'[c] = "next" /\ job'[c] = k /\ Others(c)
        BY <1>9, <3>2, OnlyIts
    <3> QED
        BY <3>1, <3>3
  <2>2. ItemsOf(later) \in Seq(I) /\ Range(ItemsOf(later)) = Chunked(later)
      BY <1>2, ItemsOfKeeps
  <2>3. /\ unresolved \o ItemsOf(later) \in Seq(I)
        /\ Range(unresolved \o ItemsOf(later)) = Range(unresolved) \cup Chunked(later)
      BY <1>2, <2>2, RangeOfConcat
  <2>4. /\ job'[c].pending \in Seq(I)
        /\ Range(job'[c].pending) = Range(unresolved) \cup Chunked(later) \cup Range(j.nulls)
    <3> DEFINE front == unresolved \o ItemsOf(later)
    <3>1. front \in Seq(I) /\ Range(front) = Range(unresolved) \cup Chunked(later)
        BY <2>3
    <3>2. job'[c].pending = front \o j.nulls
        BY <2>1
    <3> HIDE DEF front
    <3> QED
        BY <1>5, <3>1, <3>2, RangeOfConcat
  <2>5. Held(job'[c], I) /\ Between(job'[c])
      BY <1>5, <2>1, <2>4, EmptySeq DEF Held, Between
  <2>6. Covered(job'[c], I)
      BY <1>2, <2>1, <2>4 DEF Covered, Open
  <2> QED
      BY <2>1, <2>5, <2>6 DEF Tracked
<1> QED
    BY <1>4, <1>6, <1>7, <1>8, <1>9

LEMMA StepKept ==
    ASSUME RouteInv, NEW c \in Caller, Tracked(c), Step(c)
    PROVE  Tracked(c)' /\ Others(c)
<1> DEFINE I == Item(c)
<1>0. RouteTypeOK /\ Held(job[c], I)
    BY DEF RouteInv, Tracked
<1>1. CASE Begin(c)
  <2>1. CASE c \in laneClosed
    <3>1. pc'[c] = "raised" /\ Others(c) /\ job' = job
        BY <1>0, <1>1, <2>1 DEF Begin, Goto, RouteTypeOK, Others
    <3> QED
        BY <1>0, <3>1 DEF Tracked
  <2>2. CASE c \notin laneClosed
    <3>1. /\ pc'[c] = "next" /\ Others(c) /\ job'[c].pending = [i \in I |-> i]
          /\ job'[c].chunks = job[c].chunks /\ job'[c].nulls = job[c].nulls /\ job'[c].out = job[c].out
        BY <1>0, <1>1, <2>2 DEF Begin, Goto, RouteTypeOK, Fields, Others
    <3>2. job[c].chunks = <<>> /\ job[c].nulls = <<>>
        BY <1>1 DEF Begin, Tracked
    <3>3. job'[c].pending \in Seq(I) /\ Range(job'[c].pending) = I
      <4>1. Size[c] \in Nat /\ I = 1..Size[c]
          BY RoutingAssumption DEF Item
      <4> QED
          BY <3>1, <4>1 DEF Range
    <3>4. Held(job'[c], I) /\ Covered(job'[c], I) /\ Between(job'[c])
        BY <1>0, <3>1, <3>2, <3>3, NothingHeld DEF Held, Covered, Open, Between
    <3> QED
        BY <3>1, <3>4 DEF Tracked
  <2> QED
      BY <2>1, <2>2
<1>2. CASE PassOver(c)
  <2>1. /\ pc[c] = "next" /\ pc' = pc /\ Others(c) /\ job'[c].pending = job[c].pending
        /\ job'[c].chunks = job[c].chunks /\ job'[c].nulls = job[c].nulls /\ job'[c].out = job[c].out
      BY <1>0, <1>2 DEF PassOver, RouteTypeOK, Fields, Others
  <2>2. Held(job'[c], I) /\ Covered(job'[c], I) /\ Between(job'[c])
      BY <1>0, <2>1 DEF Held, Covered, Open, Between, Tracked
  <2> QED
      BY <2>1, <2>2 DEF Tracked
<1>3. CASE NextSource(c)
  <2> DEFINE s == Head(job[c].plan)
  <2>1. s \in Source
      BY <1>0, <1>3, HeadTailProperties DEF NextSource, RouteTypeOK
  <2>2. /\ pc[c] = "next" /\ pc'[c] = "chunk" /\ Others(c) /\ job'[c].pending = <<>>
        /\ job'[c].chunks = Cut(job[c].pending, Limit[s]) /\ job'[c].nulls = <<>>
        /\ job'[c].out = job[c].out
      BY <1>0, <1>3 DEF NextSource, Goto, RouteTypeOK, Fields, Others
  <2>3. Limit[s] \in Nat \ {0} /\ job[c].pending \in Seq(I)
      BY <1>0, <2>1, RoutingAssumption DEF Held
  <2>4. job'[c].chunks \in Seq(Piece(I)) /\ Range(job[c].pending) \subseteq Chunked(job'[c].chunks)
      BY <2>2, <2>3, PiecesOfCut
  <2>5. Held(job'[c], I)
      BY <1>0, <2>2, <2>4, EmptySeq DEF Held
  <2>6. Covered(job[c], I) /\ Between(job[c])
      BY <2>2 DEF Tracked
  <2>7. Covered(job'[c], I)
      BY <2>2, <2>4, <2>6, NothingHeld DEF Covered, Open, Between
  <2> QED
      BY <2>2, <2>5, <2>7 DEF Tracked
<1>4. CASE AskExplorer(c)
  <2>1. /\ pc[c] = "next" /\ pc'[c] = "acquire" /\ Others(c) /\ job'[c].purpose = "explore"
        /\ job'[c].pending = job[c].pending
        /\ job'[c].chunks = job[c].chunks /\ job'[c].nulls = job[c].nulls /\ job'[c].out = job[c].out
      BY <1>0, <1>4 DEF AskExplorer, Goto, RouteTypeOK, Fields, Others
  <2>2. Held(job'[c], I) /\ Covered(job'[c], I) /\ Between(job'[c])
      BY <1>0, <2>1 DEF Held, Covered, Open, Between, Tracked
  <2>3. I = {1}
      BY <1>4 DEF AskExplorer, Item
  <2> QED
      BY <2>1, <2>2, <2>3 DEF Tracked
<1>5. CASE Conclude(c)
  <2>1. DOMAIN job[c] = Fields /\ Covered(job[c], I) /\ Between(job[c])
      BY <1>0, <1>5 DEF Conclude, RouteTypeOK, Tracked
  <2>2. job' = [job EXCEPT ![c] = Settled(job[c])] /\ Goto(c, "done")
      BY <1>5 DEF Conclude
  <2>3. pc'[c] = "done" /\ job'[c] = Settled(job[c]) /\ Others(c)
      BY <1>0, <2>2, OnlyIts
  <2> QED
      BY <1>0, <2>1, <2>3, SettledTells DEF Tracked
<1>6. CASE UseSource(c) \/ Verify(c)
  <2>1. pc[c] = "chunk" /\ \E purpose \in {"verify", "range", "ask"} : Reserve(c, purpose)
      BY <1>6 DEF UseSource, Verify
  <2>2. job[c].pending = <<>> /\ Covered(job[c], I)
      BY <2>1 DEF Tracked
  <2> QED
      BY <1>0, <2>1, <2>2, ReserveKept
<1>7. CASE Acquire(c)
  <2>1. pc[c] = "acquire" /\ pc'[c] = "posting" /\ Others(c) /\ job' = job
      BY <1>0, <1>7 DEF Acquire, Goto, RouteTypeOK, Others
  <2> QED
      BY <2>1 DEF Tracked
<1>8. CASE AcquireRefused(c) \/ PostFails(c) \/ PostExplored(c)
  <2>1. /\ pc[c] \in {"acquire", "posting"}
        /\ IF job[c].purpose = "explore" THEN \E ok \in BOOLEAN : ExplorerSays(c, ok) ELSE FailedRequest(c)
      BY <1>8 DEF AcquireRefused, PostFails, PostExplored
  <2>2. Covered(job[c], I)
      BY <2>1 DEF Tracked
  <2>3. CASE job[c].purpose = "explore"
      BY <1>0, <2>1, <2>2, <2>3, ExplorerSaysKept DEF Tracked
  <2>4. CASE job[c].purpose # "explore"
      BY <1>0, <2>1, <2>2, <2>4, FailedRequestKept DEF Tracked
  <2> QED
      BY <2>3, <2>4
<1>9. CASE PostVerified(c)
  <2>1. pc[c] = "posting" /\ job[c].purpose = "verify"
      BY <1>9 DEF PostVerified
  <2>2. job[c].pending = <<>> /\ Covered(job[c], I)
      BY <2>1 DEF Tracked
  <2>3. CASE job[c].source \in Foreign
      BY <1>0, <1>9, <2>2, <2>3, FailedRequestKept DEF PostVerified
  <2>4. CASE job[c].source \notin Foreign
    <3>1. /\ pc'[c] = "chunk" /\ Others(c) /\ job'[c].purpose = None
          /\ job'[c].pending = job[c].pending
          /\ job'[c].chunks = job[c].chunks /\ job'[c].nulls = job[c].nulls /\ job'[c].out = job[c].out
        BY <1>0, <1>9, <2>4 DEF PostVerified, Goto, RouteTypeOK, Fields, Others
    <3> QED
        BY <2>2, <3>1, ItemsStay DEF None
  <2> QED
      BY <2>3, <2>4
<1>10. ASSUME NEW reached \in BOOLEAN, PostRange(c, reached)
       PROVE  Tracked(c)' /\ Others(c)
  <2>1. pc[c] = "posting" /\ job[c].purpose = "range"
      BY <1>10 DEF PostRange
  <2>2. job[c].pending = <<>> /\ Covered(job[c], I)
      BY <2>1 DEF Tracked
  <2>3. CASE reached
      BY <1>0, <1>10, <2>2, <2>3, ReserveKept DEF PostRange
  <2>4. CASE ~reached
    <3>1. /\ pc'[c] = "next" /\ Others(c)
          /\ job'[c].pending = job[c].nulls \o ItemsOf(job[c].chunks) /\ job'[c].chunks = <<>>
          /\ job'[c].nulls = job[c].nulls /\ job'[c].out = job[c].out
      <4>1. /\ job' = [job EXCEPT ![c].pending = job[c].nulls \o ItemsOf(job[c].chunks),
                                  ![c].chunks = <<>>, ![c].purpose = None]
            /\ pc' = [pc EXCEPT ![c] = "next"]
          BY <1>10, <2>4 DEF PostRange, Goto
      <4> QED
          BY <1>0, <4>1 DEF RouteTypeOK, Fields, Others
    <3> QED
        BY <1>0, <2>2, <3>1, PutBackKept
  <2> QED
      BY <2>3, <2>4
<1>11. ASSUME job[c].chunks # <<>>, NEW says \in [DOMAIN Attempted(c) -> Answers(c)], PostAnswered(c, says)
       PROVE  Tracked(c)' /\ Others(c)
    BY <1>0, <1>11, PostAnsweredKept
<1> QED
    BY <1>1, <1>2, <1>3, <1>4, <1>5, <1>6, <1>7, <1>8, <1>9, <1>10, <1>11 DEF Step

LEMMA TrackedNext == RouteInv /\ (\A c \in Caller : Tracked(c)) /\ [Next]_vars => (\A c \in Caller : Tracked(c))'
<1> SUFFICES ASSUME RouteInv, \A c \in Caller : Tracked(c), [Next]_vars
             PROVE  \A c \in Caller : Tracked(c)'
    OBVIOUS
<1>1. ASSUME NEW c \in Caller, Step(c) PROVE \A d \in Caller : Tracked(d)'
  <2>1. Tracked(c)' /\ Others(c)
      BY <1>1, StepKept
  <2>2. \A d \in Caller \ {c} : Tracked(d)'
      BY <2>1 DEF Others, Tracked
  <2> QED
      BY <2>1, <2>2
<1>2. CASE UNCHANGED <<pc, job>>
    BY <1>2 DEF Tracked
<1> QED
    BY <1>1, <1>2 DEF Next, CloseLane, CloseRegistry, CloseDrained, vars

\* _run_batch: None in the output of a batch says that the transaction does not exist only when some source said
\* so and no source failed on it; no item is lost between the chunks, the split and the failovers.
THEOREM RpcNullsKnown == Spec => []NullIsKnown
<1>1. Init => \A c \in Caller : Tracked(c)
  <2> SUFFICES ASSUME Init, NEW c \in Caller PROVE Tracked(c)
      OBVIOUS
  <2>1. /\ pc[c] = "called" /\ job[c].pending = <<>> /\ job[c].chunks = <<>> /\ job[c].nulls = <<>>
        /\ DOMAIN job[c].out = Item(c)
      BY DEF Init, FreshJob
  <2> QED
      BY <2>1, EmptySeq DEF Tracked, Held
<1>2. (\A c \in Caller : Tracked(c)) => NullIsKnown
    BY DEF Tracked, Told, NullIsKnown
<1> QED
    BY <1>1, <1>2, RouteInitInv, RouteNextInv, TrackedNext, PTL DEF Spec
=============================================================================
