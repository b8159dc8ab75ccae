------------------------------- MODULE MCQueues -------------------------------
(***************************************************************************)
(* The two work queues of the store side by side: the enrichment queue     *)
(* and the deferred accounting queue.  A behaviour exercises the one       *)
(* chosen at the start while the other stays where it began.               *)
(***************************************************************************)
EXTENDS MCEnrichmentQueue, MCAccountingQueue

VARIABLE queue      \* "enrichment" or "accounting"

QueuesInit ==
    /\ queue \in {"enrichment", "accounting"}
    /\ Init /\ BooksInit
    /\ queue = "enrichment" => phase = "complete"

QueuesNext ==
    /\ UNCHANGED queue
    /\ \/ queue = "enrichment" /\ Next /\ UNCHANGED booksAll
       \/ queue = "accounting" /\ BooksNext /\ UNCHANGED vars

\* The fairness of the queues, in the behaviours that exercise them.
Enriching == queue = "enrichment"
FairQueues ==
    /\ WF_vars(Enriching /\ LaneStep) /\ WF_vars(Enriching /\ EnrichStep)
    /\ WF_vars(Enriching /\ ReplayStep) /\ WF_vars(Enriching /\ SeedStep)
    /\ \A t \in Tx : WF_vars(Enriching /\ FetchEvidence(t))
    /\ WF_booksAll(~Enriching /\ Bootstrap) /\ WF_booksAll(~Enriching /\ Projection)

QueuesSpec == QueuesInit /\ [][QueuesNext]_<<queue, vars, booksAll>> /\ FairQueues

\* docs/RPC_OPERATIONS.md: "Receipt jobs have a bounded retry budget."  Once
\* failures and reorganisations stop, every job is done or dead-lettered.
EnrichmentDrains ==
    <>[](Enriching => \A t \in Tx : Pending(t) => row[t].error = "terminal" /\ row[t].deferred = {})
=============================================================================
