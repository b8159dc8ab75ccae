------------------------------- MODULE MCEdges -------------------------------
(***************************************************************************)
(* The ledger and the edges of the system side by side: receipt evidence   *)
(* under reorganisation, position replay, deferred accounting, the live    *)
(* feed, swap planning, the trade desk, pool actions, the holder gate, the *)
(* flow feed, the watchdog and the backups.  A behaviour exercises the     *)
(* part chosen at the start while the others stay where they began.        *)
(***************************************************************************)
EXTENDS MCEnrichmentQueue, PositionReplay, MCAccountingQueue, MCSwapPlan, TradeDesk, PoolActions,
        MCHolderGate, Watchdog, DataBackup, FlowFeed, LiveFeed

CONSTANTS
    MaxObserved,    \* bound: feed events while the service observes blocks
    MaxDesk         \* bound: blocks, ticks and quotes at the trade desk together

VARIABLE part

Parts == {"receipts", "replay", "books", "feed", "current", "swap", "desk", "actions", "gate",
          "signin", "flow", "watchdog", "backup"}

\* A part that is not exercised begins in one state.
EdgesInit ==
    /\ part \in Parts
    /\ Init
    /\ ReplayInit /\ (part # "replay" => proto = "v3" /\ ingested.lo = 1)
    /\ BooksInit /\ (part # "books" => phase = "complete")
    /\ LiveInit /\ (observing <=> part = "current")
    /\ SwapInit
    /\ part # "swap" => /\ order = CHOOSE o \in Orders : TRUE
                        /\ book = CHOOSE b \in Books : TRUE
                        /\ levels = CHOOSE l \in [{p.id : p \in BookPools} -> Levels] : TRUE
    /\ DeskInit
    /\ ActionInit /\ (part # "actions" => tick = 0 /\ growth = 0)
    /\ GateInit /\ (part # "gate" => \A t \in GateTokens : balances[t] = 0)
    /\ FlowInit /\ WdInit /\ BackupInit

\* Bound: the calls of one wallet at a time, each of which waits for the chain.
DeskBound ==
    /\ Cardinality({w \in Wallets : quoting[w] # NULL \/ reading[w] # NULL \/ saving[w]}) <= 1
    /\ deskForks + now + made <= MaxDesk

EdgesNext ==
    /\ UNCHANGED part
    /\ IF part = "receipts" THEN Next ELSE UNCHANGED vars
    /\ IF part = "replay" THEN ReplayNext ELSE UNCHANGED ledgerVars
    /\ IF part = "books" THEN BooksNext ELSE UNCHANGED booksAll
    /\ CASE part = "feed" -> LiveNext /\ UNCHANGED headVars
         [] part = "current" -> LiveNext /\ UNCHANGED <<streamVars, restartCount>>
                                  /\ feedSeq' <= MaxObserved
         [] OTHER -> UNCHANGED liveVars
    /\ IF part = "swap" THEN SwapNext ELSE UNCHANGED swapVars
    /\ IF part = "desk" THEN DeskNext /\ DeskBound' ELSE UNCHANGED deskVars
    /\ IF part = "actions" THEN ActionNext ELSE UNCHANGED actionVars
    /\ CASE part = "gate" -> GateNext
         [] part = "signin" -> SignInNext
         [] OTHER -> UNCHANGED gateVars
    /\ IF part = "flow" THEN FlowNext ELSE UNCHANGED flowVars
    /\ IF part = "watchdog" THEN WdNext ELSE UNCHANGED wdVars
    /\ IF part = "backup" THEN BackupNext ELSE UNCHANGED backupVars

EdgesSpec ==
    EdgesInit /\ [][EdgesNext]_<<part, vars, ledgerVars, booksAll, liveVars, swapVars, deskVars,
                                 actionVars, gateVars, flowVars, wdVars, backupVars>>
=============================================================================
