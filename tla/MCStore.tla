-------------------------------- MODULE MCStore --------------------------------
(***************************************************************************)
(* The store's two halves side by side: how a write transaction gets its   *)
(* turn (WriterTurn) and what the transactions do to the canonical tables  *)
(* (CanonicalStore); and what the detail of a pool shows without the store *)
(* (PoolDetail).  A behaviour exercises the part chosen at the start while *)
(* the others stay where they began.                                       *)
(***************************************************************************)
EXTENDS WriterTurn, CanonicalStore, MCPoolDetail

CONSTANT MaxEpoch       \* bound: rollbacks

VARIABLE part           \* "turn", "tables" or "detail"

\* A first block and two competitors for the next number.
MCHash == { <<0, 0>>, <<1, 1>>, <<1, 2>> }
MCNumber(h) == h[1]
MCParent(h) == <<0, 0>>

StoresInit ==
    /\ part \in {"turn", "tables", "detail"}
    /\ Init /\ StoreInit /\ ChainInit
    /\ DetailInit /\ (part # "detail" => kind = "v3")

StoresNext ==
    /\ UNCHANGED part
    /\ \/ /\ part = "turn" /\ Next
          /\ UNCHANGED <<storeVars, chainVars, detailVars>>
       \/ /\ part = "tables" /\ StoreNext /\ epoch' <= MaxEpoch
          /\ UNCHANGED <<turnVars, chainVars, detailVars>>
       \* Bound: a pool sees a reorganisation of the head only.
       \/ /\ part = "detail" /\ DetailNext /\ Len(chain') >= Len(chain)
          /\ UNCHANGED <<turnVars, storeVars>>

StoresSpec ==
    StoresInit /\ [][StoresNext]_<<part, turnVars, storeVars, chainVars, detailVars>> /\ Fairness
=============================================================================
