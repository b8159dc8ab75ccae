-------------------------- MODULE MCAccountingQueue --------------------------
(***************************************************************************)
(* Two events of two transactions.  The first moves between two positions  *)
(* when a correction changes what it belongs to.                           *)
(***************************************************************************)
EXTENDS AccountingQueue

MCTxOf == [i \in Ids |-> i]

MCFeeds ==
    {[id |-> 1, key |-> "k1", owner |-> "A"], [id |-> 1, key |-> "k2", owner |-> "B"],
     [id |-> 2, key |-> "k2", owner |-> "A"]}

Nothing(S) == [x \in S |-> NULL]

\* An empty store.
NewStore ==
    [ev |-> Nothing(Ids), keyOf |-> Nothing(Ids), posn |-> Nothing(Keys), phase |-> "complete",
     gas |-> {}, moved |-> FALSE, eff |-> Nothing(Ids), cost |-> Nothing(Txs),
     epGas |-> Nothing(Keys)]

\* A store whose two events share a position that an older version accounted for.
OldStore ==
    [NewStore EXCEPT
        !.ev = [i \in Ids |-> [key |-> "k1", owner |-> "A"]],
        !.keyOf = [i \in Ids |-> "k1"],
        !.posn["k1"] = {[id |-> i, owner |-> "A"] : i \in Ids},
        !.eff = [i \in Ids |-> [key |-> "k1", owner |-> "A"]],
        !.gas = Txs,
        !.cost = [t \in Txs |-> [why |-> "exact", key |-> "k1", gas |-> TRUE]],
        !.epGas["k1"] = Txs]

\* A store stopped in the middle of the conversion to deferred accounting.
StoppedStore ==
    [NewStore EXCEPT
        !.ev[1] = [key |-> "k1", owner |-> "A"],
        !.keyOf = [i \in Ids |-> IF i = 1 THEN "k2" ELSE "k1"],
        !.posn["k2"] = {[id |-> 1, owner |-> "B"]},
        !.phase = "events", !.moved = TRUE]

MCLegacy == {OldStore, StoppedStore}
=============================================================================
