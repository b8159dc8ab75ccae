---------------------------- MODULE PositionReplay ----------------------------
(***************************************************************************)
(* The replay of one liquidity position (lp_market_accounting.py): the     *)
(* canonical events of a position are folded into its accounting rows,     *)
(* a state, episodes, per-event effects and ownership intervals, either by *)
(* appending to the published state or by replaying from nothing.          *)
(*                                                                         *)
(* The chain side is a ground truth the ledger never sees: the position's  *)
(* real liquidity and claims and the fees it really accrued.  The code     *)
(* keeps two tokens and treats them alike, so one token is modelled; USD   *)
(* values and timestamps are left out.  NULL stands for an unknown value.  *)
(***************************************************************************)
EXTENDS Integers, Sequences, FiniteSets, SequencesExt, Absent

CONSTANTS
    Owners,        \* the wallets that may hold the NFT
    Protocols,     \* a subset of {"v3", "v4"}
    MaxTx,         \* transactions on the chain
    MaxBlock,      \* blocks they may fall in
    MaxLiq,        \* liquidity added at once, and in all
    MaxRich,       \* pieces of enrichment evidence that arrive
    MaxRollbacks

ZERO == "0x0"

ASSUME ReplayAssumption ==
    /\ Protocols \subseteq {"v3", "v4"}
    /\ MaxTx \in Nat /\ MaxBlock \in Nat /\ MaxLiq \in Nat
    /\ MaxRich \in Nat /\ MaxRollbacks \in Nat
    /\ NULL \notin Owners /\ ZERO \notin Owners

VARIABLES
    proto,      \* the protocol of the position
    log,        \* every event of the position on the canonical chain, in order
    real,       \* its real state: liquidity, claims, owner
    bal,        \* bal[b]: the real state at the end of block b
    blk,        \* the block being produced
    ingested,   \* the blocks lo .. hi the index covers
    withheld,       \* a transaction of block hi whose logs are still unresolved
    rich,       \* <<block, what>>: enrichment stored for the events of a block
    led,        \* the published rows: st, eps, eff, own, idents
    pend,       \* the pending row: NULL or [append |-> BOOLEAN]
    rollbacks,
    txs         \* transactions ever made, orphaned ones included

ledgerVars == <<proto, log, real, bal, blk, ingested, withheld, rich, led, pend, rollbacks, txs>>

Pos(n) == IF n > 0 THEN n ELSE 0

----------------------------------------------------------------------------
(***************************************************************************)
(* The replay.                                                             *)
(***************************************************************************)

\* _new_state
NewState(e) ==
    [liq |-> NULL, pending |-> NULL, owed |-> NULL, settled |-> FALSE,
     owner |-> NULL, minted |-> FALSE, hist |-> FALSE,
     ordinal |-> 0, active |-> NULL, ownOrd |-> 0, own |-> NULL,
     first |-> e.id, last |-> e.id, lastBlk |-> e.blk]

\* _new_episode: an opening seen before keeps its identity, a new one takes
\* the next ordinal.
OpenEpisode(L, e, hist, transferred) ==
    LET known == {i \in L.idents : i.opened = e.id}
        ordinal == IF known # {} THEN (CHOOSE i \in known : TRUE).ordinal
                   ELSE L.st.ordinal + 1
    IN  [L EXCEPT
          !.st.ordinal = IF known = {} THEN ordinal ELSE @,
          !.st.active =
             [ordinal |-> ordinal, opened |-> e.id, closed |-> NULL,
              owner |-> L.st.owner, status |-> "open", hist |-> hist,
              idOk |-> L.st.owner # NULL, transferred |-> transferred,
              ambiguous |-> FALSE, claims |-> FALSE,
              cashOk |-> TRUE, feesOk |-> ~transferred, relOk |-> TRUE, traceOk |-> TRUE,
              dep |-> 0, proc |-> 0, rel |-> 0, prin |-> 0, fees |-> 0]]

\* _save_episode, _save_ownership: INSERT OR REPLACE keyed by the ordinal.
Put(rows, row) == {r \in rows : r.ordinal # row.ordinal} \cup {row}
SaveEpisode(L, ep) == [L EXCEPT !.eps = Put(@, ep)]
SaveOwnership(L, iv) == [L EXCEPT !.own = Put(@, iv)]

Interval(L, e, owner, how, complete) ==
    [ordinal |-> L.st.ownOrd + 1, owner |-> owner, how |-> how,
     start |-> e.id, end |-> NULL, complete |-> complete]
Acquire(L, iv) ==
    SaveOwnership([L EXCEPT !.st.own = iv, !.st.ownOrd = iv.ordinal], iv)

\* _process_transfer: the departing owner's interval and episode end, the new
\* owner's begin.  A burn completes an episode only when nothing is owed.
Transfer(L, e) ==
    LET cur == L.st.owner
        target == IF e.to = ZERO THEN NULL ELSE e.to
        mint == e.from = ZERO
        regular == ~mint /\ target # NULL /\ target # cur
        burn == target = NULL /\ ~mint
        own == L.st.own
        L1 == IF own # NULL /\ (target # cur \/ target = NULL)
              THEN [SaveOwnership(L, [own EXCEPT !.end = e.id,
                                      !.complete = cur = NULL \/ e.from = cur])
                      EXCEPT !.st.own = NULL]
              ELSE L
        act == L1.st.active
        clear == L1.st.liq = 0 /\ L1.st.pending = 0
        done == [act EXCEPT !.closed = e.id, !.claims = burn /\ clear,
                   !.status = CASE regular -> "transferred_out"
                                [] burn /\ clear -> "complete"
                                [] OTHER -> "nft_burn_unsettled"]
        L2 == IF act # NULL /\ (regular \/ burn)
              THEN [SaveEpisode(L1, done)
                      EXCEPT !.st.active = NULL, !.st.settled = burn /\ clear]
              ELSE L1
        L3 == [L2 EXCEPT !.st.owner = target]
        inventory == \/ L3.st.liq = NULL \/ L3.st.liq # 0
                     \/ L3.st.pending # 0 \/ L3.st.owed # 0
        L4 == Acquire(L3, Interval(L3, e, target, IF mint THEN "mint" ELSE "transfer", TRUE))
        L5 == [L4 EXCEPT !.st.minted = mint, !.st.settled = IF mint THEN FALSE ELSE @]
    IN  CASE target = NULL -> L3
          [] target # NULL /\ mint /\ target = cur /\ own # NULL /\ own.how = "mint" ->
               [L3 EXCEPT !.st.minted = TRUE, !.st.settled = FALSE]
          [] target # NULL /\ e.from = cur /\ target = cur ->
               [L3 EXCEPT !.st.minted = FALSE]
          [] OTHER ->
               IF regular /\ inventory
               THEN [OpenEpisode(L5, e, L5.st.hist, TRUE) EXCEPT !.st.settled = FALSE]
               ELSE L5

\* _update_identity: a named owner fills an unknown one and never replaces one.
Identity(L, e) ==
    LET fill == e.owner # NULL /\ L.st.owner = NULL
        L1 == [L EXCEPT !.st.owner = e.owner,
                 !.st.active = IF @ # NULL /\ @.owner = NULL
                               THEN [@ EXCEPT !.owner = e.owner, !.idOk = TRUE] ELSE @]
        how == IF e.mintAfter THEN "mint" ELSE "observed"
    IN  CASE fill /\ L.st.own = NULL -> Acquire(L1, Interval(L1, e, e.owner, how, e.mintAfter))
          [] fill /\ L.st.own # NULL -> L1
          [] e.owner # NULL /\ ~fill /\ e.owner # L.st.owner /\ L.st.active # NULL ->
               [L EXCEPT !.st.active.idOk = FALSE]
          [] OTHER -> L

Effect(dep, proc, rel, prin, fees, exact) ==
    [dep |-> dep, proc |-> proc, rel |-> rel, prin |-> prin, fees |-> fees, exact |-> exact]

\* _financial_effect: a v3 burn only moves principal into the claim, and a v3
\* collect is divided into principal and fees only when the pending principal
\* is known and is either zero or provably paid out in full.
FinancialEffect(s, e) ==
    LET none == Effect(0, 0, 0, 0, 0, TRUE)
        final == /\ e.burnAfter \/ (e.after # NULL /\ e.after.owed = 0)
                 /\ s.pending # NULL /\ e.amt >= s.pending
        divided == s.pending # NULL /\ (final \/ s.pending = 0)
        v4 == IF e.trace
              THEN Effect(Pos(-e.cash), Pos(e.cash), 0, Pos(e.cash - e.fee), Pos(e.fee), TRUE)
              ELSE Effect(0, 0, 0, 0, 0, FALSE)
    IN  CASE e.kind = "transfer" -> none
          [] e.kind # "transfer" /\ proto = "v4" -> v4
          [] proto = "v3" /\ e.kind = "add" -> [none EXCEPT !.dep = e.amt]
          [] proto = "v3" /\ e.kind = "remove" -> [none EXCEPT !.rel = e.amt]
          [] proto = "v3" /\ e.kind = "collect" ->
               IF divided THEN Effect(0, e.amt, 0, s.pending, e.amt - s.pending, TRUE)
               ELSE Effect(0, e.amt, 0, 0, 0, FALSE)
          [] OTHER -> none

\* _apply_effect
ApplyEffect(ep, e, eff) ==
    [ep EXCEPT !.dep = @ + eff.dep, !.proc = @ + eff.proc, !.rel = @ + eff.rel,
       !.prin = @ + eff.prin, !.fees = @ + eff.fees,
       !.feesOk = @ /\ eff.exact,
       !.cashOk = @ /\ (eff.exact \/ proto = "v3"),
       !.traceOk = @ /\ (eff.exact \/ proto = "v3")]

\* _update_claim_state: pending principal follows burns and collects, and the
\* snapshot after the block overrides what is owed.
ClaimState(s, e, eff) ==
    LET pending == CASE proto = "v3" /\ e.kind = "remove" /\ s.pending # NULL -> s.pending + e.amt
                     [] proto = "v3" /\ e.kind = "collect" /\ ~eff.exact -> NULL
                     [] proto = "v3" /\ e.kind = "collect" /\ eff.exact /\ s.pending # NULL ->
                          Pos(s.pending - eff.prin)
                     [] OTHER -> s.pending
        owed == CASE e.burnAfter -> 0
                  [] ~e.burnAfter /\ e.after # NULL -> e.after.owed
                  [] OTHER -> NULL
    IN  [s EXCEPT !.pending = IF owed = 0 /\ s.liq = 0 THEN 0 ELSE pending,
                  !.owed = IF owed # NULL THEN owed ELSE @]

\* _claims_settled
ClaimsSettled(s, e) ==
    /\ s.liq = 0
    /\ IF proto = "v4" THEN e.kind # "transfer" /\ e.trace ELSE s.pending = 0 /\ s.owed = 0

\* The v3 closing rule of _process_event: with an exact lifetime the fees are
\* what was received beyond what was released.
Close(ep, e) ==
    LET exact == proto = "v3" /\ ep.hist /\ ~ep.transferred /\ ~ep.ambiguous /\ ep.relOk
        closed == [ep EXCEPT !.closed = e.id, !.status = "complete", !.claims = TRUE]
    IN  IF exact /\ ep.proc >= ep.rel
        THEN [closed EXCEPT !.prin = ep.rel, !.fees = ep.proc - ep.rel] ELSE closed

\* The evidence half of _process_event: what the event proves about the
\* liquidity before it, whether a zero baseline is proven, and the new state.
EventEvidence(s, e) ==
    LET prev == CASE e.before # NULL -> e.before.liq
                  [] e.before = NULL /\ e.mintAfter -> 0
                  [] OTHER -> s.liq
        next == CASE e.after # NULL -> e.after.liq
                  [] e.after = NULL /\ prev # NULL /\ e.delta # NULL -> prev + e.delta
                  [] OTHER -> NULL
        liq == IF next # NULL /\ next < 0 THEN NULL ELSE next
        empty == \/ e.mintAfter
                 \/ /\ ~(e.before # NULL /\ e.before.owed \notin {NULL, 0})
                    /\ \/ e.before # NULL /\ e.before.owed = 0
                       \/ s.minted \/ s.settled
                       \/ s.pending = 0 /\ s.owed = 0
        zeroLiq == e.mintAfter \/ prev = 0 \/ (s.minted /\ e.kind = "add" /\ prev = NULL)
    IN  [prev |-> prev, empty |-> empty, zeroLiq |-> zeroLiq,
         liq |-> CASE liq # NULL -> liq
                   [] liq = NULL /\ e.delta # NULL /\ prev = NULL -> NULL
                   [] OTHER -> s.liq]

\* _process_event, the baseline: an event that finds the position empty proves
\* its history, and the observed owner's interval with it.
Baseline(L, e, ev) ==
    LET M == [L EXCEPT !.st.liq = ev.liq, !.st.hist = TRUE,
                       !.st.pending = IF @ = NULL THEN 0 ELSE @,
                       !.st.owed = IF e.mintAfter THEN 0 ELSE @]
        iv == [L.st.own EXCEPT !.complete = TRUE]
    IN  CASE ~(ev.zeroLiq /\ ev.empty) -> [L EXCEPT !.st.liq = ev.liq]
          [] ev.zeroLiq /\ ev.empty /\ L.st.own # NULL /\ L.st.own.how = "observed" ->
               SaveOwnership([M EXCEPT !.st.own = iv], iv)
          [] OTHER -> M

\* _process_event, the episode the event belongs to: liquidity added to an
\* empty position begins one, and closes one that was never seen to end.
Begun(L, e, ev) ==
    LET act == L.st.active
        begins == e.kind = "add" /\ e.delta > 0 /\ (act = NULL \/ ev.prev = 0)
        ambiguous == act # NULL \/ (ev.zeroLiq /\ ~ev.empty)
        ended == IF act = NULL THEN L
                 ELSE [SaveEpisode(L, [act EXCEPT !.closed = e.id, !.status = "ambiguous_reentry",
                                                  !.ambiguous = TRUE, !.claims = FALSE])
                         EXCEPT !.st.active = NULL]
        opened == [OpenEpisode(ended, e, ev.zeroLiq /\ ev.empty, FALSE) EXCEPT !.st.settled = FALSE]
    IN  CASE begins /\ ~ambiguous -> opened
          [] begins /\ ambiguous ->
               [opened EXCEPT !.st.active.ambiguous = TRUE, !.st.active.feesOk = FALSE,
                              !.st.active.status = "ambiguous_reentry"]
          [] ~begins /\ act = NULL /\ e.kind \in {"remove", "collect", "checkpoint"} ->
               [OpenEpisode(L, e, FALSE, FALSE) EXCEPT !.st.active.status = "partial_history"]
          [] OTHER -> L

\* _process_event, the episode after the effect, in the position's state s.
Concluded(L, e, s) ==
    LET closes == s.active # NULL /\ s.liq = 0 /\ ~(e.kind = "remove" /\ e.delta = 0)
    IN  CASE closes /\ ClaimsSettled(s, e) ->
               SaveEpisode([L EXCEPT !.st = [s EXCEPT !.settled = TRUE, !.active = NULL]],
                           Close(s.active, e))
          [] closes /\ ~ClaimsSettled(s, e) ->
               [L EXCEPT !.st = [s EXCEPT !.active.status = "awaiting_claim",
                                          !.active.claims = FALSE]]
          [] ~closes /\ s.active # NULL /\ s.liq \notin {NULL, 0} ->
               [L EXCEPT !.st = [s EXCEPT !.active.status = "open"]]
          [] OTHER -> [L EXCEPT !.st = s]

\* _process_event, the effect: applied to the open episode, to the claims and
\* saved with the episode it was attributed to.
WithEffect(L, e, eff) ==
    LET paid == IF L.st.active = NULL THEN L.st
                ELSE [L.st EXCEPT !.active = ApplyEffect(@, e, eff)]
        episode == IF e.kind = "transfer" \/ L.st.active = NULL THEN NULL
                   ELSE L.st.active.ordinal
    IN  [Concluded(L, e, ClaimState(paid, e, eff))
           EXCEPT !.eff = {f \in @ : f.id # e.id}
                          \cup {[id |-> e.id, blk |-> e.blk, episode |-> episode, eff |-> eff]},
                  !.st.last = e.id, !.st.lastBlk = e.blk]

Effected(L, e) == WithEffect(L, e, FinancialEffect(L.st, e))
Evidenced(L, e, ev) == Effected(Begun(Baseline(L, e, ev), e, ev), e)
Identified(L, e) == Evidenced(L, e, EventEvidence(L.st, e))

\* _process_event: whose the position is, what the event proves, its episode
\* and its effect.
ProcessEvent(L, e) ==
    Identified(IF e.kind = "transfer" THEN Transfer(L, e) ELSE Identity(L, e), e)

----------------------------------------------------------------------------
(***************************************************************************)
(* Rows: what a replay reads and what it leaves in the tables.             *)
(***************************************************************************)

\* The position's pinned state as an enrichment reads it: v4 keeps no claims,
\* so only an empty position proves that nothing is owed.
Snapshot(r) ==
    [liq |-> r.liq,
     owed |-> IF proto = "v4" /\ r.liq # 0 THEN NULL ELSE r.owed]

\* The first half of _derive: a snapshot counts only at the edge of its block,
\* and a mint or burn logged later in the transaction proves the boundary.
PreparedEvents(evs) ==
    LET View(i) ==
          LET e == evs[i]
              sameBlock == {j \in DOMAIN evs : evs[j].blk = e.blk}
              sameTx == {j \in DOMAIN evs : evs[j].tx = e.tx}
              transfers(z) == {j \in sameTx : j > i /\ evs[j].kind = "transfer"
                                              /\ (IF z = "mint" THEN evs[j].from ELSE evs[j].to) = ZERO}
          IN  [id |-> e.id, blk |-> e.blk, tx |-> e.tx, kind |-> e.kind, delta |-> e.delta,
               amt |-> e.amt, cash |-> e.cash, fee |-> e.fee, from |-> e.from, to |-> e.to,
               owner |-> e.owner,
               trace |-> <<e.blk, "trace">> \in rich,
               before |-> IF <<e.blk, "before">> \in rich /\ \A j \in sameBlock : j >= i
                          THEN Snapshot(bal[e.blk - 1]) ELSE NULL,
               after |-> IF <<e.blk, "after">> \in rich /\ \A j \in sameBlock : j <= i
                         THEN Snapshot(bal[e.blk]) ELSE NULL,
               mintAfter |-> /\ e.kind = "add" /\ transfers("mint") # {}
                             /\ \A j \in sameTx : evs[j].kind = "add" => j >= i,
               burnAfter |-> /\ e.kind = "collect"
                             /\ \E t \in transfers("burn") :
                                   \A j \in sameTx : evs[j].kind = "collect" /\ j < t => j <= i]
    IN  [i \in DOMAIN evs |-> View(i)]

\* _derive: fold the events, then save the open episode and the position.
SaveOpen(L) == IF L.st.active = NULL THEN L ELSE SaveEpisode(L, L.st.active)
Derive(L, evs) == SaveOpen(FoldLeft(ProcessEvent, L, PreparedEvents(evs)))

EmptyLedger == [st |-> NULL, eps |-> {}, eff |-> {}, own |-> {}, saved |-> NULL]

MaxOf(S) == IF S = {} THEN 0 ELSE Max(S)

\* Mutant: a full replay numbers the episodes afresh.
Mutant_Restored(l) == [idents |-> {}, ordinal |-> 0]

\* restore_episode_identity: a full replay knows every opening it has seen.
Restored(l) ==
    [idents |-> {[opened |-> p.opened, ordinal |-> p.ordinal] : p \in l.eps}
                \cup (IF l.saved = NULL THEN {}
                      ELSE {i \in l.saved.idents : \A p \in l.eps : p.opened # i.opened}),
     ordinal |-> MaxOf({p.ordinal : p \in l.eps}
                       \cup (IF l.st = NULL THEN {} ELSE {l.st.ordinal})
                       \cup (IF l.saved = NULL THEN {} ELSE {l.saved.ordinal}))]

Rows(M, saved) == [st |-> M.st, eps |-> M.eps, eff |-> M.eff, own |-> M.own, saved |-> saved]

\* A full replay writes exactly the rows it derives and drops the saved identities.
FullReplay(l, evs) ==
    IF evs = <<>> THEN EmptyLedger
    ELSE LET id == Restored(l)
             start == [st |-> [NewState(evs[1]) EXCEPT !.ordinal = id.ordinal],
                       eps |-> {}, eff |-> {}, own |-> {}, idents |-> id.idents]
         IN  Rows(Derive(start, evs), NULL)

AppendRows(l, evs) ==
    Rows(Derive([st |-> l.st, eps |-> l.eps, eff |-> l.eff, own |-> l.own, idents |-> {}], evs),
         NULL)

\* _append_position: refused for a missing position, for an event already
\* projected or before the last one, and for a second look at the last block.
CanAppend(l, evs) ==
    /\ evs # <<>>
    /\ l.st # NULL
    /\ \A i \in DOMAIN evs : evs[i].id > l.st.last /\ evs[i].blk # l.st.lastBlk

----------------------------------------------------------------------------
(***************************************************************************)
(* The chain: what the position's contract really does.                    *)
(***************************************************************************)
EmptyPosition == [liq |-> 0, owed |-> 0, owner |-> NULL]

Raw(kind, delta, amt, cash, fee, from, to, owner, acc, post) ==
    [kind |-> kind, delta |-> delta, amt |-> amt, cash |-> cash, fee |-> fee,
     from |-> from, to |-> to, owner |-> owner, acc |-> acc, post |-> post]

Moved(from, to, post) == Raw("transfer", NULL, 0, 0, 0, from, to, NULL, 0, post)

\* The chain runs ahead of the index: its steps are independent of the index's
\* own, so nothing is lost by taking them first, and again after a rollback.
Unseen == pend = NULL /\ led = EmptyLedger /\ ingested.hi = ingested.lo - 1 /\ rollbacks = 0

\* One transaction: its events share a number and a block.
Emit(raws, post, newBlock) ==
    LET b == IF newBlock \/ blk = 0 THEN blk + 1 ELSE blk
        tx == txs + 1
        at == [i \in DOMAIN raws |->
                 [id |-> Len(log) + i, blk |-> b, tx |-> tx,
                  kind |-> raws[i].kind, delta |-> raws[i].delta, amt |-> raws[i].amt,
                  cash |-> raws[i].cash, fee |-> raws[i].fee, from |-> raws[i].from,
                  to |-> raws[i].to, owner |-> raws[i].owner, acc |-> raws[i].acc,
                  post |-> raws[i].post]]
    IN  /\ tx <= MaxTx /\ b <= MaxBlock
        /\ Unseen \/ (rollbacks > 0 /\ b > ingested.hi)
        /\ blk' = b
        /\ log' = log \o at
        /\ real' = post
        /\ bal' = [bal EXCEPT ![b] = post]
        /\ txs' = tx
        /\ UNCHANGED <<proto, ingested, withheld, rich, led, pend, rollbacks>>

\* A v4 call pays principal and fees at once; a v3 call leaves both as a claim.
Flow(kind, d, fee, owner, post) ==
    LET cash == (IF kind = "add" THEN -d ELSE IF kind = "remove" THEN d ELSE 0) + fee
    IN  Raw(kind, IF kind = "remove" THEN -d ELSE d, IF kind = "collect" THEN 0 ELSE d,
            cash, fee, NULL, NULL, owner, fee, post)
After(liq, claim) == [real EXCEPT !.liq = liq, !.owed = IF proto = "v4" THEN 0 ELSE claim]

MintTx(o, d, named, nb) ==
    /\ real.owner = NULL /\ \A i \in DOMAIN log : log[i].kind # "transfer"
    /\ LET post == [After(d, 0) EXCEPT !.owner = o]
           add == Flow("add", d, 0, IF named THEN o ELSE NULL, post)
       IN  Emit(IF proto = "v3" THEN <<add, Moved(ZERO, o, post)>>
                ELSE <<Moved(ZERO, o, [post EXCEPT !.liq = 0]), add>>, post, nb)

AddTx(d, fee, nb) ==
    /\ real.owner # NULL /\ real.liq + d <= MaxLiq /\ (fee = 0 \/ real.liq > 0)
    /\ LET post == After(real.liq + d, real.owed + fee)
       IN  Emit(<<Flow("add", d, fee, real.owner, post)>>, post, nb)

RemoveTx(d, fee, nb) ==
    /\ real.owner # NULL /\ d <= real.liq
    /\ LET post == After(real.liq - d, real.owed + d + fee)
       IN  Emit(<<Flow("remove", d, fee, real.owner, post)>>, post, nb)

\* v3: a zero burn updates the claim, then all or part of it is collected.
\* v4: a zero-liquidity call pays the fees.
CollectTx(fee, keep, nb) ==
    /\ real.owner # NULL /\ (fee = 0 \/ real.liq > 0)
    /\ IF proto = "v4"
       THEN keep = 0 /\ fee > 0 /\ Emit(<<Flow("collect", 0, fee, real.owner, real)>>, real, nb)
       ELSE LET mid == After(real.liq, real.owed + fee)
                post == After(real.liq, keep)
                got == Raw("collect", NULL, mid.owed - keep, 0, 0, NULL, NULL, real.owner, 0, post)
            IN  /\ keep < mid.owed
                /\ Emit(IF real.liq > 0 THEN <<Flow("checkpoint", 0, fee, real.owner, mid), got>>
                        ELSE <<got>>, post, nb)

TransferTx(o, nb) ==
    /\ real.owner # NULL /\ o # real.owner
    /\ LET post == [real EXCEPT !.owner = o]
       IN  Emit(<<Moved(real.owner, o, post)>>, post, nb)

\* The v3 manager burns an NFT only when nothing is left, usually collecting
\* the last claim in the same transaction; the v4 manager removes and burns.
BurnTx(nb) ==
    /\ real.owner # NULL
    /\ LET post == [EmptyPosition EXCEPT !.owner = NULL]
           last == IF proto = "v3"
                   THEN Raw("collect", NULL, real.owed, 0, 0, NULL, NULL, real.owner, 0, After(0, 0))
                   ELSE Flow("remove", real.liq, 0, real.owner, After(0, 0))
       IN  /\ proto = "v3" => real.liq = 0
           /\ proto = "v4" => real.liq > 0
           /\ Emit(IF proto = "v3" /\ real.owed = 0 THEN <<Moved(real.owner, ZERO, post)>>
                   ELSE <<last, Moved(real.owner, ZERO, post)>>, post, nb)

ChainStep ==
    \E nb \in BOOLEAN :
       \/ \E o \in Owners, d \in 1..MaxLiq, named \in BOOLEAN : MintTx(o, d, named, nb)
       \/ \E d \in 1..MaxLiq, fee \in 0..1 : AddTx(d, fee, nb) \/ RemoveTx(d, fee, nb)
       \/ \E fee \in 0..1, keep \in 0..1 : CollectTx(fee, keep, nb)
       \/ \E o \in Owners : TransferTx(o, nb)
       \/ BurnTx(nb)

----------------------------------------------------------------------------
(***************************************************************************)
(* The index and the book.                                                 *)
(***************************************************************************)
Covered(e) == e.blk >= ingested.lo /\ e.blk <= ingested.hi /\ e.tx # withheld

\* _event_rows: the canonical events mapped to the position, in chain order.
EventRows == SelectSeq(log, Covered)

\* _queue_position_keys for this position: proofs are only ever lost.
Queue(append) == pend' = [append |-> append /\ (pend = NULL \/ pend.append)]

\* The live lane stores a block; a transaction whose pool is unknown is withheld back.
Ingest(hold) ==
    /\ ingested.hi < blk
    /\ ingested' = [ingested EXCEPT !.hi = @ + 1]
    /\ withheld' = IF hold THEN LET b == ingested.hi + 1
                            IN  CHOOSE t \in {log[i].tx : i \in {j \in DOMAIN log : log[j].blk = b}} :
                                   \A i \in DOMAIN log : log[i].blk = b => log[i].tx <= t
               ELSE withheld
    /\ hold => withheld = NULL /\ \E i \in DOMAIN log : log[i].blk = ingested.hi + 1
    /\ Queue(TRUE)
    /\ UNCHANGED <<proto, log, real, bal, blk, rich, led, rollbacks, txs>>

\* Its identity is resolved and the logs are replayed into the store.
Resolve ==
    /\ withheld # NULL
    /\ withheld' = NULL
    /\ Queue(TRUE)
    /\ UNCHANGED <<proto, log, real, bal, blk, ingested, rich, led, rollbacks, txs>>

\* The history lane: blocks before the index first started.
Backfill ==
    /\ ingested.lo > 1 /\ blk >= ingested.lo - 1
    /\ ingested' = [ingested EXCEPT !.lo = @ - 1]
    /\ Queue(TRUE)
    /\ UNCHANGED <<proto, log, real, bal, blk, withheld, rich, led, rollbacks, txs>>

\* Enrichment rewrites stored events, so only a full replay is safe.
Enrich(b, what) ==
    /\ b \in ingested.lo..ingested.hi /\ <<b, what>> \notin rich
    /\ Cardinality(rich) < MaxRich
    /\ \E i \in DOMAIN log : log[i].blk = b /\ Covered(log[i])
    /\ what = "trace" => proto = "v4"
    /\ rich' = rich \cup {<<b, what>>}
    /\ Queue(FALSE)
    /\ UNCHANGED <<proto, log, real, bal, blk, ingested, withheld, led, rollbacks, txs>>

\* _rollback_deferred: the rows vanish at once, the identities are kept aside.
RollbackReplay(a) ==
    /\ rollbacks < MaxRollbacks
    /\ a \in (ingested.lo - 1)..(ingested.hi - 1)
    /\ LET touched == \/ \E i \in DOMAIN log : Covered(log[i]) /\ log[i].blk > a
                      \/ \E f \in led.eff : f.blk > a
                      \/ led.st # NULL /\ led.st.lastBlk > a
       IN  /\ pend' = IF touched THEN [append |-> FALSE] ELSE pend
           /\ led' = IF ~touched THEN led
                     ELSE [EmptyLedger EXCEPT
                             !.saved = IF led.st = NULL THEN led.saved
                                       ELSE [ordinal |-> led.st.ordinal,
                                             idents |-> {[opened |-> p.opened, ordinal |-> p.ordinal]
                                                           : p \in led.eps}]]
    /\ log' = SelectSeq(log, LAMBDA e : e.blk <= a)
    /\ withheld' = IF withheld # NULL /\ \E i \in DOMAIN log : log[i].tx = withheld /\ log[i].blk > a
               THEN NULL ELSE withheld
    /\ real' = bal[a]
    /\ blk' = a
    /\ bal' = [b \in DOMAIN bal |-> IF b <= a THEN bal[b] ELSE EmptyPosition]
    /\ rich' = {w \in rich : w[1] <= a}
    /\ ingested' = [ingested EXCEPT !.hi = a]
    /\ rollbacks' = rollbacks + 1
    /\ UNCHANGED <<proto, txs>>

\* _prepare_pending and _publish_pending, on one snapshot.
Project ==
    /\ pend # NULL
    /\ LET missing == SelectSeq(EventRows, LAMBDA e : \A f \in led.eff : f.id # e.id)
       IN  led' = IF pend.append /\ CanAppend(led, missing) THEN AppendRows(led, missing)
                  ELSE FullReplay(led, EventRows)
    /\ pend' = NULL
    /\ UNCHANGED <<proto, log, real, bal, blk, ingested, withheld, rich, rollbacks, txs>>

ReplayInit ==
    /\ proto \in Protocols
    /\ log = <<>> /\ real = EmptyPosition /\ blk = 0
    /\ bal = [b \in 0..MaxBlock |-> EmptyPosition]
    /\ \E start \in 0..(MaxBlock - 1) : ingested = [lo |-> start + 1, hi |-> start]
    /\ withheld = NULL /\ rich = {} /\ led = EmptyLedger /\ pend = NULL /\ rollbacks = 0 /\ txs = 0

IndexStep ==
    \/ \E hold \in BOOLEAN : Ingest(hold)
    \/ Resolve
    \/ Backfill
    \/ \E b \in 1..MaxBlock, what \in {"before", "after", "trace"} : Enrich(b, what)
    \/ \E a \in 0..MaxBlock : RollbackReplay(a)

ReplayNext == ChainStep \/ IndexStep \/ Project

ReplaySpec == ReplayInit /\ [][ReplayNext]_ledgerVars

----------------------------------------------------------------------------
UpToDate == pend = NULL
Complete(p) == p.status = "complete" /\ p.hist /\ ~p.transferred /\ ~p.ambiguous /\ p.feesOk
Span(p) == {i \in DOMAIN log : i >= p.opened /\ i <= p.closed}
SumAcc(S) == FoldSet(LAMBDA i, n : n + log[i].acc, 0, S)
SumRel(S) == FoldSet(LAMBDA i, n : n + (IF log[i].kind = "remove" THEN log[i].amt ELSE 0), 0, S)

\* However the events arrived, one block at a time, late, backwards, with
\* evidence added afterwards or again after a rollback, the published rows are
\* those of a replay of every covered event from nothing, and replaying once
\* more under the published identities changes nothing.
AppendIsReplay ==
    UpToDate /\ EventRows # <<>> =>
        /\ led = FullReplay(led, EventRows)
        /\ led.saved = NULL

\* The effects are attributed to an episode that spans them, and an episode's
\* totals are the sums of its effects: no flow is lost, counted twice or left
\* in an episode whose ordinal another one took over.
EpisodesSumEffects ==
    UpToDate => \A f \in led.eff :
        /\ f.episode # NULL =>
             \E p \in led.eps : p.ordinal = f.episode /\ p.opened <= f.id
                                /\ (p.closed = NULL \/ f.id <= p.closed)
        /\ \A p \in led.eps :
             LET mine == {g \in led.eff : g.episode = p.ordinal}
                 Total(g, n) == n + g.eff.dep + 7 * g.eff.proc + 49 * g.eff.rel
             IN  p.dep + 7 * p.proc + 49 * p.rel = FoldSet(Total, 0, mine)

\* With its events covered without a gap, an episode the book calls complete,
\* with a proven beginning and exact fees, really is over: the position holds
\* no liquidity and owes nothing, its withdrawals are what the burns released
\* and its fees are exactly those the position accrued while it was open.
CompleteIsTrue ==
    UpToDate /\ withheld = NULL => \A p \in led.eps :
        Complete(p) =>
            /\ log[p.closed].post.liq = 0 /\ log[p.closed].post.owed = 0
            /\ p.fees = SumAcc(Span(p))
            /\ p.prin = SumRel(Span(p))

\* What the book says is known about the position is what is true of it at the
\* end of the covered range: its liquidity, its owner, and a pending principal
\* that never exceeds the real claim.
KnownIsTrue ==
    UpToDate /\ withheld = NULL /\ led.st # NULL =>
        LET now == bal[ingested.hi]
        IN  /\ led.st.liq \in {NULL, now.liq}
            /\ led.st.owner \in {NULL, now.owner}
            /\ led.st.pending = NULL \/ proto = "v4" \/ led.st.pending <= now.owed

\* The published ledger is true, whichever path of ingestion, late evidence,
\* backfill and rollback led to it: it is what a replay from nothing derives,
\* its totals add up, and what it calls complete or known is so on the chain.
LedgerTrue == AppendIsReplay /\ EpisodesSumEffects /\ CompleteIsTrue /\ KnownIsTrue

\* An episode keeps its identity for as long as its opening event stands,
\* through replays, backfilled history and rollbacks.
IdentityKept ==
    [][\A p \in led.eps :
          p.opened <= Len(log') /\ log'[p.opened] = log[p.opened] =>
             /\ \A q \in led'.eps : q.opened = p.opened => q.ordinal = p.ordinal
             /\ led'.saved # NULL /\ led'.st = NULL =>
                  \E q \in led'.saved.idents : q.opened = p.opened /\ q.ordinal = p.ordinal]_ledgerVars

\* What holds of the published ledger, and of an episode from step to step.
LedgerKept == []LedgerTrue /\ IdentityKept
=============================================================================
