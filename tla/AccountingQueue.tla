---------------------------- MODULE AccountingQueue ----------------------------
(***************************************************************************)
(* The deferred accounting projection (AccountBook, deferred=True).        *)
(* Ingestion and rollback only queue the positions they touch; a projector *)
(* prepares each queued position on a snapshot, in parallel, and publishes *)
(* it later in a writer transaction, while events keep being added,        *)
(* corrected, moved to another position or rolled back.                    *)
(*                                                                         *)
(* What a replay computes is the subject of PositionReplay.  Here a        *)
(* published position is the set of event contents it was derived from, an *)
(* event's content is its owner, and a position has one episode.  The      *)
(* block of an event is its transaction's number.                          *)
(***************************************************************************)
EXTENDS Integers, FiniteSets, Absent

CONSTANTS
    Keys, Holders,
    Ids, Txs, TxOf,      \* event ids, transactions, and the function between them
    MaxChanges,          \* ingestion transactions after the start
    MaxEpoch,            \* rollbacks
    MaxFailures,         \* preparations that run out of time
    MaxCrashes,
    MaxPages,            \* pages of identity hints read
    Feeds,               \* the versions events may have: a set of [id, key, owner]
    Legacy               \* the stores the process may find: a set of records

ASSUME BooksAssumption ==
    /\ Ids \subseteq Nat \ {0} /\ Txs \subseteq Nat \ {0} /\ TxOf \in [Ids -> Txs]
    /\ IsFiniteSet(Keys) /\ NULL \notin Keys \cup Holders
    /\ NULL \notin [key : Keys, owner : Holders]
    /\ \A rows \in SUBSET [id : Ids, owner : Holders] : rows # NULL
    /\ NULL \notin [why : {"missing_transaction", "shared_or_unmapped_position", "shared_position",
                            "exact"}, key : Keys \cup {NULL}, gas : BOOLEAN]
    /\ NULL \notin [gen : Nat, append : BOOLEAN, cost : BOOLEAN, ready : BOOLEAN, cursor : Nat]
    /\ Feeds \subseteq [id : Ids, key : Keys, owner : Holders]
    /\ {MaxChanges, MaxEpoch, MaxFailures, MaxCrashes, MaxPages} \subseteq Nat

----------------------------------------------------------------------------
(* What a ledger says of its positions and transactions *)

EffectsOf(f, k) == {i \in Ids : f[i] # NULL /\ f[i].key = k}

\* _rebuild_tx_cost_batch: a cost belongs to an episode only when one position
\* accounts for every liquidity event of the transaction.
CostIn(f, stored, receipts, t) ==
    LET mine == {i \in Ids : f[i] # NULL /\ TxOf[i] = t}
        keys == {f[i].key : i \in mine}
        unmapped == \E i \in stored : TxOf[i] = t /\ f[i] = NULL
        only == CHOOSE k \in keys : TRUE
        why == CASE t \notin receipts -> "missing_transaction"
                 [] t \in receipts /\ unmapped -> "shared_or_unmapped_position"
                 [] t \in receipts /\ ~unmapped /\ Cardinality(keys) # 1 -> "shared_position"
                 [] OTHER -> "exact"
    IN  IF mine = {} THEN NULL
        ELSE [why |-> why, key |-> IF why = "exact" THEN only ELSE NULL, gas |-> t \in receipts]

\* _refresh_episode_cost_batch: NULL as soon as one transaction is not exact.
GasOf(f, c, k) ==
    LET txs == {TxOf[i] : i \in EffectsOf(f, k)}
    IN  IF txs # {} /\ \A t \in txs : c[t] # NULL /\ c[t].key = k THEN txs ELSE NULL

\* A store's costs are those of its effects, and unless an event ever changed its
\* position, effects and gas are where the events are.
CostsConsistent(s) ==
    LET stored == {i \in Ids : s.ev[i] # NULL}
    IN  /\ \A i \in Ids : s.eff[i] # NULL => i \in stored /\ s.posn[s.eff[i].key] # NULL
        /\ \A t \in Txs : s.cost[t] = CostIn(s.eff, stored, s.gas, t)
        /\ ~s.moved =>
              /\ \A i \in stored : /\ s.keyOf[i] \in {NULL, s.ev[i].key}
                                   /\ s.eff[i] # NULL => s.eff[i].key = s.ev[i].key
              /\ \A k \in Keys : s.epGas[k] = GasOf(s.eff, s.cost, k)

\* A position of a store is derived from exactly its events.
DerivedExactly(s, k) ==
    LET mapped == {i \in Ids : s.ev[i] # NULL /\ s.keyOf[i] = k}
    IN  /\ (IF s.posn[k] = NULL THEN {} ELSE s.posn[k])
             = {[id |-> i, owner |-> s.ev[i].owner] : i \in mapped}
        /\ \A i \in mapped : s.eff[i] = [key |-> k, owner |-> s.ev[i].owner]
        /\ EffectsOf(s.eff, k) \subseteq mapped

\* What another version, or an earlier run, leaves: rows may be stale, costs match
\* the effects, and a converted ledger is exact.
ASSUME LegacyAssumption ==
    \A s \in Legacy :
        /\ s.ev \in [Ids -> [key : Keys, owner : Holders] \cup {NULL}]
        /\ s.eff \in [Ids -> [key : Keys, owner : Holders] \cup {NULL}]
        /\ s.keyOf \in [Ids -> Keys \cup {NULL}]
        /\ s.posn \in [Keys -> {NULL} \cup SUBSET [id : Ids, owner : Holders]]
        /\ s.phase \in {"events", "complete"}
        /\ CostsConsistent(s)
        /\ s.phase = "complete" =>
              /\ \A i \in Ids : s.ev[i] # NULL => s.keyOf[i] = s.ev[i].key
              /\ \A k \in Keys : DerivedExactly(s, k)

VARIABLES
    ev,        \* events: NULL or [key, owner]
    keyOf,     \* lp_accounting_event_keys
    gas,       \* the transactions whose receipt cost is stored
    pending,       \* lp_accounting_pending: NULL or [gen, append, cost, ready, cursor]
    count,     \* the pending_accounting counter
    dirty,     \* lp_accounting_meta 'dirty'
    owing,     \* lp_accounting_pending_costs
    hints,     \* lp_accounting_pending_identities
    eff,       \* lp_accounting_effects: NULL or [key, owner]
    posn,      \* lp_accounting_positions and episodes: NULL or a set of [id, owner]
    cost,      \* lp_accounting_tx_costs: NULL or [why, key, gas]
    epGas,     \* the gas of each position's episode: NULL or a set of transactions
    epoch, phase, cursor, posLeft,
    pass,      \* the positions the current pass selected and has not prepared
    prep,      \* prepared projections that are not yet published
    deferred, failures,
    hp,        \* a prepared page of identity hints
    changes, crashes, pages,
    moved      \* whether an event ever changed its position

eventVars == <<ev, keyOf, gas>>
queueVars == <<pending, count, dirty, owing, hints>>
bookVars == <<eff, posn, cost, epGas>>
bootVars == <<phase, cursor, posLeft>>
passVars == <<pass, prep, deferred, failures>>
runVars == <<changes, crashes, pages, moved>>
booksAll == <<eventVars, queueVars, bookVars, epoch, bootVars, passVars, hp,
              runVars>>

Known(S) == S \ {NULL}
Stored == {i \in Ids : ev[i] # NULL}
Mapped(k) == {i \in Stored : keyOf[i] = k}
LedgerHolders(k) == IF posn[k] = NULL THEN {} ELSE {r.owner : r \in posn[k]}

----------------------------------------------------------------------------
(* Queueing *)

\* _queue_position_keys: a new pending starts with its proofs, an old one can only
\* lose them; without hints the identities must be collected again.  "append" and
\* "costOnly" are the keys for which that much is proven of the change.
QueuedKeys(K, append, costOnly, hinted) ==
    [k \in Keys |->
       IF k \notin K THEN pending[k]
       ELSE LET r == IF pending[k] # NULL THEN pending[k]
                     ELSE [gen |-> 0, append |-> k \in append, cost |-> k \in costOnly,
                           ready |-> hinted, cursor |-> 0]
            IN  [gen |-> r.gen + 1, append |-> r.append /\ k \in append,
                 cost |-> r.cost /\ k \in costOnly,
                 ready |-> r.ready /\ hinted, cursor |-> IF hinted THEN r.cursor ELSE 0]]

BooksIdle(rows, ph) == ph = "complete" /\ \A k \in Keys : rows[k] = NULL

\* The counter moves by the rows inserted; an empty request may find the book idle.
Requeue(K, append, costOnly, hinted) ==
    /\ pending' = QueuedKeys(K, append, costOnly, hinted)
    /\ count' = count + Cardinality({k \in K : pending[k] = NULL})
    /\ dirty' = IF K # {} THEN TRUE ELSE dirty /\ ~BooksIdle(pending, phase')

\* _apply: map the events, queue the old and the new position with what is
\* proven about the change, and hint every holder that is affected.
Apply(new, transactionOnly) ==
    LET D == DOMAIN new
        keys(i) == Known({keyOf[i], new[i].key})
        K == UNION {keys(i) : i \in D}
        touching(k) == {i \in D : k \in keys(i)}
        append == {k \in K : \A i \in touching(k) :
                                 keyOf[i] = NULL /\ eff[i] = NULL /\ k = new[i].key}
        proven(i, k) == transactionOnly /\ keyOf[i] = new[i].key /\ k = keyOf[i] /\ eff[i] # NULL
        costOnly == {k \in K : \A i \in touching(k) : proven(i, k)}
        moves(i) == \/ keyOf[i] \notin {NULL, new[i].key}
                    \/ ev[i] # NULL /\ ev[i].key # new[i].key
    IN  /\ changes < MaxChanges
        /\ changes' = changes + 1
        /\ moved' = (moved \/ \E i \in D : moves(i))
        /\ ev' = [i \in Ids |-> IF i \in D THEN new[i] ELSE ev[i]]
        /\ keyOf' = [i \in Ids |-> IF i \in D THEN new[i].key ELSE keyOf[i]]
        /\ Requeue(K, append, costOnly, TRUE)
        /\ owing' = [k \in Keys |-> owing[k] \cup
                       {TxOf[i] : i \in {j \in touching(k) : proven(j, k)}}]
        /\ hints' = [k \in Keys |-> IF k \notin K THEN hints[k]
                       ELSE hints[k] \cup {new[i].owner : i \in touching(k)} \cup LedgerHolders(k)]
        /\ UNCHANGED <<bookVars, epoch, bootVars, passVars, hp, crashes, pages>>

NewEvent(i, k, o) ==
    /\ ev[i] = NULL
    /\ Apply([x \in {i} |-> [key |-> k, owner |-> o]], FALSE) /\ UNCHANGED gas

\* A correction of a stored event: another owner, or another position.
Correct(i, k, o) ==
    /\ ev[i] # NULL /\ ev[i] # [key |-> k, owner |-> o]
    /\ Apply([x \in {i} |-> [key |-> k, owner |-> o]], FALSE) /\ UNCHANGED gas

\* A receipt arrives: every event of the transaction is written again.
Receipt(t) ==
    /\ t \notin gas /\ \E i \in Stored : TxOf[i] = t
    /\ gas' = gas \cup {t}
    /\ Apply([i \in {j \in Stored : TxOf[j] = t} |-> ev[i]], TRUE)

\* _rollback_deferred: the financial rows of every touched position vanish at
\* once and the position is queued under the next epoch.
RollbackBook(a) ==
    LET above(i) == TxOf[i] > a
        K == {k \in Keys : \/ \E i \in Mapped(k) : above(i)
                           \/ \E i \in EffectsOf(eff, k) : above(i)
                           \/ posn[k] # NULL /\ \E r \in posn[k] : above(r.id)}
        txs == {TxOf[i] : i \in UNION {EffectsOf(eff, k) : k \in K}}
    IN  /\ epoch < MaxEpoch /\ epoch' = epoch + 1
        /\ \E t \in Txs : t > a
        /\ ev' = [i \in Ids |-> IF above(i) THEN NULL ELSE ev[i]]
        /\ keyOf' = [i \in Ids |-> IF ev'[i] = NULL THEN NULL ELSE keyOf[i]]
        /\ gas' = {t \in gas : t <= a}
        /\ UNCHANGED bootVars
        /\ Requeue(K, {}, {}, FALSE)
        /\ hints' = [k \in Keys |-> IF k \in K THEN {} ELSE hints[k]]
        /\ eff' = [i \in Ids |-> IF eff[i] # NULL /\ eff[i].key \in K THEN NULL ELSE eff[i]]
        /\ posn' = [k \in Keys |-> IF k \in K THEN NULL ELSE posn[k]]
        /\ epGas' = [k \in Keys |-> IF k \in K THEN NULL ELSE epGas[k]]
        /\ cost' = [t \in Txs |-> IF t \in txs THEN NULL ELSE cost[t]]
        /\ UNCHANGED <<owing, passVars, hp, runVars>>

----------------------------------------------------------------------------
(* Bootstrap of a ledger another version left behind *)

\* _resume_bootstrap, one event or position per batch.
BootstrapEvent ==
    /\ phase = "events"
    /\ LET rest == {i \in Stored : i > cursor}
           i == CHOOSE j \in rest : \A x \in rest : j <= x
       IN  IF rest = {} THEN /\ phase' = "stale" /\ Requeue({}, {}, {}, FALSE)
                             /\ UNCHANGED <<cursor, keyOf, hints>>
           ELSE LET K == Known({keyOf[i], ev[i].key})
                IN  /\ cursor' = i
                    /\ keyOf' = [keyOf EXCEPT ![i] = ev[i].key]
                    /\ Requeue(K, {}, {}, FALSE)
                    /\ hints' = [k \in Keys |-> IF k \in K THEN {} ELSE hints[k]]
                    /\ UNCHANGED phase
    /\ UNCHANGED <<ev, gas, owing, bookVars, epoch, posLeft, passVars, hp, runVars>>

BootstrapStale ==
    /\ phase = "stale"
    /\ LET orphans == {i \in Ids : keyOf[i] # NULL /\ ev[i] = NULL}
           K == {keyOf[i] : i \in orphans}
       IN  IF orphans = {} THEN phase' = "positions" /\ UNCHANGED <<keyOf, hints, pending, count, dirty>>
           ELSE /\ keyOf' = [i \in Ids |-> IF i \in orphans THEN NULL ELSE keyOf[i]]
                /\ Requeue(K, {}, {}, FALSE)
                /\ hints' = [k \in Keys |-> IF k \in K THEN {} ELSE hints[k]]
                /\ UNCHANGED phase
    /\ UNCHANGED <<ev, gas, owing, bookVars, epoch, cursor, posLeft, passVars, hp,
                   runVars>>

BootstrapPosition ==
    /\ phase = "positions"
    /\ LET rest == {k \in posLeft : posn[k] # NULL}
           k == CHOOSE x \in rest : TRUE
       IN  IF rest = {} THEN /\ phase' = "complete" /\ Requeue({}, {}, {}, FALSE)
                             /\ UNCHANGED <<posLeft, hints>>
           ELSE /\ posLeft' = posLeft \ {k}
                /\ UNCHANGED phase
                /\ Requeue({k}, {}, {}, FALSE)
                /\ hints' = [hints EXCEPT ![k] = {}]
    /\ UNCHANGED <<eventVars, owing, bookVars, epoch, cursor, passVars, hp, runVars>>

Between == pass = {} /\ prep = {}
Bootstrap == Between /\ (BootstrapEvent \/ BootstrapStale \/ BootstrapPosition)

\* _prepare_pending_identity_hints reads one page of one event.
HintPage(k) ==
    /\ pages < MaxPages /\ pages' = pages + 1
    /\ hp = NULL /\ phase = "complete" /\ pending[k] # NULL /\ ~pending[k].ready
    /\ LET rest == {i \in Mapped(k) : i > pending[k].cursor}
           i == CHOOSE j \in rest : \A x \in rest : j <= x
       IN  hp' = [key |-> k, epoch |-> epoch, cursor |-> pending[k].cursor,
                  next |-> IF rest = {} THEN pending[k].cursor ELSE i,
                  complete |-> rest = {},
                  holders |-> (IF rest = {} THEN {} ELSE {ev[i].owner})
                              \cup (IF pending[k].cursor = 0 THEN LedgerHolders(k) ELSE {})]
    /\ UNCHANGED <<eventVars, queueVars, bookVars, epoch, bootVars, passVars, changes, crashes, moved>>

\* _publish_pending_identity_hints
HintPublish ==
    /\ hp # NULL
    /\ hp' = NULL
    /\ LET r == pending[hp.key]
       IN  IF hp.epoch # epoch \/ r = NULL \/ (r # NULL /\ (r.ready \/ r.cursor # hp.cursor))
           THEN UNCHANGED <<pending, hints>>
           ELSE /\ hints' = [hints EXCEPT ![hp.key] = @ \cup hp.holders]
                /\ pending' = [pending EXCEPT ![hp.key].cursor = hp.next, ![hp.key].ready = hp.complete]
    /\ UNCHANGED <<eventVars, count, dirty, owing, bookVars, epoch, bootVars, passVars,
                   runVars>>

----------------------------------------------------------------------------
(* Transaction costs *)

CostOf(f, t) == CostIn(f, Stored, gas, t)

\* _rebuild_tx_costs and _refresh_episode_costs over the transactions and the
\* episodes a publication affects.
RefreshCosts(f, txs, episodes) ==
    LET c == [t \in Txs |-> IF t \in txs THEN CostOf(f, t) ELSE cost[t]]
        changed == {t \in txs : c[t] # cost[t]}
        K == episodes \cup {f[i].key : i \in {j \in Ids : f[j] # NULL /\ TxOf[j] \in changed}}
    IN  /\ cost' = c
        /\ epGas' = [k \in Keys |-> IF k \in K THEN GasOf(f, c, k) ELSE epGas[k]]

----------------------------------------------------------------------------
(* Projection *)

EffectRows(S) == {[id |-> i, owner |-> ev[i].owner] : i \in S}

\* _prepare_pending with _ReplayWrites.prepare: everything is read, and the
\* difference to the existing rows computed, on one snapshot.
Preparation(k) ==
    LET missing == {i \in Mapped(k) : eff[i] = NULL}
        last == IF posn[k] = NULL THEN {} ELSE {TxOf[r.id] : r \in posn[k]}
        canAppend == /\ pending[k].append /\ missing # {} /\ posn[k] # NULL
                     /\ \A i \in missing : \A b \in last : TxOf[i] > b
        full == ~pending[k].cost /\ ~canAppend
        desired == IF full THEN Mapped(k) ELSE missing
        existing == EffectsOf(eff, k)
        stale == IF full THEN existing \ desired ELSE {}
        changed == {i \in desired : eff[i] # [key |-> k, owner |-> ev[i].owner]}
        taken == {i \in changed : eff[i] # NULL}
        resolve == IF full /\ desired # {}
                   THEN {t \in {TxOf[i] : i \in existing} :
                           cost[t] = NULL \/ (t \in gas /\ ~cost[t].gas)} ELSE {}
        before == {<<k, TxOf[i]>> : i \in existing} \cup {<<eff[i].key, TxOf[i]>> : i \in taken}
        after == IF full THEN {<<k, TxOf[i]>> : i \in desired}
                 ELSE before \cup {<<k, TxOf[i]>> : i \in desired}
        ran == ~pending[k].cost
    IN  [key |-> k, gen |-> pending[k].gen, epoch |-> epoch, ran |-> ran,
         deletes |-> IF ran THEN stale ELSE {},
         writes |-> IF ran THEN EffectRows(changed) ELSE {},
         rows |-> IF full THEN EffectRows(desired)
                  ELSE IF ran THEN posn[k] \cup EffectRows(missing) ELSE {},
         txs |-> owing[k] \cup
                 (IF ran THEN {TxOf[i] : i \in stale \cup changed} \cup resolve ELSE {}),
         episodes |-> IF ran THEN {p[1] : p \in (before \ after) \cup (after \ before)} ELSE {}]

\* Mutant: whoever publishes last keeps the effect.
Mutant_MayWrite(i, k) == TRUE

\* The conflict clause of _EFFECT_WRITE_SUFFIX: an effect another position
\* holds is taken over only by the position the event is mapped to now.
MayWrite(i, k) == eff[i] = NULL \/ eff[i].key = k \/ keyOf[i] = k

\* _pending_rows: a pass of project_pending selects what is queued and due.
StartPass ==
    /\ Between
    /\ pass' = {k \in Keys \ deferred : pending[k] # NULL}
    /\ pass' # {}
    /\ UNCHANGED <<eventVars, queueVars, bookVars, epoch, bootVars, prep, deferred, failures, hp,
                   runVars>>

\* One position of the pass is read on a snapshot of its own.
Prepare(k) ==
    /\ k \in pass
    /\ pass' = pass \ {k}
    /\ prep' = IF pending[k] = NULL THEN prep ELSE prep \cup {Preparation(k)}
    /\ UNCHANGED <<eventVars, queueVars, bookVars, epoch, bootVars, deferred, failures, hp,
                   runVars>>

\* A preparation runs out of its snapshot's time, or a worker process dies and
\* takes every submitted preparation with it: _defer_position.
PrepareFails(W) ==
    /\ W # {} /\ W \subseteq pass /\ failures < MaxFailures
    /\ failures' = failures + 1
    /\ deferred' = deferred \cup W
    /\ pass' = pass \ W
    /\ UNCHANGED <<eventVars, queueVars, bookVars, epoch, bootVars, prep, hp, runVars>>

\* Mutant: a deferral is lifted only while a pass runs.
Mutant_RetryDue(k) ==
    /\ pass # {} /\ k \in deferred
    /\ deferred' = deferred \ {k}
    /\ UNCHANGED <<eventVars, queueVars, bookVars, epoch, bootVars, pass, prep, failures, hp,
                   runVars>>

\* _cool_position: a deferred position is due again.
RetryDue(k) ==
    /\ k \in deferred
    /\ deferred' = deferred \ {k}
    /\ UNCHANGED <<eventVars, queueVars, bookVars, epoch, bootVars, pass, prep, failures, hp,
                   runVars>>

\* _publish_pending, _ReplayWrites.flush and the refreshes of project_pending,
\* one transaction; preparations finish, and are published, in any order.
PublishBooks(p) ==
    LET accepted == p.epoch = epoch /\ pending[p.key] # NULL
        wanted == {r \in p.writes : MayWrite(r.id, p.key)}
        f == [i \in Ids |->
                IF \E r \in wanted : r.id = i
                THEN [key |-> p.key, owner |-> (CHOOSE r \in wanted : r.id = i).owner]
                ELSE IF i \in p.deletes /\ eff[i] # NULL /\ eff[i].key = p.key THEN NULL
                ELSE eff[i]]
        done == pending[p.key].gen = p.gen
    IN  /\ prep' = prep \ {p}
        /\ IF ~accepted THEN UNCHANGED <<queueVars, bookVars>>
           ELSE /\ eff' = f
                /\ posn' = IF p.ran THEN [posn EXCEPT ![p.key] = IF p.rows = {} THEN NULL ELSE p.rows]
                           ELSE posn
                /\ RefreshCosts(f, p.txs, p.episodes)
                /\ pending' = IF done THEN [pending EXCEPT ![p.key] = NULL] ELSE pending
                /\ owing' = IF done THEN [owing EXCEPT ![p.key] = {}] ELSE owing
                /\ hints' = IF done THEN [hints EXCEPT ![p.key] = {}] ELSE hints
                /\ count' = IF done THEN count - 1 ELSE count
                /\ dirty' = (dirty /\ ~BooksIdle(pending', phase))
        /\ UNCHANGED <<eventVars, epoch, bootVars, pass, deferred, failures, hp, runVars>>

\* A crash loses what is prepared; install() then trusts only what is stored.
RestartBooks ==
    /\ crashes < MaxCrashes /\ crashes' = crashes + 1
    /\ pass' = {} /\ prep' = {} /\ deferred' = {} /\ hp' = NULL
    /\ count' = Cardinality({k \in Keys : pending[k] # NULL})
    /\ dirty' = ~BooksIdle(pending, phase)
    /\ UNCHANGED <<eventVars, pending, owing, hints, bookVars, epoch, bootVars, failures, changes, pages, moved>>

----------------------------------------------------------------------------
BooksInit ==
    \E start \in Legacy :
        /\ ev = start.ev /\ keyOf = start.keyOf /\ posn = start.posn
        /\ phase = start.phase /\ dirty = (start.phase # "complete")
        /\ gas = start.gas /\ pending = [k \in Keys |-> NULL] /\ count = 0
        /\ owing = [k \in Keys |-> {}] /\ hints = [k \in Keys |-> {}]
        /\ eff = start.eff /\ cost = start.cost /\ epGas = start.epGas
        /\ epoch = 0 /\ cursor = 0 /\ posLeft = Keys
        /\ pass = {} /\ prep = {} /\ deferred = {} /\ failures = 0 /\ hp = NULL
        /\ changes = 0 /\ crashes = 0 /\ pages = 0 /\ moved = start.moved

Ingestion ==
    \/ \E v \in Feeds : NewEvent(v.id, v.key, v.owner) \/ Correct(v.id, v.key, v.owner)
    \/ \E t \in Txs : Receipt(t)
    \/ \E a \in Txs \cup {0} : RollbackBook(a)

Projection ==
    \/ StartPass
    \/ \E k \in Keys : Prepare(k) \/ RetryDue(k)
    \/ \E p \in prep : PublishBooks(p)

BooksNext ==
    \/ Ingestion
    \/ Bootstrap
    \/ Projection
    \/ \E W \in SUBSET Keys : PrepareFails(W)
    \/ \E k \in Keys : HintPage(k)
    \/ HintPublish \/ RestartBooks

\* The accounting thread runs project_pending in a loop and the deferral clock
\* runs on; what the chain and the process do is not fair.
BooksFairness == WF_booksAll(Bootstrap) /\ WF_booksAll(Projection)
BooksSpec == BooksInit /\ [][BooksNext]_booksAll /\ BooksFairness

----------------------------------------------------------------------------
Published(k) == phase = "complete" /\ pending[k] = NULL

\* A position that is not queued is published exactly: its rows come from the
\* events mapped to it now, each of those events has its effect and no other
\* event does, however preparations overlapped with corrections, moves,
\* rollbacks, restarts and the bootstrap.
LedgerExact ==
    \A k \in Keys : Published(k) =>
        /\ (IF posn[k] = NULL THEN {} ELSE posn[k]) = EffectRows(Mapped(k))
        /\ \A i \in Mapped(k) : eff[i] = [key |-> k, owner |-> ev[i].owner]
        /\ EffectsOf(eff, k) \subseteq Mapped(k)

\* With nothing queued, the incrementally maintained costs are the costs of a
\* full rebuild: no transaction keeps the attribution it had before another
\* position's events joined it, and no episode keeps its gas (which the code
\* can miss once an event has moved between positions).
CostsExact ==
    (\A k \in Keys : Published(k)) =>
        /\ \A t \in Txs : cost[t] = CostOf(eff, t)
        /\ ~moved => \A k \in Keys : posn[k] # NULL => epGas[k] = GasOf(eff, cost, k)

\* The counter the status page shows is the number of queued rows, and the book
\* calls itself clean only when nothing is queued and the bootstrap is over.
CleanMeansDone ==
    /\ count = Cardinality({k \in Keys : pending[k] # NULL})
    /\ ~dirty => \A k \in Keys : Published(k)

\* The published books are exact although they are prepared on old snapshots
\* and published in any order.
AccountingExact == LedgerExact /\ CostsExact /\ CleanMeansDone

\* Once ingestion pauses every queued position is published: no position is
\* requeued for ever by its own publication, by a deferral or by a failure.
BooksDrained == <>[](\A k \in Keys : pending[k] = NULL)
=============================================================================
