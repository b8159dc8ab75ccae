---------------------------- MODULE PriceBuckets ----------------------------
(***************************************************************************)
(* Minute, hour and day totals of a pool: kept by differences while the    *)
(* minute rows exist, recomputed from the events once they are pruned.     *)
(* The recomputation sums one hour per reader snapshot and is stored only  *)
(* if the key's generation never moved meanwhile.                          *)
(*                                                                         *)
(* One pool.  An event is its block; it counts one, and its value is what  *)
(* its pricing contributes to the dollar fields.                           *)
(***************************************************************************)
EXTENDS Integers, Sequences, FiniteSets, FiniteSetsExt, Functions, Absent

CONSTANTS
    MinuteOf,         \* block |-> minute of its timestamp
    MinutesPerHour, HoursPerDay,
    MaxGeneration,    \* bound on a key's generation
    MaxReorgs         \* bound on rollbacks

BucketBlocks == DOMAIN MinuteOf
Minutes == {MinuteOf[b] : b \in BucketBlocks}
MinutesPerDay == MinutesPerHour * HoursPerDay
HourOf(minute) == minute \div MinutesPerHour
DayOf(minute) == minute \div MinutesPerDay

ASSUME BucketAssumption ==
    /\ BucketBlocks \subseteq Nat /\ IsFiniteSet(BucketBlocks) /\ BucketBlocks # {}
    /\ MinutesPerHour \in Nat \ {0} /\ HoursPerDay \in Nat \ {0}
    /\ \A b \in BucketBlocks : MinuteOf[b] \in Nat

VARIABLES
    values,       \* stored events: block |-> value, 1 raw and 2 priced
    rows,         \* lp_pool_buckets: <<resolution, bucket>> |-> [events, sum, top]
    pruneBefore,  \* bucket_prune_before, a minute
    restores,     \* lp_bucket_restore: key |-> generation
    restoring,    \* the pool-day being summed, or NULL
    reorgs,
    missed,       \* days of that sum which a rollback emptied unnoticed
    phantoms      \* days whose stored total counts events that were gone

bucketVars == <<values, rows, pruneBefore, restores, restoring, reorgs, missed, phantoms>>

BucketInit ==
    /\ values = [b \in {} |-> 0] /\ rows = [k \in {} |-> NULL]
    /\ pruneBefore = 0 /\ restores = [k \in {} |-> 0]
    /\ restoring = NULL /\ reorgs = 0 /\ missed = {} /\ phantoms = {}

KeyOf(resolution, minute) ==
    <<resolution, CASE resolution = "minute" -> minute
                    [] resolution = "hour" -> HourOf(minute)
                    [] resolution = "day" -> DayOf(minute)>>

Rollups == {"hour", "day"}

Total(blocks, vs) ==
    [events |-> Cardinality(blocks), sum |-> FoldSet(LAMBDA b, s : s + vs[b], 0, blocks),
     top |-> IF blocks = {} THEN 0 ELSE Max(blocks)]

EventsIn(key, vs) == {b \in DOMAIN vs : KeyOf(key[1], MinuteOf[b]) = key}

NoTotal == [events |-> 0, sum |-> 0, top |-> 0]
Row(table, key) == IF key \in DOMAIN table THEN table[key] ELSE NoTotal

\* The rows totals gives are written; one without events is deleted.
PutAll(table, totals) ==
    LET empty == {k \in DOMAIN totals : totals[k].events <= 0}
    IN [k \in (DOMAIN table \cup DOMAIN totals) \ empty |->
           IF k \in DOMAIN totals THEN totals[k] ELSE table[k]]

Plus(total, delta) ==
    [events |-> total.events + delta.events, sum |-> total.sum + delta.sum,
     top |-> Max({total.top, delta.top})]

MoveAll(table, keys, delta) == PutAll(table, [k \in keys |-> Plus(Row(table, k), delta)])

TotalsOf(keys, vs) == [k \in keys |-> Total(EventsIn(k, vs), vs)]
RollupsOf(minute) == {KeyOf(r, minute) : r \in Rollups}

\* Mutant: a change of an hour or day row leaves its queued restore alone.
Mutant_TouchedNot(queue, keys) == queue

\* The triggers: a write to an hour or day row moves its key's generation.
Touched(queue, keys) ==
    [k \in DOMAIN queue |-> IF k \in keys THEN queue[k] + 1 ELSE queue[k]]

(***************************************************************************)
(* _buckets: the rows of a minute after its events changed.                *)
(***************************************************************************)
\* A restore is queued for the day, and for the hour the cutoff cuts.
Owed(minute) ==
    {KeyOf("day", minute)} \cup
    (IF (HourOf(minute) + 1) * MinutesPerHour > pruneBefore THEN {KeyOf("hour", minute)} ELSE {})

\* The minute is replaced; its hour and day move by the difference, unless
\* the minute is pruned and has nothing to differ from.
Rebucket(vs, minute) ==
    LET key == KeyOf("minute", minute)
        total == Total(EventsIn(key, vs), vs)
        old == Row(rows, key)
        delta == [events |-> total.events - old.events, sum |-> total.sum - old.sum,
                  top |-> total.top]
        minuteRows == PutAll(rows, TotalsOf({key}, vs))
        moved == RollupsOf(minute)
        queued == [k \in DOMAIN restores \cup Owed(minute) |->
                       IF k \notin DOMAIN restores THEN 1
                       ELSE IF k \in Owed(minute) THEN restores[k] + 1 ELSE restores[k]]
    IN  /\ values' = vs
        /\ IF minute < pruneBefore
           THEN rows' = minuteRows /\ restores' = queued
           ELSE rows' = MoveAll(minuteRows, moved, delta) /\ restores' = Touched(restores, moved)

\* The live lane stores and prices; the reprojection lane prices what the
\* archive lane stored.
PriceEvent(block) ==
    /\ block \in DOMAIN values => values[block] = 1
    /\ Rebucket([b \in DOMAIN values \cup {block} |-> IF b = block THEN 2 ELSE values[b]],
                MinuteOf[block])
    /\ UNCHANGED <<pruneBefore, restoring, reorgs, missed, phantoms>>

\* _rollup_buckets: a raw event is added to all three of its rows.
StoreRawEvent(block) ==
    LET keys == RollupsOf(MinuteOf[block]) \cup {KeyOf("minute", MinuteOf[block])}
        one == [events |-> 1, sum |-> 1, top |-> block]
    IN  /\ block \notin DOMAIN values
        /\ values' = [b \in DOMAIN values \cup {block} |-> IF b = block THEN 1 ELSE values[b]]
        /\ rows' = MoveAll(rows, keys, one)
        /\ restores' = Touched(restores, keys)
        /\ UNCHANGED <<pruneBefore, restoring, reorgs, missed, phantoms>>

\* One batch of the prune job: rows of one resolution below the cutoff.
\* The cutoff is recorded only with rows removed.
PruneBuckets(cutoff, resolution) ==
    LET start(key) == IF resolution = "minute" THEN key[2] ELSE key[2] * MinutesPerHour
        old == {k \in DOMAIN rows : k[1] = resolution /\ start(k) < cutoff}
    IN  /\ old # {}
        /\ \E batch \in {b \in SUBSET old : b # {}} :
              /\ rows' = Restrict(rows, DOMAIN rows \ batch)
              /\ restores' = Touched(restores, batch)
        /\ pruneBefore' = Max({cutoff, pruneBefore})
        /\ UNCHANGED <<values, restoring, reorgs, missed, phantoms>>

(***************************************************************************)
(* Rollback: _bucket for every minute with a row above the ancestor, then  *)
(* for every pruned minute that loses an event.  A pruned minute's hour    *)
(* and day are set to the totals of the events that stay.  at holds the    *)
(* rows and the hour and day rows written so far.                          *)
(***************************************************************************)
Unbucketed(at, minute, vs) ==
    LET key == KeyOf("minute", minute)
        total == Total(EventsIn(key, vs), vs)
        old == Row(at.rows, key)
        delta == [events |-> total.events - old.events, sum |-> total.sum - old.sum,
                  top |-> total.top]
        keys == RollupsOf(minute)
        differs == total.events > 0 \/ key \in DOMAIN at.rows
        moved == IF differs THEN MoveAll(PutAll(at.rows, TotalsOf({key}, vs)), keys, delta)
                 ELSE at.rows
        totals == TotalsOf(keys, vs)
        there == {k \in keys : k \in DOMAIN moved \/ totals[k].events > 0}
        pruned == minute < pruneBefore
    IN  [rows |-> IF pruned THEN PutAll(moved, totals) ELSE moved,
         written |-> at.written \cup (IF differs THEN keys ELSE {})
                                \cup (IF pruned THEN there ELSE {})]

RollbackBuckets(ancestor) ==
    LET kept == Restrict(values, {b \in DOMAIN values : b <= ancestor})
        lost == DOMAIN values \ DOMAIN kept
        above == {k[2] : k \in {j \in DOMAIN rows : j[1] = "minute" /\ rows[j].top > ancestor}}
        pruned == {m \in {MinuteOf[b] : b \in lost} : m < pruneBefore}
        Step(m, at) == Unbucketed(at, m, kept)
        end == FoldSet(Step, FoldSet(Step, [rows |-> rows, written |-> {}], above), pruned)
    IN  /\ reorgs < MaxReorgs
        /\ lost # {}
        /\ reorgs' = reorgs + 1
        /\ values' = kept
        /\ rows' = end.rows
        /\ restores' = Touched(restores, end.written)
        /\ missed' = IF restoring = NULL THEN {}
                     ELSE missed \cup ({KeyOf("day", MinuteOf[b]) : b \in lost} \ end.written)
        /\ UNCHANGED <<pruneBefore, restoring, phantoms>>

(***************************************************************************)
(* restore_pending_rollups: keys of one day, one hour per snapshot.        *)
(***************************************************************************)
BeginRestore(wanted) ==
    LET day == {k[2] : k \in {j \in wanted : j[1] = "day"}}
        hours == IF day # {} THEN {d * HoursPerDay + h : d \in day, h \in 0 .. HoursPerDay - 1}
                 ELSE {k[2] : k \in wanted}
        dayOf(k) == IF k[1] = "day" THEN k[2] ELSE k[2] \div HoursPerDay
    IN  /\ restoring = NULL
        /\ wanted # {} /\ wanted \subseteq DOMAIN restores
        /\ \A j, k \in wanted : dayOf(j) = dayOf(k)
        /\ restoring' = [hours |-> hours, generation |-> [k \in {} |-> 0], stale |-> {},
                         total |-> [k \in wanted |-> NoTotal]]
        /\ UNCHANGED <<values, rows, pruneBefore, restores, reorgs, missed, phantoms>>

\* The generation of every wanted key of this hour must be the one its first
\* snapshot saw.
SumHour ==
    /\ restoring # NULL /\ restoring.hours # {}
    /\ LET hour == Min(restoring.hours)
           keys == {k \in DOMAIN restoring.total :
                        k = <<"hour", hour>> \/ k = <<"day", hour \div HoursPerDay>>}
           seen == DOMAIN restoring.generation
           gone == {k \in keys : IF k \notin DOMAIN restores THEN TRUE
                                 ELSE k \in seen /\ restoring.generation[k] # restores[k]}
           read == Total(EventsIn(<<"hour", hour>>, values), values)
       IN  restoring' =
              [hours |-> restoring.hours \ {hour},
               generation |-> [k \in seen \cup (keys \ gone) |->
                                   IF k \in seen THEN restoring.generation[k] ELSE restores[k]],
               stale |-> restoring.stale \cup gone,
               total |-> [k \in DOMAIN restoring.total |->
                              IF k \in keys \ gone THEN Plus(restoring.total[k], read)
                              ELSE restoring.total[k]]]
    /\ UNCHANGED <<values, rows, pruneBefore, restores, reorgs, missed, phantoms>>

\* The stored totals are those whose generation still stands.
StoreRestore ==
    /\ restoring # NULL /\ restoring.hours = {}
    /\ LET fit == {k \in DOMAIN restoring.total \ restoring.stale :
                       k \in DOMAIN restores /\ restores[k] = restoring.generation[k]}
       IN  /\ rows' = PutAll(rows, Restrict(restoring.total, fit))
           /\ restores' = Restrict(restores, DOMAIN restores \ fit)
           /\ phantoms' = (phantoms \ fit) \cup (missed \cap fit)
    /\ restoring' = NULL /\ missed' = {}
    /\ UNCHANGED <<values, pruneBefore, reorgs>>

\* A lease expiry or a WAL drain interrupts the snapshot: the keys stay queued.
InterruptRestore ==
    /\ restoring # NULL
    /\ restoring' = NULL /\ missed' = {}
    /\ UNCHANGED <<values, rows, pruneBefore, restores, reorgs, phantoms>>

Bounded == \A k \in DOMAIN restores : restores[k] < MaxGeneration

BucketNext ==
    \/ \E block \in BucketBlocks : Bounded /\ (PriceEvent(block) \/ StoreRawEvent(block))
    \/ \E cutoff \in 1 .. Max(Minutes) + 1 :
           Bounded /\ (PruneBuckets(cutoff, "minute") \/ PruneBuckets(cutoff, "hour"))
    \/ \E ancestor \in BucketBlocks \cup {0} : Bounded /\ RollbackBuckets(ancestor)
    \/ \E wanted \in SUBSET DOMAIN restores : BeginRestore(wanted)
    \/ SumHour \/ StoreRestore \/ InterruptRestore

BucketSpec == BucketInit /\ [][BucketNext]_bucketVars

-----------------------------------------------------------------------------
HasTotal(key) ==
    LET have == Row(rows, key)
        true == Total(EventsIn(key, values), values)
    IN  have.events = true.events /\ have.sum = true.sum

(***************************************************************************)
(* Every total a window reads equals the events it stands for: minutes and *)
(* hours from the cutoff on, and every day, pruned or not, unless a        *)
(* restore of it is still queued.  Differences, raw additions, rollbacks   *)
(* and restores computed meanwhile never leave a total that nobody will    *)
(* correct.  The one exception is a restore stored after a rollback        *)
(* emptied its day while the day had no row, which DaysRestored is about.  *)
(***************************************************************************)
TotalsExact ==
    \A m \in Minutes :
        /\ m >= pruneBefore => HasTotal(KeyOf("minute", m))
        /\ HourOf(m) * MinutesPerHour >= pruneBefore => HasTotal(KeyOf("hour", m))
        /\ KeyOf("day", m) \notin DOMAIN restores \cup phantoms => HasTotal(KeyOf("day", m))

(***************************************************************************)
(* "A restore computed from a snapshot before this change must not land":  *)
(* a day without a queued restore has its total, whatever was removed      *)
(* while its restore was computed.                                         *)
(***************************************************************************)
DaysRestored ==
    \A m \in Minutes : KeyOf("day", m) \notin DOMAIN restores => HasTotal(KeyOf("day", m))

=============================================================================
