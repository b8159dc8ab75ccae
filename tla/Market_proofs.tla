---------------------------- MODULE Market_proofs ----------------------------
(***************************************************************************)
(* Proofs about what is derived from the canonical tables and published:   *)
(* the owners' rollup (OwnerRollup), the retention of price samples        *)
(* (SamplePruning), the current lane's feed, stream and header suffix      *)
(* (LiveFeed), the pools' minute, hour and day totals (PriceBuckets), and  *)
(* the repair of prices that late samples change (PriceRepair).            *)
(***************************************************************************)
EXTENDS OwnerRollup, SamplePruning, LiveFeed, PriceBuckets, PriceRepair,
        SequenceTheorems, FiniteSetTheorems, WellFoundedInduction, TLAPS

\* The least and the greatest of a set of numbers.

LEMMA LeastNumber ==
    ASSUME NEW S \in SUBSET Nat, S # {}
    PROVE  \E n \in S : \A m \in S : n <= m
<1> DEFINE below == {0..k : k \in S}
           R == StrictSubsetOrdering(Nat)
<1>1. \A k \in S : 0..k \in FiniteSubsetsOf(Nat)
    BY FS_Interval DEF FiniteSubsetsOf
<1>2. below \subseteq FiniteSubsetsOf(Nat) /\ below # {}
    BY <1>1
<1>3. IsWellFoundedOn(R, FiniteSubsetsOf(Nat))
    BY FS_StrictSubsetOrderingWellFounded
<1> HIDE DEF below, R
<1>4. PICK x \in below : \A y \in below : <<y, x>> \notin R
    BY <1>2, <1>3, WFMin
<1>5. PICK k \in S : x = 0..k
    BY <1>4 DEF below
<1>6. ASSUME NEW m \in S, m < k PROVE FALSE
  <2>1. 0..m \in below /\ 0..m \subseteq 0..k /\ 0..m # 0..k
      BY <1>6 DEF below
  <2>2. 0..m \in SUBSET Nat /\ 0..k \in SUBSET Nat
      OBVIOUS
  <2>3. <<0..m, 0..k>> \in R
      BY <2>1, <2>2 DEF R, StrictSubsetOrdering
  <2> QED
      BY <1>4, <1>5, <2>1, <2>3
<1> QED
    BY <1>6

LEMMA HighestNumber ==
    ASSUME NEW b \in Nat, NEW S \in SUBSET (0..b), S # {}
    PROVE  Max(S) \in S /\ \A m \in S : m <= Max(S)
<1> DEFINE above == {k..b : k \in S}
           R == StrictSubsetOrdering(Nat)
<1>1. \A k \in 0..b : k..b \in FiniteSubsetsOf(Nat)
    BY FS_Interval DEF FiniteSubsetsOf
<1>2. above \subseteq FiniteSubsetsOf(Nat) /\ above # {}
    BY <1>1
<1>3. IsWellFoundedOn(R, FiniteSubsetsOf(Nat))
    BY FS_StrictSubsetOrderingWellFounded
<1> HIDE DEF above, R
<1>4. PICK x \in above : \A y \in above : <<y, x>> \notin R
    BY <1>2, <1>3, WFMin
<1>5. PICK k \in S : x = k..b
    BY <1>4 DEF above
<1>6. ASSUME NEW j \in S, j > k PROVE FALSE
  <2>1. j..b \in above /\ j..b \subseteq k..b /\ j..b # k..b
      BY <1>6 DEF above
  <2>2. j..b \in SUBSET Nat /\ k..b \in SUBSET Nat
      OBVIOUS
  <2>3. <<j..b, k..b>> \in R
      BY <2>1, <2>2 DEF R, StrictSubsetOrdering
  <2> QED
      BY <1>4, <1>5, <2>1, <2>3
<1>7. \A m \in S : k >= m
    BY <1>6
<1>8. Max(S) \in S /\ \A m \in S : Max(S) >= m
    BY <1>7 DEF Max
<1> QED
    BY <1>8

LEMMA LowestNumber ==
    ASSUME NEW S \in SUBSET Nat, S # {}
    PROVE  Min(S) \in S /\ \A m \in S : Min(S) <= m
<1>1. PICK n \in S : \A m \in S : n <= m
    BY LeastNumber
<1> QED
    BY <1>1 DEF Min

LEMMA LargerOf == ASSUME NEW a \in Int, NEW b \in Int
                  PROVE  Max({a, b}) = IF a >= b THEN a ELSE b
BY DEF Max
-----------------------------------------------------------------------------
(* Induction over a finite set, and sums by folds.                         *)

\* A set of subsets with {}, closed under adding an element, has all of them.
LEMMA SubsetInduction ==
    ASSUME NEW K, IsFiniteSet(K), NEW good \in SUBSET (SUBSET K),
           {} \in good,
           \A s \in SUBSET K : s # {} /\ (\A x \in s : s \ {x} \in good) => s \in good
    PROVE  good = SUBSET K
<1> DEFINE bad == {Cardinality(s) : s \in (SUBSET K) \ good}
<1>1. SUFFICES ASSUME (SUBSET K) \ good # {} PROVE FALSE
    OBVIOUS
<1>2. \A s \in SUBSET K : IsFiniteSet(s) /\ Cardinality(s) \in Nat
    BY FS_Subset, FS_CardinalityType
<1>3. bad \in SUBSET Nat /\ bad # {}
    BY <1>1, <1>2
<1>4. PICK n \in bad : \A m \in bad : n <= m
    BY <1>3, LeastNumber
<1>5. PICK s \in (SUBSET K) \ good : n = Cardinality(s)
    BY <1>4
<1>6. s # {}
    BY <1>5
<1>7. PICK x \in s : s \ {x} \notin good
    BY <1>5, <1>6
<1>8. Cardinality(s \ {x}) = Cardinality(s) - 1
    BY <1>2, <1>5, <1>7, FS_RemoveElement
<1>9. Cardinality(s \ {x}) \in bad
    BY <1>5, <1>7
<1>10. n \in Nat /\ n <= Cardinality(s \ {x})
    BY <1>3, <1>4, <1>9
<1> HIDE DEF bad
<1> QED
    BY <1>5, <1>8, <1>10

\* A set of numbers with 0 and the successor of each of its members.
LEMMA NumberInduction ==
    ASSUME NEW good \in SUBSET Nat, 0 \in good, \A n \in good : n + 1 \in good
    PROVE  good = Nat
<1>1. SUFFICES ASSUME Nat \ good # {} PROVE FALSE
    OBVIOUS
<1>2. PICK n \in Nat \ good : \A m \in Nat \ good : n <= m
    BY <1>1, LeastNumber
<1>3. n - 1 \in good
    BY <1>2
<1> QED
    BY <1>2, <1>3

SumOver(value, K) == FoldSet(LAMBDA x, n : n + value[x], 0, K)

Pick(s) == CHOOSE x \in s : TRUE
Sums(value, D, f) == f = [s \in D |-> IF s = {} THEN 0 ELSE f[s \ {Pick(s)}] + value[Pick(s)]]
SumsBelow(value, K, f) == Sums(value, SUBSET K, f)

LEMMA SumOverDef ==
    ASSUME NEW value, NEW K
    PROVE  SumOver(value, K) = (CHOOSE f : SumsBelow(value, K, f))[K]
BY DEF SumOver, FoldSet, MapThenFoldSet, Sums, SumsBelow, Pick

LEMMA SumsExist ==
    ASSUME NEW value, NEW K, IsFiniteSet(K)
    PROVE  \E f : SumsBelow(value, K, f)
<1> DEFINE small(n) == {s \in SUBSET K : Cardinality(s) <= n}
           good == {n \in Nat : \E f : Sums(value, small(n), f)}
<1>1. \A s \in SUBSET K : IsFiniteSet(s) /\ Cardinality(s) \in Nat
    BY FS_Subset, FS_CardinalityType
<1>2. \A s \in SUBSET K : s # {} => /\ Pick(s) \in s
                                    /\ s \ {Pick(s)} \in SUBSET K
                                    /\ Cardinality(s \ {Pick(s)}) = Cardinality(s) - 1
    BY <1>1, FS_RemoveElement DEF Pick
<1>3. 0 \in good
  <2>1. \A s \in small(0) : s = {}
      BY <1>1, FS_EmptySet
  <2>2. Sums(value, small(0), [s \in small(0) |-> 0])
      BY <2>1 DEF Sums, SumsBelow
  <2> QED
      BY <2>2
<1>4. ASSUME NEW n \in good PROVE n + 1 \in good
  <2>1. PICK f : Sums(value, small(n), f)
      BY <1>4
  <2> DEFINE at(s) == IF s = {} THEN 0 ELSE f[s \ {Pick(s)}] + value[Pick(s)]
             g == [s \in small(n + 1) |-> at(s)]
  <2>2. \A s \in small(n) : s \in small(n + 1)
      BY <1>1
  <2>3. \A s \in small(n + 1) : s # {} => s \ {Pick(s)} \in small(n)
      BY <1>1, <1>2
  <2> HIDE DEF small
  <2>4. \A s \in small(n) : f[s] = at(s) /\ g[s] = at(s)
      BY <2>1, <2>2 DEF Sums, SumsBelow
  <2>6. \A s \in small(n + 1) : s # {} => g[s \ {Pick(s)}] = f[s \ {Pick(s)}]
      BY <2>3, <2>4
  <2>5. Sums(value, small(n + 1), g)
      BY <2>6 DEF Sums, SumsBelow
  <2> QED
      BY <2>5
<1>5. good = Nat
  <2> HIDE DEF good
  <2>1. good \in SUBSET Nat
      BY DEF good
  <2> QED
      BY <1>3, <1>4, <2>1, NumberInduction
<1>6. \A s \in SUBSET K : Cardinality(s) <= Cardinality(K)
    BY FS_Subset
<1>7. small(Cardinality(K)) = SUBSET K
    BY <1>6
<1>8. Cardinality(K) \in good
    BY <1>1, <1>5
<1> QED
    BY <1>7, <1>8 DEF SumsBelow

LEMMA SumsAgree ==
    ASSUME NEW value, NEW K, IsFiniteSet(K), NEW L, K \subseteq L,
           NEW f, SumsBelow(value, K, f), NEW g, SumsBelow(value, L, g)
    PROVE  f[K] = g[K]
<1> DEFINE good == {s \in SUBSET K : f[s] = g[s]}
<1>1. \A s \in SUBSET K : s # {} => /\ f[s] = f[s \ {Pick(s)}] + value[Pick(s)]
                                    /\ g[s] = g[s \ {Pick(s)}] + value[Pick(s)]
                                    /\ Pick(s) \in s
    BY DEF Sums, SumsBelow, Pick
<1>2. f[{}] = 0 /\ g[{}] = 0
    BY DEF Sums, SumsBelow
<1>3. \A s \in SUBSET K : s # {} /\ (\A x \in s : s \ {x} \in good) => s \in good
    BY <1>1
<1>4. {} \in good
    BY <1>2
<1>5. good = SUBSET K
  <2> HIDE DEF good
  <2>1. good \in SUBSET (SUBSET K)
      BY DEF good
  <2> QED
      BY <1>3, <1>4, <2>1, SubsetInduction
<1> QED
    BY <1>5

LEMMA SumOfNone == ASSUME NEW value PROVE SumOver(value, {}) = 0
<1>1. \E f : SumsBelow(value, {}, f)
    BY SumsExist, FS_EmptySet
<1>2. SumsBelow(value, {}, CHOOSE f : SumsBelow(value, {}, f))
    BY <1>1
<1> QED
    BY <1>2, SumOverDef DEF Sums, SumsBelow

LEMMA SumByPick ==
    ASSUME NEW value, NEW K, IsFiniteSet(K), K # {}
    PROVE  Pick(K) \in K /\ SumOver(value, K) = SumOver(value, K \ {Pick(K)}) + value[Pick(K)]
<1> DEFINE J == K \ {Pick(K)}
<1>1. Pick(K) \in K /\ IsFiniteSet(J) /\ J \subseteq K
    BY FS_Subset DEF Pick
<1>2. PICK whole : SumsBelow(value, K, whole) /\ SumOver(value, K) = whole[K]
    BY SumsExist, SumOverDef
<1>3. PICK rest : SumsBelow(value, J, rest) /\ SumOver(value, J) = rest[J]
    BY <1>1, SumsExist, SumOverDef
<1>4. whole[K] = whole[J] + value[Pick(K)]
  <2>1. K \in SUBSET K
      OBVIOUS
  <2> QED
      BY <1>2, <2>1 DEF Sums, SumsBelow
<1> HIDE DEF J
<1>5. rest[J] = whole[J]
  <2>1. IsFiniteSet(J) /\ J \subseteq K /\ SumsBelow(value, J, rest) /\ SumsBelow(value, K, whole)
      BY <1>1, <1>2, <1>3
  <2>2. \A f, g : SumsBelow(value, J, f) /\ SumsBelow(value, K, g) => f[J] = g[J]
      BY <2>1, SumsAgree
  <2> QED
      BY <2>1, <2>2
<1>6. SumOver(value, K) = SumOver(value, J) + value[Pick(K)]
    BY <1>2, <1>3, <1>4, <1>5
<1> QED
    BY <1>1, <1>6 DEF J

LEMMA SumIsInt ==
    ASSUME NEW value, NEW K, IsFiniteSet(K), \A x \in K : value[x] \in Int
    PROVE  SumOver(value, K) \in Int
<1> DEFINE good == {s \in SUBSET K : SumOver(value, s) \in Int}
<1>1. {} \in good
    BY SumOfNone
<1>2. ASSUME NEW s \in SUBSET K, s # {}, \A x \in s : s \ {x} \in good
      PROVE  s \in good
  <2>1. Pick(s) \in s /\ SumOver(value, s) = SumOver(value, s \ {Pick(s)}) + value[Pick(s)]
      BY <1>2, FS_Subset, SumByPick
  <2>2. SumOver(value, s \ {Pick(s)}) \in Int /\ value[Pick(s)] \in Int
      BY <1>2, <2>1
  <2> QED
      BY <2>1, <2>2
<1>3. good = SUBSET K
  <2> HIDE DEF good
  <2>1. good \in SUBSET (SUBSET K)
      BY DEF good
  <2> QED
      BY <1>1, <1>2, <2>1, SubsetInduction
<1> QED
    BY <1>3

\* Any element may be taken out first.
LEMMA SumTakeOut ==
    ASSUME NEW value, NEW K, IsFiniteSet(K), \A x \in K : value[x] \in Int, NEW x \in K
    PROVE  SumOver(value, K) = SumOver(value, K \ {x}) + value[x]
<1> DEFINE good == {s \in SUBSET K : \A y \in s : SumOver(value, s) = SumOver(value, s \ {y}) + value[y]}
<1>1. {} \in good
    OBVIOUS
<1>2. ASSUME NEW s \in SUBSET K, s # {}, \A y \in s : s \ {y} \in good, NEW y \in s
      PROVE  SumOver(value, s) = SumOver(value, s \ {y}) + value[y]
  <2> DEFINE p == Pick(s)
  <2>1. IsFiniteSet(s) /\ \A t \in SUBSET s : IsFiniteSet(t) /\ SumOver(value, t) \in Int
      BY FS_Subset, SumIsInt
  <2>2. p \in s /\ SumOver(value, s) = SumOver(value, s \ {p}) + value[p]
      BY <1>2, <2>1, SumByPick
  <2> HIDE DEF p
  <2>3. CASE y = p
      BY <2>2, <2>3
  <2>4. CASE y # p
    <3>1. SumOver(value, s \ {p}) = SumOver(value, (s \ {p}) \ {y}) + value[y]
        BY <1>2, <2>2, <2>4
    <3>2. SumOver(value, s \ {y}) = SumOver(value, (s \ {y}) \ {p}) + value[p]
        BY <1>2, <2>2, <2>4
    <3>3. (s \ {p}) \ {y} = (s \ {y}) \ {p}
        OBVIOUS
    <3>4. /\ SumOver(value, (s \ {y}) \ {p}) \in Int /\ value[y] \in Int /\ value[p] \in Int
        BY <2>1, <2>2
    <3>5. SumOver(value, s) = (SumOver(value, (s \ {y}) \ {p}) + value[y]) + value[p]
        BY <2>2, <3>1, <3>3
    <3>6. \A a, b, c \in Int : (a + b) + c = (a + c) + b
        OBVIOUS
    <3> QED
        BY <3>2, <3>4, <3>5, <3>6
  <2> QED
      BY <2>3, <2>4
<1>3. good = SUBSET K
  <2>1. \A s \in SUBSET K : s # {} /\ (\A y \in s : s \ {y} \in good) => s \in good
      BY <1>2
  <2> HIDE DEF good
  <2>2. good \in SUBSET (SUBSET K)
      BY DEF good
  <2> QED
      BY <1>1, <2>1, <2>2, SubsetInduction
<1> QED
    BY <1>3

\* A sum depends on the values it adds.
LEMMA SumSame ==
    ASSUME NEW value, NEW other, NEW K, IsFiniteSet(K), \A x \in K : value[x] = other[x]
    PROVE  SumOver(value, K) = SumOver(other, K)
<1> DEFINE good == {s \in SUBSET K : SumOver(value, s) = SumOver(other, s)}
<1>1. {} \in good
    BY SumOfNone
<1>2. ASSUME NEW s \in SUBSET K, s # {}, \A x \in s : s \ {x} \in good
      PROVE  s \in good
  <2>1. Pick(s) \in s /\ SumOver(value, s) = SumOver(value, s \ {Pick(s)}) + value[Pick(s)]
      BY <1>2, FS_Subset, SumByPick
  <2>2. SumOver(other, s) = SumOver(other, s \ {Pick(s)}) + other[Pick(s)]
      BY <1>2, FS_Subset, SumByPick
  <2> QED
      BY <1>2, <2>1, <2>2
<1>3. good = SUBSET K
  <2> HIDE DEF good
  <2>1. good \in SUBSET (SUBSET K)
      BY DEF good
  <2> QED
      BY <1>1, <1>2, <2>1, SubsetInduction
<1> QED
    BY <1>3

LEMMA SumUnion ==
    ASSUME NEW value, NEW K, IsFiniteSet(K), NEW L, IsFiniteSet(L), K \cap L = {},
           \A x \in K \cup L : value[x] \in Int
    PROVE  SumOver(value, K \cup L) = SumOver(value, K) + SumOver(value, L)
<1> DEFINE good == {s \in SUBSET K : SumOver(value, s \cup L) = SumOver(value, s) + SumOver(value, L)}
<1>1. {} \in good
  <2>1. {} \cup L = L /\ SumOver(value, L) \in Int
      BY SumIsInt
  <2> QED
      BY <2>1, SumOfNone
<1>2. ASSUME NEW s \in SUBSET K, s # {}, \A x \in s : s \ {x} \in good
      PROVE  s \in good
  <2>1. PICK x \in s : TRUE
      BY <1>2
  <2>2. IsFiniteSet(s) /\ IsFiniteSet(s \ {x}) /\ IsFiniteSet(s \cup L)
      BY FS_Subset, FS_Union
  <2>3. SumOver(value, s) = SumOver(value, s \ {x}) + value[x]
      BY <2>1, <2>2, SumTakeOut
  <2>4. SumOver(value, s \cup L) = SumOver(value, (s \cup L) \ {x}) + value[x]
      BY <2>1, <2>2, SumTakeOut
  <2>5. (s \cup L) \ {x} = (s \ {x}) \cup L
      BY <2>1
  <2>6. SumOver(value, (s \ {x}) \cup L) = SumOver(value, s \ {x}) + SumOver(value, L)
      BY <1>2, <2>1
  <2>7. SumOver(value, s \ {x}) \in Int /\ SumOver(value, L) \in Int /\ value[x] \in Int
      BY <2>1, <2>2, SumIsInt
  <2>8. SumOver(value, s \cup L) = (SumOver(value, s \ {x}) + SumOver(value, L)) + value[x]
      BY <2>4, <2>5, <2>6
  <2>9. \A a, b, c \in Int : (a + b) + c = (a + c) + b
      OBVIOUS
  <2> QED
      BY <2>3, <2>7, <2>8, <2>9
<1>3. good = SUBSET K
  <2> HIDE DEF good
  <2>1. good \in SUBSET (SUBSET K)
      BY DEF good
  <2> QED
      BY <1>1, <1>2, <2>1, SubsetInduction
<1> QED
    BY <1>3
-----------------------------------------------------------------------------
(* The owners' rollup (OwnerRollup).                                       *)

RowImages == (UNION {Versions[e] : e \in Episodes}) \cup {NULL}
Entries == [seq : Nat, key : Episodes, image : RowImages]
Replicas == [bound : Nat, cursor : Nat, through : Nat, rows : [Episodes -> RowImages]]

LedgerTypes ==
    /\ src \in [Episodes -> RowType \cup {NULL}]
    /\ nextRid \in Nat \ {0}
    /\ head \in 0..MaxSeq
    /\ journal \subseteq Entries
    /\ ack \in Nat \cup {NULL}
    /\ past \in [0..MaxSeq -> [Episodes -> RowImages]]
    /\ past[head] = LedgerImages

\* Row ids are given once.
RowsOK ==
    /\ \A e \in Episodes : src[e] # NULL => 0 < src[e].rid /\ src[e].rid < nextRid
    /\ \A x, y \in Episodes :
          src[x] # NULL /\ src[y] # NULL /\ src[x].rid = src[y].rid => x = y

\* Every entry up to the head is acknowledged or in the journal, once.
JournalOK ==
    /\ ack # NULL => ack <= head
    /\ \A r \in journal : r.seq \in 1..head
    /\ \A r, q \in journal : r.seq = q.seq => r = q
    /\ \A s \in 1..head : (ack # NULL /\ s <= ack) \/ \E r \in journal : r.seq = s

\* The last entry of a key up to g leads to the row as it stood at g.
LastAt(g) ==
    \A r \in journal :
        /\ r.seq <= g
        /\ \A q \in journal : q.key = r.key /\ q.seq <= g => q.seq <= r.seq
        => r.image = past[g][r.key]

Pending(e, low, high) == \E r \in journal : r.key = e /\ low < r.seq /\ r.seq <= high

Uncopied(p, e) == src[e] # NULL /\ p.cursor < src[e].rid /\ src[e].rid <= p.bound

\* A replica row is the ledger's, or the journal or the copy will make it so.
ReplicaOK(p) ==
    /\ p \in Replicas
    /\ p.through <= head
    /\ ack # NULL => ack <= p.through
    /\ p.bound < nextRid
    /\ \A e \in Episodes :
          Pending(e, p.through, head) \/ p.rows[e] = past[head][e] \/ Uncopied(p, e)

\* The same against the snapshot a build brings its replica to.
GoalOK ==
    /\ goal.seq \in rep.through..head
    /\ LastAt(goal.seq)
    /\ \A e \in Episodes :
          Pending(e, rep.through, goal.seq) \/ rep.rows[e] = past[goal.seq][e]

Taken(b) == b.through \in 0..head /\ b.partials = Partials(past[b.through], b.stale)

BuildOK ==
    /\ stage \in {"idle", "begin", "copy", "target", "apply", "aggregate", "built",
                  "deadline", "failed"}
    /\ rep = NULL \/ ReplicaOK(rep)
    /\ stage \in {"copy", "target", "apply", "aggregate", "built"} => ReplicaOK(rep)
    /\ stage \in {"target", "apply", "aggregate", "built"} => rep.cursor = rep.bound
    /\ stage \in {"apply", "aggregate"} => GoalOK
    /\ stage = "aggregate" => rep.through = goal.seq
    /\ stage = "built" => Taken(built) /\ built.through = rep.through
    /\ stage = "idle" /\ ~liveReplica => rep = NULL
    /\ pub # NULL => Taken(pub)

RollupInv == LedgerTypes /\ RowsOK /\ JournalOK /\ LastAt(head) /\ BuildOK

LEMMA RollupInitInv == RollupInit => RollupInv
<1> SUFFICES ASSUME RollupInit PROVE RollupInv
    OBVIOUS
<1>1. NoRows \in [Episodes -> RowImages]
    BY DEF NoRows, RowImages
<1>2. LedgerImages = NoRows
    BY DEF RollupInit, LedgerImages, NoRows
<1>3. LedgerTypes
    BY <1>1, <1>2, RollupAssumption DEF RollupInit, LedgerTypes
<1>4. RowsOK /\ JournalOK /\ LastAt(head)
    BY DEF RollupInit, RowsOK, JournalOK, LastAt
<1>5. BuildOK
    BY DEF RollupInit, BuildOK
<1> QED
    BY <1>3, <1>4, <1>5 DEF RollupInv

(***************************************************************************)
(* A ledger change of row e: n new entries of e, the last of them the row  *)
(* as it now is.                                                           *)
(***************************************************************************)
LEMMA Journals ==
    ASSUME RollupInv, NEW e \in Episodes, NEW n \in {1, 2}, NEW new \in SUBSET Entries,
           \A r \in new : r.key = e /\ r.seq \in (head + 1)..(head + n),
           \A r, q \in new : r.seq = q.seq => r = q,
           \A s \in (head + 1)..(head + n) : \E r \in new : r.seq = s,
           \A r \in new : r.seq = head + n => r.image = LedgerImages'[e],
           src' \in [Episodes -> RowType \cup {NULL}],
           \A x \in Episodes \ {e} : src'[x] = src[x],
           nextRid' \in Nat \ {0}, nextRid <= nextRid',
           RowsOK',
           head' = head + n, head' <= MaxSeq, journal' = journal \cup new,
           past' = [past EXCEPT ![head + n] = LedgerImages'],
           UNCHANGED <<ack, liveReplica, stage, rep, goal, built, pub>>
    PROVE  RollupInv'
<1>1. head \in Nat /\ head' \in 0..MaxSeq /\ head < head' /\ MaxSeq \in Nat
    BY RollupAssumption DEF RollupInv, LedgerTypes
<1>2. LedgerImages' \in [Episodes -> RowImages]
    BY DEF LedgerImages, RowImages, RowType
<1>3. /\ past' \in [0..MaxSeq -> [Episodes -> RowImages]]
      /\ past'[head'] = LedgerImages'
      /\ \A g \in 0..head : past'[g] = past[g]
    BY <1>1, <1>2 DEF RollupInv, LedgerTypes
<1>4. \A x \in Episodes \ {e} : past'[head'][x] = past[head][x]
  <2>1. past[head] = LedgerImages
      BY DEF RollupInv, LedgerTypes
  <2> QED
      BY <1>3, <2>1 DEF LedgerImages
<1>5. LedgerTypes'
    BY <1>1, <1>3 DEF RollupInv, LedgerTypes
<1>6. JournalOK'
  <2>1. \A r \in journal : r.seq \in 1..head
      BY DEF RollupInv, JournalOK
  <2>2. \A r \in new : r.seq \in 1..head' /\ r.seq > head
      BY <1>1
  <2>3. \A r \in journal' : r.seq \in 1..head'
      BY <1>1, <2>1, <2>2
  <2>4. \A r, q \in journal' : r.seq = q.seq => r = q
      BY <1>1, <2>1, <2>2 DEF RollupInv, JournalOK
  <2>5. \A s \in 1..head' : (ack' # NULL /\ s <= ack') \/ \E r \in journal' : r.seq = s
    <3> SUFFICES ASSUME NEW s \in 1..head'
                 PROVE  (ack # NULL /\ s <= ack) \/ \E r \in journal' : r.seq = s
        OBVIOUS
    <3>1. CASE s <= head
        BY <1>1, <3>1 DEF RollupInv, JournalOK
    <3>2. CASE s > head
        BY <1>1, <3>2
    <3> QED
        BY <1>1, <3>1, <3>2
  <2>6. ack' # NULL => ack' <= head'
      BY <1>1 DEF RollupInv, JournalOK, LedgerTypes
  <2> QED
      BY <2>3, <2>4, <2>5, <2>6 DEF JournalOK
<1>7. \A g \in 0..head : LastAt(g) => LastAt(g)'
  <2> SUFFICES ASSUME NEW g \in 0..head, LastAt(g), NEW r \in journal', r.seq <= g,
                      \A q \in journal' : q.key = r.key /\ q.seq <= g => q.seq <= r.seq
               PROVE  r.image = past'[g][r.key]
      BY DEF LastAt
  <2>1. r \in journal
      BY <1>1
  <2> QED
      BY <1>3, <2>1 DEF LastAt
<1>8. LastAt(head)'
  <2> SUFFICES ASSUME NEW r \in journal',
                      \A q \in journal' : q.key = r.key /\ q.seq <= head' => q.seq <= r.seq
               PROVE  r.image = past'[head'][r.key]
      BY DEF LastAt
  <2>1. \A q \in new : q.seq \in Nat /\ q.seq <= head'
      BY <1>1
  <2>2. PICK z \in new : z.seq = head'
      BY <1>1
  <2>3. CASE r.key = e
    <3>1. z.seq <= r.seq
        BY <2>1, <2>2, <2>3
    <3>2. r.seq \in 1..head'
        BY <1>6 DEF JournalOK
    <3>3. r = z
        BY <1>6, <2>2, <3>1, <3>2 DEF JournalOK
    <3> QED
        BY <1>3, <2>2, <2>3, <3>3
  <2>4. CASE r.key # e
    <3>1. r \in journal /\ r.key \in Episodes
        BY <2>4 DEF RollupInv, LedgerTypes, Entries
    <3>2. \A q \in journal : q.seq \in 1..head
        BY DEF RollupInv, JournalOK
    <3>3. \A q \in journal : q.key = r.key /\ q.seq <= head => q.seq <= r.seq
        BY <1>1, <3>2
    <3>4. r.image = past[head][r.key]
        BY <3>1, <3>2, <3>3 DEF RollupInv, LastAt
    <3> QED
        BY <1>4, <2>4, <3>1, <3>4
  <2> QED
      BY <2>3, <2>4
<1>9. \A x \in Episodes, low \in Nat, high \in Nat :
         Pending(x, low, high) => Pending(x, low, high)'
    BY DEF Pending
<1>10. ASSUME ReplicaOK(rep) PROVE ReplicaOK(rep)'
  <2>1. rep \in Replicas /\ rep.through \in Nat /\ rep.through <= head /\ rep.bound \in Nat
      BY <1>10 DEF ReplicaOK, Replicas
  <2>2. Pending(e, rep.through, head)'
    <3>1. PICK z \in new : z.seq = head'
        BY <1>1
    <3> QED
        BY <1>1, <2>1, <3>1 DEF Pending
  <2>3. ASSUME NEW x \in Episodes \ {e}
        PROVE  Pending(x, rep.through, head)' \/ rep.rows[x] = past'[head'][x] \/ Uncopied(rep, x)'
    <3>1. CASE Pending(x, rep.through, head)
      <4>1. PICK r \in journal : r.key = x /\ rep.through < r.seq /\ r.seq <= head
          BY <3>1 DEF Pending
      <4>2. r.seq <= head'
          BY <1>1, <4>1 DEF RollupInv, LedgerTypes, Entries
      <4> QED
          BY <4>1, <4>2 DEF Pending
    <3>2. CASE rep.rows[x] = past[head][x]
        BY <1>4, <3>2
    <3>3. CASE Uncopied(rep, x)
        BY <3>3 DEF Uncopied
    <3> QED
        BY <1>10, <3>1, <3>2, <3>3 DEF ReplicaOK
  <2>4. rep' = rep /\ ack' = ack
      OBVIOUS
  <2>5. rep.through <= head' /\ rep.bound < nextRid'
      BY <1>1, <1>10, <2>1 DEF ReplicaOK, RollupInv, LedgerTypes
  <2> QED
      BY <1>10, <2>1, <2>2, <2>3, <2>4, <2>5 DEF ReplicaOK
<1>11. ASSUME GoalOK, rep.through \in Nat PROVE GoalOK'
  <2>1. goal.seq \in 0..head /\ goal.seq \in rep.through..head'
      BY <1>1, <1>11 DEF GoalOK
  <2>2. LastAt(goal.seq)'
      BY <1>7, <1>11, <2>1 DEF GoalOK
  <2>3. \A x \in Episodes :
           Pending(x, rep.through, goal.seq)' \/ rep.rows[x] = past'[goal.seq][x]
      BY <1>3, <1>9, <1>11, <2>1 DEF GoalOK
  <2> QED
      BY <2>1, <2>2, <2>3 DEF GoalOK
<1>12. \A b : Taken(b) => Taken(b)'
    BY <1>1, <1>3 DEF Taken
<1>13. BuildOK'
    BY <1>10, <1>11, <1>12 DEF RollupInv, BuildOK, ReplicaOK, Replicas
<1> QED
    BY <1>5, <1>6, <1>8, <1>13 DEF RollupInv

LEMMA FirstMany ==
    ASSUME NEW n \in Nat PROVE Cardinality(1..n) = n
<1>1. 1 \in Int /\ n \in Int
    OBVIOUS
<1>2. Cardinality(1..n) = IF 1 > n THEN 0 ELSE n - 1 + 1
    BY <1>1, FS_Interval, Zenon
<1> DEFINE c == Cardinality(1..n)
<1>3. c = IF 1 > n THEN 0 ELSE n - 1 + 1
    BY <1>2
<1> HIDE DEF c
<1>4. c = n
    BY <1>3
<1> QED
    BY <1>4 DEF c

\* The entries of a change that logs one row, and of one that logs two.
EntriesOf(s) == {[seq |-> head + i, key |-> s[i].key, image |-> s[i].image] : i \in DOMAIN s}

LEMMA OneEntry ==
    ASSUME RollupInv, NEW e \in Episodes, NEW v \in RowImages
    PROVE  LET s == <<[key |-> e, image |-> v]>>
           IN  /\ Cardinality(DOMAIN s) = 1
               /\ EntriesOf(s) = {[seq |-> head + 1, key |-> e, image |-> v]}
<1> DEFINE s == <<[key |-> e, image |-> v]>>
<1>b. Cardinality(1..1) = 1
    BY FirstMany
<1>1. DOMAIN s = 1..1 /\ Cardinality(1..1) = 1
    BY <1>b
<1>2. s[1] = [key |-> e, image |-> v]
    OBVIOUS
<1>3. EntriesOf(s) = {[seq |-> head + 1, key |-> e, image |-> v]}
    BY <1>1, <1>2 DEF EntriesOf
<1> QED
    BY <1>1, <1>3

LEMMA TwoEntries ==
    ASSUME RollupInv, NEW e \in Episodes, NEW v \in RowImages
    PROVE  LET s == <<[key |-> e, image |-> NULL], [key |-> e, image |-> v]>>
           IN  /\ Cardinality(DOMAIN s) = 2
               /\ EntriesOf(s) = {[seq |-> head + 1, key |-> e, image |-> NULL],
                                  [seq |-> head + 2, key |-> e, image |-> v]}
<1> DEFINE s == <<[key |-> e, image |-> NULL], [key |-> e, image |-> v]>>
<1>b. Cardinality(1..2) = 2
    BY FirstMany
<1>1. DOMAIN s = 1..2 /\ Cardinality(1..2) = 2
    BY <1>b
<1>2. s[1] = [key |-> e, image |-> NULL] /\ s[2] = [key |-> e, image |-> v]
    OBVIOUS
<1>3. EntriesOf(s) = {[seq |-> head + 1, key |-> e, image |-> NULL],
                      [seq |-> head + 2, key |-> e, image |-> v]}
    BY <1>1, <1>2 DEF EntriesOf
<1> QED
    BY <1>1, <1>3

LEMMA InsertRowInv ==
    ASSUME RollupInv, NEW e \in Episodes, NEW v \in Versions[e], InsertRow(e, v)
    PROVE  RollupInv'
<1>1. v \in RowImages /\ NULL \in RowImages
    BY DEF RowImages
<1>2. v \in UNION {Versions[x] : x \in Episodes} /\ NULL \notin RowType
    BY RollupAssumption
<1>3. head \in Nat /\ nextRid \in Nat \ {0} /\ src \in [Episodes -> RowType \cup {NULL}]
    BY DEF RollupInv, LedgerTypes
<1> DEFINE row == [rid |-> nextRid, image |-> v]
           first == [seq |-> head + 1, key |-> e, image |-> v]
           gone == [seq |-> head + 1, key |-> e, image |-> NULL]
           second == [seq |-> head + 2, key |-> e, image |-> v]
<1>4. row \in RowType /\ row # NULL /\ row.rid = nextRid /\ row.image = v
    BY <1>2, <1>3 DEF RowType
<1>5. /\ src' = [src EXCEPT ![e] = row] /\ nextRid' = nextRid + 1
      /\ UNCHANGED <<ack, liveReplica, stage, rep, goal, built, pub>>
    BY DEF InsertRow, Journalled
<1>6. /\ src' \in [Episodes -> RowType \cup {NULL}] /\ src'[e] = row
      /\ \A x \in Episodes \ {e} : src'[x] = src[x]
    BY <1>3, <1>4, <1>5
<1>7. nextRid' \in Nat \ {0} /\ nextRid <= nextRid'
    BY <1>3, <1>5
<1>8. RowsOK'
  <2>1. \A x \in Episodes : src'[x] # NULL => 0 < src'[x].rid /\ src'[x].rid < nextRid'
    <3> SUFFICES ASSUME NEW x \in Episodes, src'[x] # NULL
                 PROVE  0 < src'[x].rid /\ src'[x].rid < nextRid'
        OBVIOUS
    <3>1. CASE x = e
        BY <1>3, <1>4, <1>5, <1>6, <3>1
    <3>2. CASE x # e
      <4>1. src[x] \in RowType /\ src'[x] = src[x]
          BY <1>3, <1>6, <3>2
      <4> QED
          BY <1>3, <1>5, <4>1 DEF RollupInv, RowsOK, RowType
    <3> QED
        BY <3>1, <3>2
  <2>2. ASSUME NEW x \in Episodes, NEW y \in Episodes,
               src'[x] # NULL, src'[y] # NULL, src'[x].rid = src'[y].rid
        PROVE  x = y
    <3>1. ASSUME NEW z \in Episodes \ {e}, src'[z] # NULL PROVE src'[z].rid # nextRid
      <4>1. src[z] \in RowType /\ src'[z] = src[z]
          BY <1>3, <1>6, <3>1
      <4>2. src[z].rid \in Nat /\ src[z].rid < nextRid
          BY <3>1, <4>1 DEF RollupInv, RowsOK, RowType
      <4> QED
          BY <1>3, <4>1, <4>2
    <3> QED
        BY <1>4, <1>6, <2>2, <3>1 DEF RollupInv, RowsOK
  <2> QED
      BY <2>1, <2>2 DEF RowsOK
<1>9. LedgerImages'[e] = v
    BY <1>4, <1>6 DEF LedgerImages
<1>10. CASE src[e] = NULL
  <2>1. Journalled(<<[key |-> e, image |-> v]>>)
      BY <1>10 DEF InsertRow
  <2>2. /\ head' = head + 1 /\ head' <= MaxSeq /\ journal' = journal \cup {first}
        /\ past' = [past EXCEPT ![head + 1] = LedgerImages']
      BY <1>1, <2>1, OneEntry DEF Journalled, EntriesOf
  <2> DEFINE new == {first}
  <2>3. new \in SUBSET Entries
      BY <1>1, <1>3 DEF Entries
  <2>4. /\ \A r \in new : r.key = e /\ r.seq \in (head + 1)..(head + 1)
        /\ \A r, q \in new : r.seq = q.seq => r = q
        /\ \A s \in (head + 1)..(head + 1) : \E r \in new : r.seq = s
        /\ \A r \in new : r.seq = head + 1 => r.image = LedgerImages'[e]
      BY <1>3, <1>9
  <2>5. journal' = journal \cup new /\ 1 \in {1, 2}
      BY <2>2
  <2> HIDE DEF new
  <2> QED
      BY <1>5, <1>6, <1>7, <1>8, <2>2, <2>3, <2>4, <2>5, Journals, Zenon
<1>11. CASE src[e] # NULL
  <2>1. Journalled(<<[key |-> e, image |-> NULL], [key |-> e, image |-> v]>>)
      BY <1>11 DEF InsertRow
  <2>2. /\ head' = head + 2 /\ head' <= MaxSeq /\ journal' = journal \cup {gone, second}
        /\ past' = [past EXCEPT ![head + 2] = LedgerImages']
      BY <1>1, <2>1, TwoEntries DEF Journalled, EntriesOf
  <2> DEFINE new == {gone, second}
  <2>3. new \in SUBSET Entries
      BY <1>1, <1>3 DEF Entries
  <2>4. /\ \A r \in new : r.key = e /\ r.seq \in (head + 1)..(head + 2)
        /\ \A r, q \in new : r.seq = q.seq => r = q
        /\ \A s \in (head + 1)..(head + 2) : \E r \in new : r.seq = s
        /\ \A r \in new : r.seq = head + 2 => r.image = LedgerImages'[e]
      BY <1>3, <1>9
  <2>5. journal' = journal \cup new /\ 2 \in {1, 2}
      BY <2>2
  <2> HIDE DEF new
  <2> QED
      BY <1>5, <1>6, <1>7, <1>8, <2>2, <2>3, <2>4, <2>5, Journals, Zenon
<1> QED
    BY <1>10, <1>11

LEMMA UpdateRowInv ==
    ASSUME RollupInv, NEW e \in Episodes, NEW v \in Versions[e], UpdateRow(e, v)
    PROVE  RollupInv'
<1>1. v \in RowImages /\ v \in UNION {Versions[x] : x \in Episodes} /\ NULL \notin RowType
    BY RollupAssumption DEF RowImages
<1>2. head \in Nat /\ nextRid \in Nat \ {0} /\ src \in [Episodes -> RowType \cup {NULL}]
    BY DEF RollupInv, LedgerTypes
<1> DEFINE row == [src[e] EXCEPT !.image = v]
           new == {[seq |-> head + 1, key |-> e, image |-> v]}
<1>3. src[e] \in RowType
    BY <1>2 DEF UpdateRow
<1>4. row \in RowType /\ row # NULL /\ row.rid = src[e].rid /\ row.image = v
    BY <1>1, <1>3 DEF RowType
<1>5. /\ src' = [src EXCEPT ![e] = row] /\ nextRid' = nextRid
      /\ UNCHANGED <<ack, liveReplica, stage, rep, goal, built, pub>>
    BY DEF UpdateRow, Journalled
<1>6. /\ src' \in [Episodes -> RowType \cup {NULL}] /\ src'[e] = row
      /\ \A x \in Episodes \ {e} : src'[x] = src[x]
    BY <1>2, <1>4, <1>5
<1>7. nextRid' \in Nat \ {0} /\ nextRid <= nextRid'
    BY <1>2, <1>5
<1>8. RowsOK'
  <2>1. \A x \in Episodes : src'[x] # NULL => src[x] # NULL /\ src'[x].rid = src[x].rid
      BY <1>1, <1>3, <1>4, <1>6
  <2> QED
      BY <1>5, <2>1 DEF RollupInv, RowsOK
<1>9. LedgerImages'[e] = v
    BY <1>4, <1>6 DEF LedgerImages
<1>10. Journalled(<<[key |-> e, image |-> v]>>)
    BY DEF UpdateRow
<1>11. /\ head' = head + 1 /\ head' <= MaxSeq /\ journal' = journal \cup new
       /\ past' = [past EXCEPT ![head + 1] = LedgerImages']
    BY <1>1, <1>10, OneEntry DEF Journalled, EntriesOf
<1>12. new \in SUBSET Entries /\ 1 \in {1, 2}
    BY <1>1, <1>2 DEF Entries
<1>13. /\ \A r \in new : r.key = e /\ r.seq \in (head + 1)..(head + 1)
       /\ \A r, q \in new : r.seq = q.seq => r = q
       /\ \A s \in (head + 1)..(head + 1) : \E r \in new : r.seq = s
       /\ \A r \in new : r.seq = head + 1 => r.image = LedgerImages'[e]
    BY <1>2, <1>9
<1> HIDE DEF new, row
<1> QED
    BY <1>5, <1>6, <1>7, <1>8, <1>11, <1>12, <1>13, Journals, Zenon

LEMMA DeleteRowInv ==
    ASSUME RollupInv, NEW e \in Episodes, DeleteRow(e)
    PROVE  RollupInv'
<1>1. NULL \in RowImages /\ NULL \notin RowType
    BY RollupAssumption DEF RowImages
<1>2. head \in Nat /\ nextRid \in Nat \ {0} /\ src \in [Episodes -> RowType \cup {NULL}]
    BY DEF RollupInv, LedgerTypes
<1> DEFINE new == {[seq |-> head + 1, key |-> e, image |-> NULL]}
<1>5. /\ src' = [src EXCEPT ![e] = NULL] /\ nextRid' = nextRid
      /\ UNCHANGED <<ack, liveReplica, stage, rep, goal, built, pub>>
    BY DEF DeleteRow, Journalled
<1>6. /\ src' \in [Episodes -> RowType \cup {NULL}] /\ src'[e] = NULL
      /\ \A x \in Episodes \ {e} : src'[x] = src[x]
    BY <1>2, <1>5
<1>7. nextRid' \in Nat \ {0} /\ nextRid <= nextRid'
    BY <1>2, <1>5
<1>8. RowsOK'
  <2>1. \A x \in Episodes : src'[x] # NULL => src'[x] = src[x]
      BY <1>6
  <2> QED
      BY <1>5, <2>1 DEF RollupInv, RowsOK
<1>9. LedgerImages'[e] = NULL
    BY <1>6 DEF LedgerImages
<1>10. Journalled(<<[key |-> e, image |-> NULL]>>)
    BY DEF DeleteRow
<1>11. /\ head' = head + 1 /\ head' <= MaxSeq /\ journal' = journal \cup new
       /\ past' = [past EXCEPT ![head + 1] = LedgerImages']
    BY <1>1, <1>10, OneEntry DEF Journalled, EntriesOf
<1>12. new \in SUBSET Entries /\ 1 \in {1, 2}
    BY <1>1, <1>2 DEF Entries
<1>13. /\ \A r \in new : r.key = e /\ r.seq \in (head + 1)..(head + 1)
       /\ \A r, q \in new : r.seq = q.seq => r = q
       /\ \A s \in (head + 1)..(head + 1) : \E r \in new : r.seq = s
       /\ \A r \in new : r.seq = head + 1 => r.image = LedgerImages'[e]
    BY <1>2, <1>9
<1> HIDE DEF new
<1> QED
    BY <1>5, <1>6, <1>7, <1>8, <1>11, <1>12, <1>13, Journals, Zenon

(***************************************************************************)
(* Dropping the entries up to a point at or past the acknowledgement loses *)
(* nothing that a replica which stands there or further needs.             *)
(***************************************************************************)
LEMMA Prunes ==
    ASSUME RollupInv, NEW low \in Nat, low <= head, ack # NULL => ack <= low,
           ack' = low, journal' = {r \in journal : r.seq > low},
           UNCHANGED <<src, nextRid, head, past>>
    PROVE  /\ LedgerTypes' /\ RowsOK' /\ JournalOK'
           /\ \A g \in 0..head : LastAt(g) => LastAt(g)'
           /\ \A e \in Episodes, g \in Nat, high \in Nat :
                 low <= g /\ Pending(e, g, high) => Pending(e, g, high)'
<1>1. head \in Nat /\ journal \subseteq Entries /\ ack \in Nat \cup {NULL} /\ NULL \notin Nat
    BY RollupAssumption DEF RollupInv, LedgerTypes
<1>2. \A r \in journal : r.seq \in 1..head /\ r.seq \in Nat
    BY <1>1 DEF RollupInv, JournalOK
<1>3. LedgerTypes'
  <2>1. journal' \subseteq Entries /\ ack' \in Nat \cup {NULL}
      BY <1>1
  <2>2. LedgerImages' = LedgerImages
      BY DEF LedgerImages
  <2> QED
      BY <2>1, <2>2 DEF RollupInv, LedgerTypes
<1>4. RowsOK'
    BY DEF RollupInv, RowsOK
<1>5. JournalOK'
  <2>1. ASSUME NEW s \in 1..head
        PROVE  (ack' # NULL /\ s <= ack') \/ \E r \in journal' : r.seq = s
    <3>1. CASE s <= low
        BY <1>1, <3>1
    <3>2. CASE s > low
      <4>1. ~(ack # NULL /\ s <= ack)
          BY <1>1, <3>2
      <4>2. PICK r \in journal : r.seq = s
          BY <2>1, <4>1 DEF RollupInv, JournalOK
      <4> QED
          BY <3>2, <4>2
    <3> QED
        BY <3>1, <3>2
  <2>2. \A r, q \in journal' : r.seq = q.seq => r = q
      BY DEF RollupInv, JournalOK
  <2>3. \A r \in journal' : r.seq \in 1..head
      BY <1>2
  <2> QED
      BY <2>1, <2>2, <2>3 DEF JournalOK
<1>6. \A g \in 0..head : LastAt(g) => LastAt(g)'
  <2> SUFFICES ASSUME NEW g \in 0..head, LastAt(g), NEW r \in journal', r.seq <= g,
                      \A q \in journal' : q.key = r.key /\ q.seq <= g => q.seq <= r.seq
               PROVE  r.image = past[g][r.key]
      BY DEF LastAt
  <2>1. r \in journal /\ r.seq > low
      OBVIOUS
  <2>2. \A q \in journal : q.key = r.key /\ q.seq <= g => q.seq <= r.seq
    <3> SUFFICES ASSUME NEW q \in journal, q.key = r.key, q.seq <= g PROVE q.seq <= r.seq
        OBVIOUS
    <3>1. CASE q.seq > low
        BY <3>1
    <3>2. CASE ~(q.seq > low)
        BY <1>2, <2>1, <3>2
    <3> QED
        BY <3>1, <3>2
  <2> QED
      BY <2>1, <2>2 DEF LastAt
<1>7. \A e \in Episodes, g \in Nat, high \in Nat :
         low <= g /\ Pending(e, g, high) => Pending(e, g, high)'
  <2> SUFFICES ASSUME NEW e \in Episodes, NEW g \in Nat, NEW high \in Nat, low <= g,
                      Pending(e, g, high)
               PROVE  \E r \in journal' : r.key = e /\ g < r.seq /\ r.seq <= high
      BY DEF Pending
  <2>1. PICK r \in journal : r.key = e /\ g < r.seq /\ r.seq <= high
      BY DEF Pending
  <2>2. r.seq > low
      BY <1>2, <2>1
  <2> QED
      BY <2>1, <2>2
<1> QED
    BY <1>3, <1>4, <1>5, <1>6, <1>7

\* ... and neither its relation to the ledger nor to the snapshot of a build.
LEMMA ReplicaKept ==
    ASSUME RollupInv, NEW low \in Nat, low <= head, ack # NULL => ack <= low,
           ack' = low, journal' = {r \in journal : r.seq > low},
           UNCHANGED <<src, nextRid, head, past, rep, goal>>,
           ReplicaOK(rep), low <= rep.through
    PROVE  ReplicaOK(rep)' /\ (GoalOK => GoalOK')
<1>1. head \in Nat /\ rep.through \in Nat /\ rep.bound \in Nat
    BY DEF RollupInv, LedgerTypes, ReplicaOK, Replicas
<1>2. /\ \A g \in 0..head : LastAt(g) => LastAt(g)'
      /\ \A e \in Episodes, g \in Nat, high \in Nat :
             low <= g /\ Pending(e, g, high) => Pending(e, g, high)'
    BY Prunes
<1>3. ReplicaOK(rep)'
  <2>1. \A e \in Episodes : Uncopied(rep, e) => Uncopied(rep, e)'
      BY DEF Uncopied
  <2> QED
      BY <1>1, <1>2, <2>1 DEF ReplicaOK
<1>4. ASSUME GoalOK PROVE GoalOK'
  <2>1. goal.seq \in 0..head /\ goal.seq \in Nat
      BY <1>1, <1>4 DEF GoalOK
  <2> QED
      BY <1>1, <1>2, <1>4, <2>1 DEF GoalOK
<1> QED
    BY <1>3, <1>4

LEMMA PruneJournalInv == ASSUME RollupInv, PruneJournal PROVE RollupInv'
<1>1. /\ head \in Nat /\ ack \in Nat \cup {NULL} /\ (ack # NULL => ack <= head)
    BY DEF RollupInv, LedgerTypes, JournalOK
<1>2. ack # NULL /\ journal' = {r \in journal : r.seq > ack} /\ ack' = ack /\ ack \in Nat
    BY <1>1 DEF PruneJournal, Unacknowledged
<1>3. UNCHANGED <<src, nextRid, head, past, rep, goal, stage, built, pub, liveReplica>>
    BY DEF PruneJournal
<1>4. LedgerTypes' /\ RowsOK' /\ JournalOK' /\ LastAt(head)'
  <2>1. head \in 0..head /\ ack <= head /\ ack <= ack
      BY <1>1, <1>2
  <2> QED
      BY <1>2, <1>3, <2>1, Prunes DEF RollupInv
<1>5. ReplicaOK(rep) => ReplicaOK(rep)' /\ (GoalOK => GoalOK')
  <2> SUFFICES ASSUME ReplicaOK(rep) PROVE ReplicaOK(rep)' /\ (GoalOK => GoalOK')
      OBVIOUS
  <2>1. ack <= rep.through /\ ack <= head /\ ack <= ack
      BY <1>1, <1>2 DEF ReplicaOK
  <2> QED
      BY <1>2, <1>3, <2>1, ReplicaKept
<1>6. \A b : Taken(b) => Taken(b)'
    BY <1>3 DEF Taken
<1> QED
    BY <1>3, <1>4, <1>5, <1>6 DEF RollupInv, BuildOK

(***************************************************************************)
(* The worker's steps leave the ledger and its journal alone.              *)
(***************************************************************************)
LEMMA LedgerStays ==
    ASSUME RollupInv, UNCHANGED <<ledgerVars, ack>>
    PROVE  /\ LedgerTypes' /\ RowsOK' /\ JournalOK' /\ LastAt(head)'
           /\ \A b : Taken(b) => Taken(b)'
           /\ ReplicaOK(rep) /\ rep' = rep => ReplicaOK(rep)'
           /\ GoalOK /\ rep' = rep /\ goal' = goal => GoalOK'
<1>1. UNCHANGED <<src, nextRid, head, journal, past, ack>>
    BY DEF ledgerVars
<1>2. LedgerTypes'
  <2>1. LedgerImages' = LedgerImages
      BY <1>1 DEF LedgerImages
  <2> QED
      BY <1>1, <2>1 DEF RollupInv, LedgerTypes
<1>3. RowsOK' /\ JournalOK' /\ LastAt(head)'
    BY <1>1 DEF RollupInv, RowsOK, JournalOK, LastAt
<1>4. \A b : Taken(b) => Taken(b)'
    BY <1>1 DEF Taken
<1>5. ReplicaOK(rep) /\ rep' = rep => ReplicaOK(rep)'
    BY <1>1 DEF ReplicaOK, Pending, Uncopied
<1>6. GoalOK /\ rep' = rep /\ goal' = goal => GoalOK'
    BY <1>1 DEF GoalOK, LastAt, Pending
<1> QED
    BY <1>2, <1>3, <1>4, <1>5, <1>6

LEMMA BeginReplicaInv == ASSUME RollupInv, BeginReplica PROVE RollupInv'
<1>1. /\ UNCHANGED <<src, nextRid, head, journal, past, ack, liveReplica, pub, goal, built>>
      /\ UNCHANGED <<ledgerVars, ack>>
    BY DEF BeginReplica, WorkerStep, ledgerVars
<1>2. ReplicaOK(rep)'
  <2>1. CASE rep # NULL
    <3>1. ReplicaOK(rep) /\ rep' = rep
        BY <2>1 DEF BeginReplica, RollupInv, BuildOK
    <3> QED
        BY <1>1, <3>1, LedgerStays
  <2>2. CASE rep = NULL
    <3> DEFINE new == [bound |-> nextRid - 1, cursor |-> 0, through |-> head, rows |-> NoRows]
    <3>1. rep' = new
        BY <2>2 DEF BeginReplica
    <3>2. head \in Nat /\ nextRid \in Nat \ {0} /\ src \in [Episodes -> RowType \cup {NULL}]
        BY DEF RollupInv, LedgerTypes
    <3>3. NoRows \in [Episodes -> RowImages]
        BY DEF NoRows, RowImages
    <3>4. new \in Replicas
        BY <3>2, <3>3 DEF Replicas
    <3>5. ASSUME NEW e \in Episodes PROVE new.rows[e] = past[head][e] \/ Uncopied(new, e)
      <4>1. CASE src[e] = NULL
        <5>1. past[head][e] = NULL
            BY <4>1 DEF RollupInv, LedgerTypes, LedgerImages
        <5> QED
            BY <5>1 DEF NoRows
      <4>2. CASE src[e] # NULL
        <5>1. src[e] \in RowType
            BY <3>2, <4>2
        <5>2. src[e].rid \in Nat /\ 0 < src[e].rid /\ src[e].rid < nextRid
            BY <4>2, <5>1 DEF RowType, RollupInv, RowsOK
        <5> QED
            BY <3>2, <4>2, <5>2 DEF Uncopied
      <4> QED
          BY <4>1, <4>2
    <3>6. (ack # NULL => ack <= head) /\ new.through = head /\ new.bound < nextRid /\ head <= head
        BY <3>2 DEF RollupInv, JournalOK
    <3> HIDE DEF new
    <3>7. ReplicaOK(new)
        BY <3>4, <3>5, <3>6 DEF ReplicaOK
    <3> QED
        BY <1>1, <3>1, <3>7 DEF ReplicaOK, Pending, Uncopied
  <2> QED
      BY <2>1, <2>2
<1>3. stage' = "copy"
    BY DEF BeginReplica
<1>4. LedgerTypes' /\ RowsOK' /\ JournalOK' /\ LastAt(head)' /\ (\A b : Taken(b) => Taken(b)')
    BY <1>1, LedgerStays
<1>5. BuildOK'
    BY <1>1, <1>2, <1>3, <1>4 DEF RollupInv, BuildOK
<1> QED
    BY <1>4, <1>5 DEF RollupInv

\* A page takes the lowest row not copied yet, as the ledger has it.
LEMMA CopyReplicaPageInv == ASSUME RollupInv, CopyReplicaPage PROVE RollupInv'
<1>1. /\ UNCHANGED <<src, nextRid, head, journal, past, ack, liveReplica, pub, goal, built>>
      /\ UNCHANGED <<ledgerVars, ack>>
    BY DEF CopyReplicaPage, WorkerStep, ledgerVars
<1>2. ReplicaOK(rep) /\ rep \in Replicas /\ src \in [Episodes -> RowType \cup {NULL}]
    BY DEF CopyReplicaPage, RollupInv, BuildOK, ReplicaOK, LedgerTypes
<1>3. rep.bound \in Nat /\ rep.cursor \in Nat /\ rep.through \in Nat /\ rep.rows \in [Episodes -> RowImages]
    BY <1>2 DEF Replicas
<1> DEFINE left == {e \in Episodes : src[e] # NULL /\ src[e].rid > rep.cursor /\ src[e].rid <= rep.bound}
<1>4. LedgerTypes' /\ RowsOK' /\ JournalOK' /\ LastAt(head)' /\ (\A b : Taken(b) => Taken(b)')
    BY <1>1, LedgerStays
<1>5. CASE left = {}
  <2>1. rep' = [rep EXCEPT !.cursor = rep.bound] /\ stage' = "target"
      BY <1>5 DEF CopyReplicaPage
  <2>2. /\ rep' \in Replicas /\ rep'.cursor = rep.bound /\ rep'.bound = rep.bound
        /\ rep'.through = rep.through /\ rep'.rows = rep.rows
      BY <1>2, <1>3, <2>1 DEF Replicas
  <2>3. ASSUME NEW e \in Episodes
        PROVE  Pending(e, rep.through, head) \/ rep.rows[e] = past[head][e]
    <3>1. ~Uncopied(rep, e)
      <4> SUFFICES ASSUME Uncopied(rep, e) PROVE FALSE
          OBVIOUS
      <4>1. src[e] \in RowType
          BY <1>2 DEF Uncopied
      <4>2. src[e].rid \in Nat
          BY <4>1 DEF RowType
      <4> QED
          BY <1>3, <1>5, <4>2 DEF Uncopied
    <3> QED
        BY <1>2, <3>1 DEF ReplicaOK
  <2>4. ReplicaOK(rep)'
      BY <1>1, <1>2, <2>2, <2>3 DEF ReplicaOK, Pending
  <2>5. BuildOK'
      BY <1>1, <1>4, <2>1, <2>2, <2>4 DEF RollupInv, BuildOK
  <2> QED
      BY <1>4, <2>5 DEF RollupInv
<1>6. CASE left # {}
  <2> DEFINE e == CHOOSE x \in left : \A y \in left : src[x].rid <= src[y].rid
  <2>1. \A x \in left : x \in Episodes /\ src[x] \in RowType /\ src[x].rid \in Nat
      BY <1>2 DEF RowType
  <2>2. \E x \in left : \A y \in left : src[x].rid <= src[y].rid
    <3> DEFINE ids == {src[x].rid : x \in left}
    <3>1. ids \in SUBSET Nat /\ ids # {}
        BY <1>6, <2>1
    <3>2. PICK n \in ids : \A m \in ids : n <= m
        BY <3>1, LeastNumber
    <3> QED
        BY <3>2
  <2>3. e \in left /\ \A y \in left : src[e].rid <= src[y].rid
      BY <2>2
  <2>4. rep' = [rep EXCEPT !.rows[e] = src[e].image, !.cursor = src[e].rid] /\ stage' = "copy"
      BY <1>6 DEF CopyReplicaPage
  <2> HIDE DEF e
  <2>5. /\ e \in Episodes /\ src[e] \in RowType /\ src[e] # NULL
        /\ src[e].rid \in Nat /\ src[e].rid > rep.cursor
      BY <2>1, <2>3
  <2>6. src[e].image \in RowImages
      BY <2>5 DEF RowType, RowImages
  <2>7. past[head][e] = src[e].image
      BY <2>5 DEF RollupInv, LedgerTypes, LedgerImages
  <2>8. /\ rep' \in Replicas /\ rep'.cursor = src[e].rid /\ rep'.bound = rep.bound
        /\ rep'.through = rep.through /\ rep'.rows[e] = src[e].image
        /\ \A x \in Episodes \ {e} : rep'.rows[x] = rep.rows[x]
      BY <1>2, <1>3, <2>4, <2>5, <2>6 DEF Replicas
  <2>9. ASSUME NEW x \in Episodes \ {e}, Uncopied(rep, x) PROVE Uncopied(rep', x)
    <3>1. x \in left
      <4>1. src[x] \in RowType
          BY <1>2, <2>9 DEF Uncopied
      <4>2. src[x].rid \in Nat
          BY <4>1 DEF RowType
      <4> QED
          BY <1>3, <2>9, <4>2 DEF Uncopied
    <3>2. src[e].rid <= src[x].rid /\ src[x].rid \in Nat /\ src[x] # NULL
        BY <2>1, <2>3, <3>1
    <3>3. src[e].rid # src[x].rid
        BY <2>5, <3>2 DEF RollupInv, RowsOK
    <3> QED
        BY <2>5, <2>8, <2>9, <3>2, <3>3 DEF Uncopied
  <2>10. ASSUME NEW x \in Episodes
         PROVE  \/ Pending(x, rep.through, head) \/ rep'.rows[x] = past[head][x]
                \/ Uncopied(rep', x)
    <3>1. CASE x = e
        BY <2>7, <2>8, <3>1
    <3>2. CASE x # e
        BY <1>2, <2>8, <2>9, <3>2 DEF ReplicaOK
    <3> QED
        BY <3>1, <3>2
  <2>11. ReplicaOK(rep)'
      BY <1>1, <1>2, <2>8, <2>10 DEF ReplicaOK, Pending, Uncopied
  <2>12. BuildOK'
      BY <1>1, <1>4, <2>4, <2>11 DEF RollupInv, BuildOK
  <2> QED
      BY <1>4, <2>12 DEF RollupInv
<1> QED
    BY <1>5, <1>6

LEMMA TargetSnapshotInv == ASSUME RollupInv, TargetSnapshot PROVE RollupInv'
<1>1. /\ UNCHANGED <<src, nextRid, head, journal, past, ack, liveReplica, pub, rep, built>>
      /\ UNCHANGED <<ledgerVars, ack>>
    BY DEF TargetSnapshot, WorkerStep, ledgerVars
<1>2. ReplicaOK(rep) /\ rep \in Replicas /\ rep.cursor = rep.bound
    BY DEF TargetSnapshot, RollupInv, BuildOK, ReplicaOK
<1>3. /\ LedgerTypes' /\ RowsOK' /\ JournalOK' /\ LastAt(head)' /\ (\A b : Taken(b) => Taken(b)')
      /\ ReplicaOK(rep)'
    BY <1>1, <1>2, LedgerStays
<1>4. rep.through \in Nat /\ rep.bound \in Nat /\ head \in Nat /\ rep.through <= head
    BY <1>2 DEF Replicas, ReplicaOK, RollupInv, LedgerTypes
<1>5. stage' = "apply" /\ goal' = [seq |-> head, epoch |-> ledgerEpoch]
    BY <1>4 DEF TargetSnapshot
<1>6. goal'.seq = head
    BY <1>5
<1>7. ASSUME NEW e \in Episodes
      PROVE  Pending(e, rep.through, head) \/ rep.rows[e] = past[head][e]
  <2>1. ~Uncopied(rep, e)
    <3> SUFFICES ASSUME Uncopied(rep, e) PROVE FALSE
        OBVIOUS
    <3>1. src[e] \in RowType
        BY DEF Uncopied, RollupInv, LedgerTypes
    <3>2. src[e].rid \in Nat
        BY <3>1 DEF RowType
    <3> QED
        BY <1>2, <1>4, <3>2 DEF Uncopied
  <2> QED
      BY <1>2, <2>1 DEF ReplicaOK
<1>8. GoalOK'
    BY <1>1, <1>3, <1>4, <1>6, <1>7 DEF GoalOK, Pending, LastAt
<1>9. BuildOK'
    BY <1>1, <1>2, <1>3, <1>5, <1>8 DEF RollupInv, BuildOK
<1> QED
    BY <1>3, <1>9 DEF RollupInv

(***************************************************************************)
(* The lowest entry past the replica is the next one for its key: either a *)
(* later one is still to come, or it leads to the row as it stands.        *)
(***************************************************************************)
LEMMA ApplyJournalPageInv == ASSUME RollupInv, ApplyJournalPage PROVE RollupInv'
<1>1. /\ UNCHANGED <<src, nextRid, head, journal, past, ack, liveReplica, pub, goal, built>>
      /\ UNCHANGED <<ledgerVars, ack>>
    BY DEF ApplyJournalPage, WorkerStep, ledgerVars
<1>2. ReplicaOK(rep) /\ rep \in Replicas /\ rep.cursor = rep.bound /\ GoalOK /\ stage = "apply"
    BY DEF ApplyJournalPage, RollupInv, BuildOK, ReplicaOK
<1>3. /\ rep.through \in Nat /\ rep.rows \in [Episodes -> RowImages] /\ head \in Nat
      /\ goal.seq \in rep.through..head /\ LastAt(goal.seq) /\ LastAt(head)
    BY <1>2 DEF Replicas, GoalOK, RollupInv, LedgerTypes
<1>4. \A r \in journal : r.seq \in Nat /\ r.key \in Episodes /\ r.image \in RowImages /\ r.seq <= head
    BY DEF RollupInv, LedgerTypes, JournalOK, Entries
<1>5. LedgerTypes' /\ RowsOK' /\ JournalOK' /\ LastAt(head)' /\ (\A b : Taken(b) => Taken(b)')
    BY <1>1, LedgerStays
<1> DEFINE due == {r \in journal : r.seq > rep.through /\ r.seq <= goal.seq}
<1>6. CASE rep.through >= goal.seq
  <2>1. stage' = "aggregate" /\ rep' = rep
      BY <1>6 DEF ApplyJournalPage
  <2>2. ReplicaOK(rep)' /\ GoalOK'
      BY <1>1, <1>2, <2>1, LedgerStays
  <2>3. rep.through = goal.seq
      BY <1>3, <1>6
  <2>4. BuildOK'
      BY <1>1, <1>2, <1>5, <2>1, <2>2, <2>3 DEF RollupInv, BuildOK
  <2> QED
      BY <1>5, <2>4 DEF RollupInv
<1>7. CASE ~(rep.through >= goal.seq)
  <2>1. due # {}
    <3>1. rep.through + 1 \in 1..head /\ rep.through + 1 <= goal.seq
        BY <1>3, <1>7
    <3>2. ~(ack # NULL /\ rep.through + 1 <= ack)
      <4>1. ack # NULL => ack \in Nat /\ ack <= rep.through
          BY <1>2 DEF ReplicaOK, RollupInv, LedgerTypes
      <4> QED
          BY <1>3, <4>1
    <3>3. PICK r \in journal : r.seq = rep.through + 1
        BY <3>1, <3>2 DEF RollupInv, JournalOK
    <3>4. r.seq > rep.through /\ r.seq <= goal.seq
        BY <1>3, <3>1, <3>3
    <3> QED
        BY <3>4
  <2> DEFINE r == CHOOSE x \in due : \A y \in due : x.seq <= y.seq
  <2>2. r \in due /\ \A y \in due : r.seq <= y.seq
    <3> DEFINE seqs == {x.seq : x \in due}
    <3>1. seqs \in SUBSET Nat /\ seqs # {}
        BY <1>4, <2>1
    <3>2. PICK n \in seqs : \A m \in seqs : n <= m
        BY <3>1, LeastNumber
    <3>3. \E x \in due : \A y \in due : x.seq <= y.seq
        BY <3>2
    <3> QED
        BY <3>3
  <2>3. rep' = [rep EXCEPT !.rows[r.key] = r.image, !.through = r.seq] /\ stage' = stage
      BY <1>7, <2>1 DEF ApplyJournalPage
  <2> HIDE DEF r
  <2>4. /\ r \in journal /\ r.seq > rep.through /\ r.seq <= goal.seq /\ r.seq \in Nat
        /\ r.key \in Episodes /\ r.image \in RowImages /\ r.seq <= head
      BY <1>4, <2>2
  <2>5. /\ rep' \in Replicas /\ rep'.cursor = rep.cursor /\ rep'.bound = rep.bound
        /\ rep'.through = r.seq /\ rep'.rows[r.key] = r.image
        /\ \A x \in Episodes \ {r.key} : rep'.rows[x] = rep.rows[x]
      BY <1>2, <1>3, <2>3, <2>4 DEF Replicas
  <2>6. ASSUME NEW g \in {head, goal.seq}, NEW e \in Episodes,
               Pending(e, rep.through, g) \/ rep.rows[e] = past[g][e] \/ Uncopied(rep, e)
        PROVE  Pending(e, r.seq, g) \/ rep'.rows[e] = past[g][e] \/ Uncopied(rep, e)
    <3>1. LastAt(g) /\ g \in Nat /\ goal.seq <= g /\ goal.seq \in Nat
        BY <1>3
    <3>2. CASE e = r.key
      <4>1. CASE \E q \in journal : q.key = e /\ r.seq < q.seq /\ q.seq <= g
          BY <4>1 DEF Pending
      <4>2. CASE ~\E q \in journal : q.key = e /\ r.seq < q.seq /\ q.seq <= g
        <5>1. \A q \in journal : q.key = r.key /\ q.seq <= g => q.seq <= r.seq
            BY <1>4, <2>4, <3>2, <4>2
        <5>2. r.seq <= g
            BY <2>4, <3>1
        <5>3. r.image = past[g][r.key]
            BY <2>4, <3>1, <5>1, <5>2 DEF LastAt
        <5> QED
            BY <2>5, <3>2, <5>3
      <4> QED
          BY <4>1, <4>2
    <3>3. CASE e # r.key
      <4>1. CASE Pending(e, rep.through, g)
        <5>1. PICK q \in journal : q.key = e /\ rep.through < q.seq /\ q.seq <= g
            BY <4>1 DEF Pending
        <5>2. q.seq # r.seq /\ q.seq \in Nat
            BY <1>4, <2>4, <3>3, <5>1 DEF RollupInv, JournalOK
        <5>3. q.seq <= goal.seq => q \in due
            BY <1>3, <5>1, <5>2
        <5>4. r.seq < q.seq
            BY <2>2, <2>4, <3>1, <5>2, <5>3
        <5> QED
            BY <5>1, <5>4 DEF Pending
      <4>2. CASE rep.rows[e] = past[g][e]
          BY <2>5, <3>3, <4>2
      <4> QED
          BY <2>6, <4>1, <4>2
    <3> QED
        BY <3>2, <3>3
  <2>7. ReplicaOK(rep)'
    <3>1. \A e \in Episodes :
             Pending(e, r.seq, head) \/ rep'.rows[e] = past[head][e] \/ Uncopied(rep, e)
        BY <1>2, <2>6 DEF ReplicaOK
    <3>2. \A e \in Episodes : Uncopied(rep, e) => Uncopied(rep, e)'
        BY <1>1, <2>5 DEF Uncopied
    <3>3. ack # NULL => ack <= r.seq
      <4>1. ack # NULL => ack \in Nat /\ ack <= rep.through
          BY <1>2 DEF ReplicaOK, RollupInv, LedgerTypes
      <4> QED
          BY <1>3, <2>4, <4>1
    <3> QED
        BY <1>1, <1>2, <2>4, <2>5, <3>1, <3>2, <3>3 DEF ReplicaOK, Pending
  <2>8. GoalOK'
    <3>1. ASSUME NEW e \in Episodes
          PROVE  Pending(e, r.seq, goal.seq) \/ rep'.rows[e] = past[goal.seq][e]
      <4>1. ~Uncopied(rep, e)
        <5> SUFFICES ASSUME Uncopied(rep, e) PROVE FALSE
            OBVIOUS
        <5>1. src[e] \in RowType
            BY DEF Uncopied, RollupInv, LedgerTypes
        <5>2. src[e].rid \in Nat /\ rep.bound \in Nat
            BY <1>2, <5>1 DEF RowType, Replicas
        <5> QED
            BY <1>2, <5>2 DEF Uncopied
      <4>2. Pending(e, rep.through, goal.seq) \/ rep.rows[e] = past[goal.seq][e]
          BY <1>2 DEF GoalOK
      <4> QED
          BY <2>6, <4>1, <4>2
    <3>2. goal.seq \in r.seq..head
        BY <1>3, <2>4
    <3> QED
        BY <1>1, <1>3, <2>5, <3>1, <3>2 DEF GoalOK, Pending, LastAt
  <2>9. BuildOK'
      BY <1>1, <1>2, <1>5, <2>3, <2>5, <2>7, <2>8 DEF RollupInv, BuildOK
  <2> QED
      BY <1>5, <2>9 DEF RollupInv
<1> QED
    BY <1>6, <1>7

\* A replica at the goal of its build holds the rows as they were there.
LEMMA AggregateReplicaInv ==
    ASSUME RollupInv, NEW stale, AggregateReplica(stale) PROVE RollupInv'
<1>1. /\ UNCHANGED <<src, nextRid, head, journal, past, ack, liveReplica, pub, goal, rep>>
      /\ UNCHANGED <<ledgerVars, ack>>
    BY DEF AggregateReplica, WorkerStep, ledgerVars
<1>2. /\ ReplicaOK(rep) /\ rep \in Replicas /\ rep.cursor = rep.bound /\ GoalOK
      /\ rep.through = goal.seq /\ stage' = "built"
    BY DEF AggregateReplica, RollupInv, BuildOK, ReplicaOK
<1>3. /\ rep.through \in 0..head /\ rep.rows \in [Episodes -> RowImages] /\ head \in Nat
      /\ past[rep.through] \in [Episodes -> RowImages]
  <2>1. rep.through \in Nat /\ rep.rows \in [Episodes -> RowImages] /\ head \in 0..MaxSeq
      BY <1>2 DEF Replicas, RollupInv, LedgerTypes
  <2>2. rep.through \in 0..MaxSeq /\ rep.through <= head /\ MaxSeq \in Nat
      BY <1>2, <2>1, RollupAssumption DEF ReplicaOK
  <2> QED
      BY <2>1, <2>2 DEF RollupInv, LedgerTypes
<1>4. \A e \in Episodes : rep.rows[e] = past[rep.through][e]
  <2>1. \A r \in journal : r.seq \in Nat
      BY DEF RollupInv, LedgerTypes, Entries
  <2>2. \A e \in Episodes : ~Pending(e, rep.through, rep.through)
      BY <1>3, <2>1 DEF Pending
  <2> QED
      BY <1>2, <2>2 DEF GoalOK
<1>5. rep.rows = past[rep.through]
    BY <1>3, <1>4
<1> DEFINE b == [partials |-> Partials(rep.rows, stale), epoch |-> goal.epoch,
                 through |-> rep.through, stale |-> stale]
<1>6. built' = b
    BY DEF AggregateReplica
<1>7. b.through = rep.through /\ b.stale = stale /\ b.partials = Partials(rep.rows, stale)
    OBVIOUS
<1> HIDE DEF b
<1>8. Taken(b)
    BY <1>3, <1>5, <1>7 DEF Taken
<1>9. /\ LedgerTypes' /\ RowsOK' /\ JournalOK' /\ LastAt(head)'
      /\ (\A x : Taken(x) => Taken(x)') /\ ReplicaOK(rep)'
    BY <1>1, <1>2, LedgerStays
<1>10. Taken(built)'
    BY <1>1, <1>6, <1>8 DEF Taken
<1>11. BuildOK'
    BY <1>1, <1>2, <1>6, <1>7, <1>9, <1>10 DEF RollupInv, BuildOK
<1> QED
    BY <1>9, <1>11 DEF RollupInv

LEMMA WorkerFailsInv ==
    ASSUME RollupInv, NEW deadline \in BOOLEAN, WorkerFails(deadline) PROVE RollupInv'
<1>1. /\ UNCHANGED <<src, nextRid, head, journal, past, ack, liveReplica, pub, goal, built>>
      /\ UNCHANGED <<ledgerVars, ack>>
    BY DEF WorkerFails, ledgerVars
<1>2. /\ LedgerTypes' /\ RowsOK' /\ JournalOK' /\ LastAt(head)' /\ (\A b : Taken(b) => Taken(b)')
      /\ (ReplicaOK(rep) /\ rep' = rep => ReplicaOK(rep)')
    BY <1>1, LedgerStays
<1>3. stage' \in {"deadline", "failed"} /\ (rep' = rep \/ rep' = NULL)
    BY DEF WorkerFails
<1>4. rep = NULL \/ ReplicaOK(rep)
    BY DEF RollupInv, BuildOK
<1>5. BuildOK'
    BY <1>1, <1>2, <1>3, <1>4 DEF RollupInv, BuildOK
<1> QED
    BY <1>2, <1>5 DEF RollupInv

LEMMA CollectFailureInv == ASSUME RollupInv, CollectFailure PROVE RollupInv'
<1>1. /\ UNCHANGED <<src, nextRid, head, journal, past, ack, pub, goal, built>>
      /\ UNCHANGED <<ledgerVars, ack>>
    BY DEF CollectFailure, ledgerVars
<1>2. /\ LedgerTypes' /\ RowsOK' /\ JournalOK' /\ LastAt(head)' /\ (\A b : Taken(b) => Taken(b)')
      /\ (ReplicaOK(rep) /\ rep' = rep => ReplicaOK(rep)')
    BY <1>1, LedgerStays
<1>3. stage' = "idle" /\ ((rep' = rep /\ liveReplica') \/ rep' = NULL)
    BY DEF CollectFailure
<1>4. rep = NULL \/ ReplicaOK(rep)
    BY DEF RollupInv, BuildOK
<1>5. BuildOK'
    BY <1>1, <1>2, <1>3, <1>4 DEF RollupInv, BuildOK
<1> QED
    BY <1>2, <1>5 DEF RollupInv

LEMMA WorkerDiesInv == ASSUME RollupInv, WorkerDies PROVE RollupInv'
<1>1. UNCHANGED <<ledgerVars, ack>> /\ pub' = pub
    BY DEF WorkerDies, ledgerVars
<1>2. /\ LedgerTypes' /\ RowsOK' /\ JournalOK' /\ LastAt(head)' /\ (\A b : Taken(b) => Taken(b)')
    BY <1>1, LedgerStays
<1>3. stage' = "idle" /\ rep' = NULL
    BY DEF WorkerDies
<1>4. BuildOK'
    BY <1>1, <1>2, <1>3 DEF RollupInv, BuildOK
<1> QED
    BY <1>2, <1>4 DEF RollupInv

\* Releasing the journal up to its head is harmless while no replica is held.
LEMMA SubmitBuildInv == ASSUME RollupInv, SubmitBuild PROVE RollupInv'
<1>1. /\ UNCHANGED <<src, nextRid, head, journal, past, liveReplica, pub, goal, built, rep>>
      /\ stage = "idle" /\ stage' = "begin"
    BY DEF SubmitBuild, ledgerVars
<1>2. head \in Nat /\ (ack # NULL => ack \in Nat /\ ack <= head) /\ NULL \notin Nat
    BY RollupAssumption DEF RollupInv, LedgerTypes, JournalOK
<1>3. LastAt(head)' /\ RowsOK' /\ LedgerImages' = LedgerImages /\ (\A b : Taken(b) => Taken(b)')
    BY <1>1 DEF RollupInv, LastAt, RowsOK, LedgerImages, Taken
<1>4. CASE liveReplica
  <2>1. ack' = ack
      BY <1>4 DEF SubmitBuild
  <2>2. LedgerTypes' /\ JournalOK'
      BY <1>1, <1>3, <2>1 DEF RollupInv, LedgerTypes, JournalOK
  <2>3. ReplicaOK(rep) => ReplicaOK(rep)'
      BY <1>1, <2>1 DEF ReplicaOK, Pending, Uncopied
  <2>4. BuildOK'
      BY <1>1, <1>3, <2>3 DEF RollupInv, BuildOK
  <2> QED
      BY <1>3, <2>2, <2>4 DEF RollupInv
<1>5. CASE ~liveReplica
  <2>1. ack' = ReleasedAck
      BY <1>5 DEF SubmitBuild
  <2>2. ReleasedAck = head
    <3>1. CASE ack = NULL
        BY <3>1 DEF ReleasedAck
    <3>2. CASE ack # NULL
      <4>1. Max({ack, head}) = head
          BY <1>2, <3>2 DEF Max
      <4> QED
          BY <3>2, <4>1 DEF ReleasedAck
    <3> QED
        BY <3>1, <3>2
  <2>3. rep = NULL
      BY <1>1, <1>5 DEF RollupInv, BuildOK
  <2>4. LedgerTypes'
      BY <1>1, <1>2, <1>3, <2>1, <2>2 DEF RollupInv, LedgerTypes
  <2>5. JournalOK'
      BY <1>1, <1>2, <2>1, <2>2 DEF RollupInv, JournalOK
  <2>6. BuildOK'
      BY <1>1, <1>3, <2>3 DEF RollupInv, BuildOK
  <2> QED
      BY <1>3, <2>4, <2>5, <2>6 DEF RollupInv
<1> QED
    BY <1>4, <1>5

LEMMA PublishRollupInv == ASSUME RollupInv, PublishRollup PROVE RollupInv'
<1>1. /\ UNCHANGED <<src, nextRid, head, past, rep, goal>>
      /\ stage = "built" /\ stage' = "idle" /\ liveReplica' = TRUE
    BY DEF PublishRollup
<1>2. ReplicaOK(rep) /\ Taken(built) /\ built.through = rep.through
    BY <1>1 DEF RollupInv, BuildOK
<1>3. CASE built.epoch # ledgerEpoch
  <2>1. UNCHANGED <<journal, ack, pub>>
      BY <1>3 DEF PublishRollup
  <2>2. LedgerImages' = LedgerImages
      BY <1>1 DEF LedgerImages
  <2>3. LedgerTypes' /\ RowsOK' /\ JournalOK' /\ LastAt(head)' /\ (\A b : Taken(b) => Taken(b)')
      BY <1>1, <2>1, <2>2 DEF RollupInv, LedgerTypes, RowsOK, JournalOK, LastAt, Taken
  <2>4. ReplicaOK(rep)'
      BY <1>1, <1>2, <2>1 DEF ReplicaOK, Pending, Uncopied
  <2>5. BuildOK'
      BY <1>1, <2>1, <2>3, <2>4 DEF RollupInv, BuildOK
  <2> QED
      BY <2>3, <2>5 DEF RollupInv
<1>4. CASE built.epoch = ledgerEpoch
  <2> DEFINE low == rep.through
  <2>1. ack' = low /\ journal' = Unacknowledged(journal, low) /\ pub' = built
      BY <1>2, <1>4 DEF PublishRollup
  <2>2. low \in Nat /\ low <= head /\ (ack # NULL => ack <= low) /\ NULL \notin Nat /\ head \in Nat
      BY <1>2, RollupAssumption DEF ReplicaOK, Replicas, RollupInv, LedgerTypes
  <2>3. journal' = {r \in journal : r.seq > low}
      BY <2>1, <2>2 DEF Unacknowledged
  <2>4. LedgerTypes' /\ RowsOK' /\ JournalOK' /\ LastAt(head)'
    <3>1. head \in 0..head
        BY <2>2
    <3> QED
        BY <1>1, <2>1, <2>2, <2>3, <3>1, Prunes DEF RollupInv
  <2>5. ReplicaOK(rep)'
    <3>1. low <= rep.through
        BY <2>2
    <3> QED
        BY <1>1, <1>2, <2>1, <2>2, <2>3, <3>1, ReplicaKept
  <2>6. Taken(pub)'
      BY <1>1, <1>2, <2>1 DEF Taken
  <2>7. BuildOK'
      BY <1>1, <2>5, <2>6 DEF RollupInv, BuildOK
  <2> QED
      BY <2>4, <2>7 DEF RollupInv
<1> QED
    BY <1>3, <1>4

(***************************************************************************)
(* What a window shows: the tiers' partial aggregates add up to the        *)
(* aggregate of the episodes themselves.                                   *)
(***************************************************************************)
OwnRows(table, owner, scope) == {e \in Episodes : table[e] # NULL /\ table[e].owner = owner /\ InScope(table[e], scope)}
Within(table, mine, T) == {e \in mine : table[e].tier \in T}
RowsAt(table, mine, p) == {table[e] : e \in {x \in mine : table[x].pos = p}}
OpenAt(table, mine, stale, p) == {r \in RowsAt(table, mine, p) : r.open /\ p \notin stale}
PositionsOf(table, mine) == {table[e].pos : e \in mine}
Unpriced(table, S) == {e \in S : table[e].gross = NULL}
Seen(table, mine, T) == {p \in PositionsOf(table, mine) : LatestTier(RowsAt(table, mine, p)) \in T}
SeenOpen(table, mine, stale, T) ==
    {p \in PositionsOf(table, mine) : /\ OpenAt(table, mine, stale, p) # {}
                                     /\ LatestTier(OpenAt(table, mine, stale, p)) \in T}
GrossOf(table, S) == NullableSum([e \in S |-> table[e].gross])

\* What the tiers of T hold together.
Gathered(table, mine, stale, T) ==
    [episodes |-> Cardinality(Within(table, mine, T)),
     missing |-> Cardinality(Unpriced(table, Within(table, mine, T))),
     gross |-> GrossOf(table, Within(table, mine, T)),
     positions |-> Cardinality(Seen(table, mine, T)),
     open |-> Cardinality(SeenOpen(table, mine, stale, T))]

LEMMA PartialIsGathered ==
    ASSUME NEW table, NEW stale, NEW owner, NEW scope, NEW t
    PROVE  Partial(table, stale, owner, scope, t) = Gathered(table, OwnRows(table, owner, scope), stale, {t})
<1> DEFINE mine == OwnRows(table, owner, scope)
<1>1. {e \in mine : table[e].tier = t} = Within(table, mine, {t})
    BY DEF Within
<1>2. {p \in PositionsOf(table, mine) : LatestTier(RowsAt(table, mine, p)) = t} = Seen(table, mine, {t})
    BY DEF Seen
<1>3. {p \in PositionsOf(table, mine) : /\ OpenAt(table, mine, stale, p) # {}
                                       /\ LatestTier(OpenAt(table, mine, stale, p)) = t}
      = SeenOpen(table, mine, stale, {t})
    BY DEF SeenOpen
<1>4. Partial(table, stale, owner, scope, t) =
        [episodes |-> Cardinality({e \in mine : table[e].tier = t}),
         missing |-> Cardinality({e \in {x \in mine : table[x].tier = t} : table[e].gross = NULL}),
         gross |-> NullableSum([e \in {x \in mine : table[x].tier = t} |-> table[e].gross]),
         positions |-> Cardinality({p \in PositionsOf(table, mine) : LatestTier(RowsAt(table, mine, p)) = t}),
         open |-> Cardinality({p \in PositionsOf(table, mine) :
                                  /\ OpenAt(table, mine, stale, p) # {}
                                  /\ LatestTier(OpenAt(table, mine, stale, p)) = t})]
    BY Zenon DEF Partial, OwnRows, PositionsOf, RowsAt, OpenAt
<1> HIDE DEF mine
<1>5. Partial(table, stale, owner, scope, t) = Gathered(table, mine, stale, {t})
    BY <1>1, <1>2, <1>3, <1>4, Zenon DEF Gathered, Unpriced, GrossOf
<1> QED
    BY <1>5 DEF mine

LEMMA GrossKnown ==
    ASSUME NEW table, NEW S, IsFiniteSet(S), \A e \in S : table[e].gross \in Int \cup {NULL}
    PROVE  LET known == {e \in S : table[e].gross # NULL}
               value == [e \in S |-> table[e].gross]
           IN  /\ IsFiniteSet(known) /\ \A e \in known : value[e] \in Int
               /\ GrossOf(table, S) = IF known = {} THEN NULL ELSE SumOver(value, known)
<1> DEFINE value == [e \in S |-> table[e].gross]
           known == {e \in S : table[e].gross # NULL}
<1>1. {x \in DOMAIN value : value[x] # NULL} = known
    OBVIOUS
<1>2. IsFiniteSet(known) /\ \A e \in known : value[e] \in Int
    BY FS_Subset
<1>3. GrossOf(table, S) = IF {x \in DOMAIN value : value[x] # NULL} = {} THEN NULL
                         ELSE SumOver(value, {x \in DOMAIN value : value[x] # NULL})
    BY DEF GrossOf, NullableSum, SumOver
<1> QED
    BY <1>1, <1>2, <1>3

\* Sums that leave out the missing add up.
LEMMA GrossAdds ==
    ASSUME NEW table, NEW S, IsFiniteSet(S), NEW T, IsFiniteSet(T), S \cap T = {},
           \A e \in S \cup T : table[e].gross \in Int \cup {NULL}
    PROVE  GrossOf(table, S \cup T) =
             IF GrossOf(table, S) = NULL THEN GrossOf(table, T)
             ELSE IF GrossOf(table, T) = NULL THEN GrossOf(table, S)
             ELSE GrossOf(table, S) + GrossOf(table, T)
<1> DEFINE known(A) == {e \in A : table[e].gross # NULL}
           value(A) == [e \in A |-> table[e].gross]
           whole == value(S \cup T)
           total(A) == SumOver(whole, known(A))
<1>1. IsFiniteSet(S \cup T) /\ known(S \cup T) = known(S) \cup known(T) /\ known(S) \cap known(T) = {}
    BY FS_Union
<1>2. \A A \in {S, T, S \cup T} : IsFiniteSet(A) /\ \A e \in A : table[e].gross \in Int \cup {NULL}
    BY <1>1
<1>3. \A A \in {S, T, S \cup T} : /\ IsFiniteSet(known(A))
                                  /\ \A e \in known(A) : value(A)[e] \in Int
                                  /\ GrossOf(table, A) = IF known(A) = {} THEN NULL ELSE SumOver(value(A), known(A))
    BY <1>2, GrossKnown
<1>4. \A A \in {S, T, S \cup T} : \A e \in known(A) : value(A)[e] = whole[e] /\ whole[e] \in Int
    BY <1>2
<1>5. \A A \in {S, T, S \cup T} : SumOver(value(A), known(A)) = total(A)
  <2> TAKE A \in {S, T, S \cup T}
  <2> DEFINE v == value(A)
             K == known(A)
  <2>1. IsFiniteSet(K) /\ \A e \in K : v[e] = whole[e]
      BY <1>3, <1>4
  <2> HIDE DEF v, K, whole
  <2>2. SumOver(v, K) = SumOver(whole, K)
      BY <2>1, SumSame
  <2> QED
      BY <2>2 DEF v, K
<1>6. \A A \in {S, T, S \cup T} : total(A) \in Int
    BY <1>3, <1>4, SumIsInt
<1>7. \A A \in {S, T, S \cup T} : GrossOf(table, A) = IF known(A) = {} THEN NULL ELSE total(A)
    BY <1>3, <1>5
<1>8. total(S \cup T) = total(S) + total(T)
  <2>1. SumOver(whole, known(S) \cup known(T)) = SumOver(whole, known(S)) + SumOver(whole, known(T))
      BY <1>1, <1>3, <1>4, SumUnion
  <2> QED
      BY <1>1, <2>1
<1>9. NULL \notin Int
    BY RollupAssumption
<1>10. \A A \in {S, T, S \cup T} : known(A) # {} => GrossOf(table, A) = total(A) /\ GrossOf(table, A) # NULL
    BY <1>6, <1>7, <1>9
<1>11. \A A \in {S, T, S \cup T} : known(A) = {} => GrossOf(table, A) = NULL
    BY <1>7
<1>12. CASE known(S) = {} /\ known(T) = {}
    BY <1>1, <1>11, <1>12
<1>13. CASE known(S) = {} /\ known(T) # {}
  <2>1. known(S \cup T) = known(T)
      BY <1>1, <1>13
  <2> QED
      BY <1>7, <1>11, <1>13, <2>1
<1>14. CASE known(S) # {} /\ known(T) = {}
  <2>1. known(S \cup T) = known(S)
      BY <1>1, <1>14
  <2> QED
      BY <1>7, <1>10, <1>11, <1>14, <2>1
<1>15. CASE known(S) # {} /\ known(T) # {}
  <2>1. known(S \cup T) # {}
      BY <1>1, <1>15
  <2> QED
      BY <1>8, <1>10, <1>15, <2>1
<1> QED
    BY <1>12, <1>13, <1>14, <1>15

LEMMA CardinalityAdds ==
    ASSUME NEW S, IsFiniteSet(S), NEW T, IsFiniteSet(T), S \cap T = {}
    PROVE  IsFiniteSet(S \cup T) /\ Cardinality(S \cup T) = Cardinality(S) + Cardinality(T)
           /\ Cardinality(S) \in Nat /\ Cardinality(T) \in Nat
BY FS_Union, FS_EmptySet, FS_CardinalityType

LEMMA MineIsFinite ==
    ASSUME NEW table \in [Episodes -> RowImages], NEW owner, NEW scope
    PROVE  LET mine == OwnRows(table, owner, scope)
           IN  /\ mine \subseteq Episodes /\ IsFiniteSet(mine) /\ IsFiniteSet(PositionsOf(table, mine))
               /\ \A e \in mine : table[e].tier \in 0..2 /\ table[e].gross \in Int \cup {NULL}
<1> DEFINE mine == OwnRows(table, owner, scope)
<1>1. mine \in SUBSET Episodes
    BY DEF OwnRows
<1>2. IsFiniteSet(mine)
    BY <1>1, RollupAssumption, FS_Subset
<1>3. IsFiniteSet(PositionsOf(table, mine))
  <2> DEFINE pos == [e \in mine |-> table[e].pos]
  <2> HIDE DEF mine
  <2>1. pos \in Surjection(mine, PositionsOf(table, mine))
      BY Zenon DEF Surjection, PositionsOf
  <2> QED
      BY <1>2, <2>1, FS_Surjection
<1>4. \A e \in mine : table[e] \in RowImages /\ table[e] # NULL
    BY DEF OwnRows
<1>5. \A v \in RowImages \ {NULL} : v.tier \in 0..2 /\ v.gross \in Int \cup {NULL}
    BY RollupAssumption DEF RowImages
<1> QED
    BY <1>1, <1>2, <1>3, <1>4, <1>5

LEMMA GatheredNone ==
    ASSUME NEW table, NEW mine, NEW stale
    PROVE  Gathered(table, mine, stale, {}) = NoActivity
<1>1. Within(table, mine, {}) = {} /\ Seen(table, mine, {}) = {} /\ SeenOpen(table, mine, stale, {}) = {}
    BY DEF Within, Seen, SeenOpen
<1>2. Unpriced(table, {}) = {}
    BY DEF Unpriced
<1>3. GrossOf(table, {}) = NULL
    BY DEF GrossOf, NullableSum
<1>4. Cardinality({}) = 0
    BY FS_EmptySet
<1> QED
    BY <1>1, <1>2, <1>3, <1>4, Zenon DEF Gathered, NoActivity

\* Adding a tier.
LEMMA GatheredMerges ==
    ASSUME NEW table \in [Episodes -> RowImages], NEW owner, NEW scope, NEW stale, NEW T, NEW t, t \notin T
    PROVE  LET mine == OwnRows(table, owner, scope)
           IN  MergeActivity(Gathered(table, mine, stale, T), Gathered(table, mine, stale, {t}))
               = Gathered(table, mine, stale, T \cup {t})
<1> DEFINE mine == OwnRows(table, owner, scope)
           U == T \cup {t}
           a == Gathered(table, mine, stale, T)
           b == Gathered(table, mine, stale, {t})
<1>1. /\ IsFiniteSet(mine) /\ IsFiniteSet(PositionsOf(table, mine))
      /\ \A e \in mine : table[e].gross \in Int \cup {NULL}
    BY MineIsFinite
<1> HIDE DEF mine
<1>2. /\ Within(table, mine, U) = Within(table, mine, T) \cup Within(table, mine, {t})
      /\ Within(table, mine, T) \cap Within(table, mine, {t}) = {}
      /\ \A V : Within(table, mine, V) \in SUBSET mine
    BY DEF Within
<1>3. /\ Seen(table, mine, U) = Seen(table, mine, T) \cup Seen(table, mine, {t})
      /\ Seen(table, mine, T) \cap Seen(table, mine, {t}) = {}
      /\ \A V : Seen(table, mine, V) \in SUBSET PositionsOf(table, mine)
    BY DEF Seen
<1>4. /\ SeenOpen(table, mine, stale, U) = SeenOpen(table, mine, stale, T) \cup SeenOpen(table, mine, stale, {t})
      /\ SeenOpen(table, mine, stale, T) \cap SeenOpen(table, mine, stale, {t}) = {}
      /\ \A V : SeenOpen(table, mine, stale, V) \in SUBSET PositionsOf(table, mine)
    BY DEF SeenOpen
<1>5. /\ Unpriced(table, Within(table, mine, U))
         = Unpriced(table, Within(table, mine, T)) \cup Unpriced(table, Within(table, mine, {t}))
      /\ Unpriced(table, Within(table, mine, T)) \cap Unpriced(table, Within(table, mine, {t})) = {}
      /\ \A V : Unpriced(table, Within(table, mine, V)) \in SUBSET mine
    BY <1>2 DEF Unpriced
<1>6. Cardinality(Within(table, mine, U)) = Cardinality(Within(table, mine, T)) + Cardinality(Within(table, mine, {t}))
  <2>1. IsFiniteSet(Within(table, mine, T)) /\ IsFiniteSet(Within(table, mine, {t}))
      BY <1>1, <1>2, FS_Subset
  <2> QED
      BY <1>2, <2>1, CardinalityAdds
<1>7. Cardinality(Unpriced(table, Within(table, mine, U)))
      = Cardinality(Unpriced(table, Within(table, mine, T))) + Cardinality(Unpriced(table, Within(table, mine, {t})))
  <2>1. IsFiniteSet(Unpriced(table, Within(table, mine, T))) /\ IsFiniteSet(Unpriced(table, Within(table, mine, {t})))
      BY <1>1, <1>5, FS_Subset
  <2> QED
      BY <1>5, <2>1, CardinalityAdds
<1>8. Cardinality(Seen(table, mine, U)) = Cardinality(Seen(table, mine, T)) + Cardinality(Seen(table, mine, {t}))
  <2>1. IsFiniteSet(Seen(table, mine, T)) /\ IsFiniteSet(Seen(table, mine, {t}))
      BY <1>1, <1>3, FS_Subset
  <2> QED
      BY <1>3, <2>1, CardinalityAdds
<1>9. Cardinality(SeenOpen(table, mine, stale, U))
      = Cardinality(SeenOpen(table, mine, stale, T)) + Cardinality(SeenOpen(table, mine, stale, {t}))
  <2>1. IsFiniteSet(SeenOpen(table, mine, stale, T)) /\ IsFiniteSet(SeenOpen(table, mine, stale, {t}))
      BY <1>1, <1>4, FS_Subset
  <2> QED
      BY <1>4, <2>1, CardinalityAdds
<1>10. GrossOf(table, Within(table, mine, U)) =
         IF a.gross = NULL THEN b.gross ELSE IF b.gross = NULL THEN a.gross ELSE a.gross + b.gross
  <2> DEFINE A == Within(table, mine, T)
             B == Within(table, mine, {t})
  <2>1. IsFiniteSet(A) /\ IsFiniteSet(B)
      BY <1>1, <1>2, FS_Subset
  <2>2. A \cap B = {} /\ \A e \in A \cup B : table[e].gross \in Int \cup {NULL}
      BY <1>1, <1>2
  <2>3. a.gross = GrossOf(table, A) /\ b.gross = GrossOf(table, B) /\ Within(table, mine, U) = A \cup B
      BY <1>2 DEF Gathered
  <2> HIDE DEF A, B, a, b, U
  <2>4. GrossOf(table, A \cup B) =
          IF GrossOf(table, A) = NULL THEN GrossOf(table, B)
          ELSE IF GrossOf(table, B) = NULL THEN GrossOf(table, A)
          ELSE GrossOf(table, A) + GrossOf(table, B)
      BY <2>1, <2>2, GrossAdds
  <2> QED
      BY <2>3, <2>4
<1>11. MergeActivity(a, b) = Gathered(table, mine, stale, U)
  <2>1. MergeActivity(a, b) =
          [episodes |-> a.episodes + b.episodes, missing |-> a.missing + b.missing,
           gross |-> IF a.gross = NULL THEN b.gross ELSE IF b.gross = NULL THEN a.gross ELSE a.gross + b.gross,
           positions |-> a.positions + b.positions, open |-> a.open + b.open]
      BY DEF MergeActivity
  <2>2. /\ a.episodes = Cardinality(Within(table, mine, T)) /\ b.episodes = Cardinality(Within(table, mine, {t}))
        /\ a.missing = Cardinality(Unpriced(table, Within(table, mine, T)))
        /\ b.missing = Cardinality(Unpriced(table, Within(table, mine, {t})))
        /\ a.positions = Cardinality(Seen(table, mine, T)) /\ b.positions = Cardinality(Seen(table, mine, {t}))
        /\ a.open = Cardinality(SeenOpen(table, mine, stale, T))
        /\ b.open = Cardinality(SeenOpen(table, mine, stale, {t}))
      BY DEF Gathered
  <2> HIDE DEF a, b, U
  <2> QED
      BY <1>6, <1>7, <1>8, <1>9, <1>10, <2>1, <2>2, Zenon DEF Gathered
<1> QED
    BY <1>11 DEF mine

TierFold(partials, owner, scope, depth) ==
    FoldSet(LAMBDA t, total : MergeActivity(total, partials[<<owner, scope, t>>]), NoActivity, 0..depth)

\* The fold over the tiers of a window gathers them, in whatever order.
LEMMA WindowIsGathered ==
    ASSUME NEW table \in [Episodes -> RowImages], NEW stale, NEW owner \in OwnersOf(table),
           NEW scope \in Scopes, NEW depth \in Tiers
    PROVE  TierFold(Partials(table, stale), owner, scope, depth)
           = Gathered(table, OwnRows(table, owner, scope), stale, 0..depth)
<1> DEFINE at(s) == Gathered(table, OwnRows(table, owner, scope), stale, s)
           step(f, s) == IF s = {} THEN NoActivity
                         ELSE MergeActivity(f[s \ {Pick(s)}], Partials(table, stale)[<<owner, scope, Pick(s)>>])
           K == 0..depth
           solves(f) == f = [s \in SUBSET K |-> step(f, s)]
           g == [s \in SUBSET K |-> at(s)]
<1>1. \A t \in Tiers : Partials(table, stale)[<<owner, scope, t>>] = at({t})
    BY PartialIsGathered DEF Partials
<1>2. K \subseteq Tiers /\ IsFiniteSet(K)
    BY FS_Interval DEF Tiers
<1>3. \A s \in SUBSET K : s # {} => Pick(s) \in s
    BY DEF Pick
<1>4. \A s \in SUBSET K : s # {} => at(s) = MergeActivity(at(s \ {Pick(s)}), at({Pick(s)}))
  <2> TAKE s \in SUBSET K
  <2> HAVE s # {}
  <2> DEFINE T == s \ {Pick(s)}
  <2>1. Pick(s) \notin T /\ T \cup {Pick(s)} = s
      BY <1>3
  <2> HIDE DEF T
  <2>2. MergeActivity(at(T), at({Pick(s)})) = at(T \cup {Pick(s)})
      BY <2>1, GatheredMerges
  <2> HIDE DEF at
  <2> QED
      BY <2>1, <2>2 DEF T
<1>5. at({}) = NoActivity
    BY GatheredNone
<1>6. \A s \in SUBSET K : s # {} => Partials(table, stale)[<<owner, scope, Pick(s)>>] = at({Pick(s)})
    BY <1>1, <1>2, <1>3
<1> HIDE DEF at, K
<1>7. solves(g)
  <2>1. \A s \in SUBSET K : at(s) = step(g, s)
    <3> TAKE s \in SUBSET K
    <3>1. CASE s = {}
        BY <3>1, <1>5
    <3>2. CASE s # {}
      <4>1. g[s \ {Pick(s)}] = at(s \ {Pick(s)})
          BY <1>3
      <4> QED
          BY <3>2, <4>1, <1>4, <1>6
    <3> QED
        BY <3>1, <3>2
  <2> HIDE DEF step
  <2> QED
      BY <2>1
<1>8. ASSUME NEW f, solves(f) PROVE f[K] = at(K)
  <2> DEFINE good == {s \in SUBSET K : f[s] = at(s)}
  <2>1. \A s \in SUBSET K : f[s] = step(f, s)
    <3> HIDE DEF step
    <3> QED
        BY <1>8
  <2>2. {} \in good
      BY <2>1, <1>5
  <2>3. \A s \in SUBSET K : s # {} /\ (\A x \in s : s \ {x} \in good) => s \in good
    <3> TAKE s \in SUBSET K
    <3> HAVE s # {} /\ (\A x \in s : s \ {x} \in good)
    <3>1. f[s \ {Pick(s)}] = at(s \ {Pick(s)})
        BY <1>3
    <3>2. f[s] = MergeActivity(f[s \ {Pick(s)}], Partials(table, stale)[<<owner, scope, Pick(s)>>])
        BY <2>1
    <3>3. f[s] = at(s)
        BY <1>4, <1>6, <3>1, <3>2
    <3> QED
        BY <3>3
  <2>4. good = SUBSET K
    <3> HIDE DEF good
    <3>1. good \in SUBSET (SUBSET K)
        BY DEF good
    <3> QED
        BY <1>2, <2>2, <2>3, <3>1, SubsetInduction
  <2> QED
      BY <2>4
<1>9. TierFold(Partials(table, stale), owner, scope, depth) = (CHOOSE f : solves(f))[K]
    BY DEF TierFold, FoldSet, MapThenFoldSet, Pick, K
<1>10. solves(CHOOSE f : solves(f))
  <2> HIDE DEF solves
  <2> QED
      BY <1>7
<1>11. (CHOOSE f : solves(f))[K] = at(K)
  <2> HIDE DEF solves
  <2> QED
      BY <1>8, <1>10
<1> QED
    BY <1>9, <1>11 DEF at, K

\* A position shows in the tier of its latest row, so it is within a depth
\* when some row of it is.
LEMMA SeenWithin ==
    ASSUME NEW table \in [Episodes -> RowImages], NEW owner, NEW scope, NEW stale, NEW depth \in Tiers
    PROVE  LET mine == OwnRows(table, owner, scope)
               in == Within(table, mine, 0..depth)
           IN  /\ Seen(table, mine, 0..depth) = {table[e].pos : e \in in}
               /\ SeenOpen(table, mine, stale, 0..depth)
                  = {table[e].pos : e \in {x \in in : table[x].open /\ table[x].pos \notin stale}}
<1> DEFINE mine == OwnRows(table, owner, scope)
           in == Within(table, mine, 0..depth)
           openIn == {x \in in : table[x].open /\ table[x].pos \notin stale}
<1>1. \A e \in mine : table[e].tier \in 0..2
    BY MineIsFinite
<1> HIDE DEF mine
<1>2. \A p, S : S \in SUBSET RowsAt(table, mine, p) /\ S # {} =>
         /\ LatestTier(S) \in 0..2
         /\ \E r \in S : LatestTier(S) = r.tier
         /\ \A r \in S : LatestTier(S) <= r.tier
  <2> TAKE p, S
  <2> HAVE S \in SUBSET RowsAt(table, mine, p) /\ S # {}
  <2> DEFINE tiers == {r.tier : r \in S}
  <2>1. \A r \in S : r.tier \in 0..2
      BY <1>1 DEF RowsAt
  <2>2. tiers \in SUBSET Nat /\ tiers # {}
      BY <2>1
  <2>3. Min(tiers) \in tiers /\ \A m \in tiers : Min(tiers) <= m
    <3> HIDE DEF tiers
    <3> QED
        BY <2>2, LowestNumber
  <2>4. LatestTier(S) = Min(tiers)
      BY DEF LatestTier
  <2> QED
      BY <2>1, <2>3, <2>4
<1>3. depth \in 0..2
    BY DEF Tiers
<1>4. ASSUME NEW p \in Seen(table, mine, 0..depth) PROVE p \in {table[e].pos : e \in in}
  <2>1. p \in PositionsOf(table, mine) /\ LatestTier(RowsAt(table, mine, p)) \in 0..depth
      BY <1>4 DEF Seen
  <2>2. RowsAt(table, mine, p) # {}
      BY <2>1 DEF PositionsOf, RowsAt
  <2>3. PICK r \in RowsAt(table, mine, p) : r.tier \in 0..depth
      BY <1>2, <2>1, <2>2
  <2>4. PICK e \in mine : table[e].pos = p /\ table[e] = r
      BY <2>3 DEF RowsAt
  <2>5. e \in in
      BY <2>3, <2>4 DEF Within
  <2> QED
      BY <2>4, <2>5
<1>5. ASSUME NEW e \in in PROVE table[e].pos \in Seen(table, mine, 0..depth)
  <2>1. e \in mine /\ table[e].tier \in 0..depth
      BY <1>5 DEF Within
  <2>2. table[e] \in RowsAt(table, mine, table[e].pos) /\ table[e].pos \in PositionsOf(table, mine)
      BY <2>1 DEF RowsAt, PositionsOf
  <2>3. /\ LatestTier(RowsAt(table, mine, table[e].pos)) \in 0..2
        /\ LatestTier(RowsAt(table, mine, table[e].pos)) <= table[e].tier
      BY <1>2, <2>2
  <2>4. LatestTier(RowsAt(table, mine, table[e].pos)) \in 0..depth
      BY <1>3, <2>1, <2>3
  <2> QED
      BY <2>2, <2>4 DEF Seen
<1>6. ASSUME NEW p \in SeenOpen(table, mine, stale, 0..depth) PROVE p \in {table[e].pos : e \in openIn}
  <2>1. OpenAt(table, mine, stale, p) # {} /\ LatestTier(OpenAt(table, mine, stale, p)) \in 0..depth
      BY <1>6 DEF SeenOpen
  <2>2. OpenAt(table, mine, stale, p) \in SUBSET RowsAt(table, mine, p)
      BY DEF OpenAt
  <2>3. PICK r \in OpenAt(table, mine, stale, p) : r.tier \in 0..depth
      BY <1>2, <2>1, <2>2
  <2>4. r.open /\ p \notin stale /\ r \in RowsAt(table, mine, p)
      BY <2>3 DEF OpenAt
  <2>5. PICK e \in mine : table[e].pos = p /\ table[e] = r
      BY <2>4 DEF RowsAt
  <2>6. e \in openIn
      BY <2>3, <2>4, <2>5 DEF Within
  <2> QED
      BY <2>5, <2>6
<1>7. ASSUME NEW e \in openIn PROVE table[e].pos \in SeenOpen(table, mine, stale, 0..depth)
  <2>1. e \in mine /\ table[e].tier \in 0..depth /\ table[e].open /\ table[e].pos \notin stale
      BY <1>7 DEF Within
  <2>2. table[e] \in RowsAt(table, mine, table[e].pos) /\ table[e].pos \in PositionsOf(table, mine)
      BY <2>1 DEF RowsAt, PositionsOf
  <2>3. /\ table[e] \in OpenAt(table, mine, stale, table[e].pos)
        /\ OpenAt(table, mine, stale, table[e].pos) \in SUBSET RowsAt(table, mine, table[e].pos)
      BY <2>1, <2>2 DEF OpenAt
  <2>4. /\ LatestTier(OpenAt(table, mine, stale, table[e].pos)) \in 0..2
        /\ LatestTier(OpenAt(table, mine, stale, table[e].pos)) <= table[e].tier
      BY <1>2, <2>3
  <2>5. LatestTier(OpenAt(table, mine, stale, table[e].pos)) \in 0..depth
      BY <1>3, <2>1, <2>4
  <2> QED
      BY <2>2, <2>3, <2>5 DEF SeenOpen
<1>8. Seen(table, mine, 0..depth) = {table[e].pos : e \in in}
  <2> HIDE DEF in
  <2> QED
      BY <1>4, <1>5
<1>9. SeenOpen(table, mine, stale, 0..depth) = {table[e].pos : e \in openIn}
  <2> HIDE DEF openIn
  <2> QED
      BY <1>6, <1>7
<1> QED
    BY <1>8, <1>9 DEF mine

\* A window summed from its tiers is the aggregate of its episodes.
LEMMA ViewIsDirect ==
    ASSUME NEW table \in [Episodes -> RowImages], NEW stale, NEW owner \in OwnersOf(table),
           NEW scope \in Scopes, NEW depth \in Tiers
    PROVE  RollupView(Partials(table, stale), owner, scope, depth) = DirectView(table, stale, owner, scope, depth)
<1> DEFINE mine == OwnRows(table, owner, scope)
           in == Within(table, mine, 0..depth)
           sum == Gathered(table, mine, stale, 0..depth)
           openIn == {x \in in : table[x].open /\ table[x].pos \notin stale}
<1>1. RollupView(Partials(table, stale), owner, scope, depth)
      = [positions |-> sum.positions, open |-> sum.open, episodes |-> sum.episodes,
         profit |-> IF sum.missing = 0 THEN sum.gross ELSE NULL]
  <2> DEFINE fold == TierFold(Partials(table, stale), owner, scope, depth)
  <2>1. fold = sum
      BY WindowIsGathered
  <2>2. RollupView(Partials(table, stale), owner, scope, depth)
        = [positions |-> fold.positions, open |-> fold.open, episodes |-> fold.episodes,
           profit |-> IF fold.missing = 0 THEN fold.gross ELSE NULL]
      BY Zenon DEF RollupView, TierFold
  <2> HIDE DEF fold, sum
  <2> QED
      BY <2>1, <2>2, Zenon
<1>2. {e \in Episodes : /\ table[e] # NULL /\ table[e].owner = owner
                        /\ InScope(table[e], scope) /\ table[e].tier <= depth} = in
  <2>1. \A e \in mine : table[e].tier \in 0..2
      BY MineIsFinite
  <2>2. \A e \in mine : table[e].tier <= depth <=> table[e].tier \in 0..depth
      BY <2>1 DEF Tiers
  <2>3. in = {e \in mine : table[e].tier <= depth}
      BY <2>2 DEF Within
  <2> QED
      BY <2>3 DEF OwnRows
<1>3. DirectView(table, stale, owner, scope, depth)
      = [positions |-> Cardinality({table[e].pos : e \in in}),
         open |-> Cardinality({table[e].pos : e \in openIn}),
         episodes |-> Cardinality(in),
         profit |-> IF \E e \in in : table[e].gross = NULL THEN NULL ELSE GrossOf(table, in)]
  <2> DEFINE all == {e \in Episodes : /\ table[e] # NULL /\ table[e].owner = owner
                                      /\ InScope(table[e], scope) /\ table[e].tier <= depth}
  <2>1. DirectView(table, stale, owner, scope, depth)
        = [positions |-> Cardinality({table[e].pos : e \in all}),
           open |-> Cardinality({table[e].pos : e \in {x \in all : table[x].open /\ table[x].pos \notin stale}}),
           episodes |-> Cardinality(all),
           profit |-> IF \E e \in all : table[e].gross = NULL THEN NULL
                      ELSE NullableSum([e \in all |-> table[e].gross])]
      BY Zenon DEF DirectView
  <2>2. all = in
      BY <1>2
  <2> HIDE DEF all, in
  <2> QED
      BY <2>1, <2>2, Zenon DEF GrossOf
<1>4. /\ sum.positions = Cardinality({table[e].pos : e \in in})
      /\ sum.open = Cardinality({table[e].pos : e \in openIn})
      /\ sum.episodes = Cardinality(in)
      /\ sum.missing = Cardinality(Unpriced(table, in))
      /\ sum.gross = GrossOf(table, in)
  <2>1. /\ Seen(table, mine, 0..depth) = {table[e].pos : e \in in}
        /\ SeenOpen(table, mine, stale, 0..depth) = {table[e].pos : e \in openIn}
      BY SeenWithin
  <2>2. /\ sum.positions = Cardinality(Seen(table, mine, 0..depth))
        /\ sum.open = Cardinality(SeenOpen(table, mine, stale, 0..depth))
        /\ sum.episodes = Cardinality(in)
        /\ sum.missing = Cardinality(Unpriced(table, in))
        /\ sum.gross = GrossOf(table, in)
      BY DEF Gathered
  <2> HIDE DEF mine, in, sum, openIn
  <2> QED
      BY <2>1, <2>2, Zenon
<1>5. sum.missing = 0 <=> ~\E e \in in : table[e].gross = NULL
  <2>1. IsFiniteSet(mine) /\ in \in SUBSET mine
      BY MineIsFinite DEF Within
  <2>2. IsFiniteSet(Unpriced(table, in))
      BY <2>1, FS_Subset DEF Unpriced
  <2>3. Cardinality(Unpriced(table, in)) = 0 <=> Unpriced(table, in) = {}
      BY <2>2, FS_EmptySet
  <2> HIDE DEF in
  <2>4. Unpriced(table, in) = {} <=> ~\E e \in in : table[e].gross = NULL
      BY DEF Unpriced
  <2> QED
      BY <1>4, <2>3, <2>4 DEF in
<1> HIDE DEF mine, in, sum, openIn
<1>6. (IF sum.missing = 0 THEN sum.gross ELSE NULL)
      = IF \E e \in in : table[e].gross = NULL THEN NULL ELSE GrossOf(table, in)
    BY <1>4, <1>5
<1> DEFINE shown == IF sum.missing = 0 THEN sum.gross ELSE NULL
           direct == IF \E e \in in : table[e].gross = NULL THEN NULL ELSE GrossOf(table, in)
           shownPos == Cardinality({table[e].pos : e \in in})
           shownOpen == Cardinality({table[e].pos : e \in openIn})
<1>7. shown = direct
    BY <1>6
<1>8. sum.positions = shownPos /\ sum.open = shownOpen /\ sum.episodes = Cardinality(in)
    BY <1>4
<1>9. RollupView(Partials(table, stale), owner, scope, depth)
      = [positions |-> sum.positions, open |-> sum.open, episodes |-> sum.episodes, profit |-> shown]
    BY <1>1
<1>10. DirectView(table, stale, owner, scope, depth)
       = [positions |-> shownPos, open |-> shownOpen, episodes |-> Cardinality(in), profit |-> direct]
    BY <1>3, Zenon
<1> HIDE DEF shown, direct, shownPos, shownOpen
<1> QED
    BY <1>7, <1>8, <1>9, <1>10

\* However its replica was copied, resumed, discarded and brought forward,
\* OwnerRollup publishes the aggregates of the ledger as it stood at one point
\* of the journal, every window it shows is the aggregate of the episodes of
\* that window, and no build meets a gap in the journal or a replica ahead of
\* it: acknowledging and pruning never overtake a replica, and the sums of the
\* tiers neither lose nor count twice an episode or a position.
THEOREM RollupAlwaysExact == RollupSpec => []RollupExact
<1>1. RollupInit => RollupInv
    BY RollupInitInv
<1>2. RollupInv /\ [RollupNext]_rollupVars => RollupInv'
  <2> SUFFICES ASSUME RollupInv, [RollupNext]_rollupVars PROVE RollupInv'
      OBVIOUS
  <2>1. ASSUME NEW e \in Episodes, NEW v \in Versions[e], InsertRow(e, v) \/ UpdateRow(e, v)
        PROVE  RollupInv'
      BY <2>1, InsertRowInv, UpdateRowInv
  <2>2. ASSUME NEW e \in Episodes, DeleteRow(e) PROVE RollupInv'
      BY <2>2, DeleteRowInv
  <2>3. CASE PruneJournal
      BY <2>3, PruneJournalInv
  <2>4. CASE BeginReplica
      BY <2>4, BeginReplicaInv
  <2>5. CASE CopyReplicaPage
      BY <2>5, CopyReplicaPageInv
  <2>6. CASE TargetSnapshot
      BY <2>6, TargetSnapshotInv
  <2>7. CASE ApplyJournalPage
      BY <2>7, ApplyJournalPageInv
  <2>8. ASSUME NEW stale, AggregateReplica(stale) PROVE RollupInv'
      BY <2>8, AggregateReplicaInv
  <2>9. ASSUME NEW deadline \in BOOLEAN, WorkerFails(deadline) PROVE RollupInv'
      BY <2>9, WorkerFailsInv
  <2>10. CASE SubmitBuild
      BY <2>10, SubmitBuildInv
  <2>11. CASE CollectFailure
      BY <2>11, CollectFailureInv
  <2>12. CASE PublishRollup
      BY <2>12, PublishRollupInv
  <2>13. CASE WorkerDies
      BY <2>13, WorkerDiesInv
  <2>14. CASE UNCHANGED rollupVars
    <3>1. UNCHANGED <<ledgerVars, ack, rep, goal, built, pub, stage, liveReplica>>
        BY <2>14 DEF rollupVars
    <3>2. /\ LedgerTypes' /\ RowsOK' /\ JournalOK' /\ LastAt(head)' /\ (\A b : Taken(b) => Taken(b)')
          /\ (ReplicaOK(rep) => ReplicaOK(rep)') /\ (GoalOK => GoalOK')
        BY <3>1, LedgerStays
    <3> QED
        BY <3>1, <3>2 DEF RollupInv, BuildOK
  <2> QED
      BY <2>1, <2>2, <2>3, <2>4, <2>5, <2>6, <2>7, <2>8, <2>9, <2>10, <2>11, <2>12, <2>13, <2>14
      DEF RollupNext
<1>3. RollupInv => JournalKept /\ PublishedPast
    BY DEF RollupInv, BuildOK, JournalKept, PublishedPast, Taken
<1>4. RollupInv => ViewsExact
  <2> SUFFICES ASSUME RollupInv, pub # NULL,
                      NEW o \in OwnersOf(past[pub.through]), NEW scope \in Scopes, NEW depth \in Tiers
               PROVE  RollupView(pub.partials, o, scope, depth)
                      = DirectView(past[pub.through], pub.stale, o, scope, depth)
      BY DEF ViewsExact
  <2>1. past[pub.through] \in [Episodes -> RowImages] /\ pub.partials = Partials(past[pub.through], pub.stale)
    <3>1. Taken(pub) /\ head \in 0..MaxSeq /\ past \in [0..MaxSeq -> [Episodes -> RowImages]]
        BY DEF RollupInv, BuildOK, LedgerTypes
    <3>2. pub.through \in 0..MaxSeq
        BY <3>1, RollupAssumption DEF Taken
    <3> QED
        BY <3>1, <3>2 DEF Taken
  <2> DEFINE image == past[pub.through]
  <2> HIDE DEF image
  <2>2. image \in [Episodes -> RowImages] /\ o \in OwnersOf(image)
      BY <2>1 DEF image
  <2>3. RollupView(Partials(image, pub.stale), o, scope, depth) = DirectView(image, pub.stale, o, scope, depth)
      BY <2>2, ViewIsDirect
  <2> QED
      BY <2>1, <2>3 DEF image
<1>5. RollupInv => RollupExact
    BY <1>3, <1>4 DEF RollupExact
<1> QED
    BY <1>1, <1>2, <1>5, PTL DEF RollupSpec

-----------------------------------------------------------------------------
(* The pruning of price samples (SamplePruning).                           *)

SampleBlocks == 1..MaxSampleHeight

SampleTypes ==
    /\ sampled \in [PricePools -> SUBSET SampleBlocks]
    /\ kept \in [PricePools -> SUBSET SampleBlocks]
    /\ floorBlock \in SampleBlocks /\ topBlock \in 0..MaxSampleHeight
    /\ pruneBlock \in Nat
    /\ sweep # NULL => sweep \in [pool : Nat, block : Nat] /\ sweep.block <= pruneBlock

\* A sample that is gone lies between two that are stored, and the later of
\* them below the boundary from which lookups read the table.
Bracketed(p) ==
    /\ kept[p] \subseteq sampled[p]
    /\ \A b \in sampled[p] \ kept[p] :
          /\ \E low \in kept[p] : low < b
          /\ \E high \in kept[p] : b < high /\ high < pruneBlock

SampleInv == SampleTypes /\ \A p \in PricePools : Bracketed(p)

LEMMA SampleInitInv == SampleInit /\ SampleAssumption => SampleInv
<1> SUFFICES ASSUME SampleInit, SampleAssumption PROVE SampleInv
    OBVIOUS
<1>1. MaxSampleHeight \in Nat
    BY DEF SampleAssumption
<1>2. SampleTypes
    BY <1>1 DEF SampleInit, SampleTypes, SampleBlocks
<1>3. \A p \in PricePools : Bracketed(p)
    BY DEF SampleInit, Bracketed
<1> QED
    BY <1>2, <1>3 DEF SampleInv

\* Storing samples with their events takes nothing away.
LEMMA StoringKeeps ==
    ASSUME SampleInv, NEW new \in [PricePools -> SUBSET SampleBlocks],
           sampled' = [p \in PricePools |-> sampled[p] \cup new[p]],
           kept' = [p \in PricePools |-> kept[p] \cup new[p]],
           floorBlock' \in SampleBlocks, topBlock' \in 0..MaxSampleHeight,
           UNCHANGED <<sweep, pruneBlock>>
    PROVE  SampleInv'
<1>1. sampled \in [PricePools -> SUBSET SampleBlocks] /\ kept \in [PricePools -> SUBSET SampleBlocks]
    BY DEF SampleInv, SampleTypes
<1>2. sampled' \in [PricePools -> SUBSET SampleBlocks] /\ kept' \in [PricePools -> SUBSET SampleBlocks]
    BY <1>1
<1>3. SampleTypes'
    BY <1>2 DEF SampleInv, SampleTypes
<1>4. ASSUME NEW p \in PricePools PROVE Bracketed(p)'
  <2>1. sampled'[p] = sampled[p] \cup new[p] /\ kept'[p] = kept[p] \cup new[p]
      OBVIOUS
  <2>2. Bracketed(p)
      BY DEF SampleInv
  <2> QED
      BY <2>1, <2>2 DEF Bracketed
<1> QED
    BY <1>3, <1>4 DEF SampleInv

LEMMA LiveBlockInv ==
    ASSUME SampleInv, SampleAssumption, NEW P \in SUBSET PricePools, LiveBlock(P) PROVE SampleInv'
<1>1. topBlock \in Nat /\ topBlock + 1 \in SampleBlocks /\ MaxSampleHeight \in Nat
    BY DEF SampleInv, SampleTypes, LiveBlock, SampleBlocks, SampleAssumption
<1> DEFINE new == [p \in PricePools |-> IF p \in P THEN {topBlock + 1} ELSE {}]
<1>2. new \in [PricePools -> SUBSET SampleBlocks]
    BY <1>1
<1>3. \A p \in PricePools : new[p] = IF p \in P THEN {topBlock + 1} ELSE {}
    OBVIOUS
<1> HIDE DEF new
<1>4. /\ sampled' = [p \in PricePools |-> sampled[p] \cup new[p]]
      /\ kept' = [p \in PricePools |-> kept[p] \cup new[p]]
    BY <1>3 DEF LiveBlock
<1>5. /\ floorBlock' \in SampleBlocks /\ topBlock' \in 0..MaxSampleHeight
      /\ UNCHANGED <<sweep, pruneBlock>>
    BY <1>1 DEF LiveBlock, SampleInv, SampleTypes, SampleBlocks
<1> QED
    BY <1>2, <1>4, <1>5, StoringKeeps

LEMMA StoreEventIs ==
    ASSUME SampleInv, NEW q \in PricePools, NEW b \in SampleBlocks, StoreEvent(q, b),
           floorBlock' \in SampleBlocks, topBlock' \in 0..MaxSampleHeight,
           UNCHANGED <<sweep, pruneBlock>>
    PROVE  SampleInv'
<1> DEFINE new == [p \in PricePools |-> IF p = q THEN {b} ELSE {}]
<1>1. new \in [PricePools -> SUBSET SampleBlocks]
    OBVIOUS
<1>2. \A p \in PricePools : new[p] = IF p = q THEN {b} ELSE {}
    OBVIOUS
<1>3. sampled \in [PricePools -> SUBSET SampleBlocks] /\ kept \in [PricePools -> SUBSET SampleBlocks]
    BY DEF SampleInv, SampleTypes
<1> HIDE DEF new
<1>4. /\ sampled' = [p \in PricePools |-> sampled[p] \cup new[p]]
      /\ kept' = [p \in PricePools |-> kept[p] \cup new[p]]
    BY <1>2, <1>3 DEF StoreEvent
<1> QED
    BY <1>1, <1>4, StoringKeeps

LEMMA HistoryBlockInv ==
    ASSUME SampleInv, SampleAssumption, NEW p \in PricePools, HistoryBlock(p) PROVE SampleInv'
<1>1. /\ floorBlock - 1 \in SampleBlocks /\ floorBlock' \in SampleBlocks
      /\ topBlock' \in 0..MaxSampleHeight /\ UNCHANGED <<sweep, pruneBlock>>
      /\ StoreEvent(p, floorBlock - 1)
    BY DEF HistoryBlock, SampleInv, SampleTypes, SampleBlocks, SampleAssumption
<1> QED
    BY <1>1, StoreEventIs

LEMMA LateLogInv ==
    ASSUME SampleInv, NEW p \in PricePools, NEW b \in SampleBlocks, LateLog(p, b) PROVE SampleInv'
<1>1. /\ floorBlock' \in SampleBlocks /\ topBlock' \in 0..MaxSampleHeight
      /\ UNCHANGED <<sweep, pruneBlock>> /\ StoreEvent(p, b)
    BY DEF LateLog, SampleInv, SampleTypes
<1> QED
    BY <1>1, StoreEventIs

LEMMA RollbackSamplesInv ==
    ASSUME SampleInv, SampleAssumption, NEW a \in 0..MaxSampleHeight, RollbackSamples(a) PROVE SampleInv'
<1>1. /\ topBlock' = a /\ UNCHANGED <<floorBlock, sweep, pruneBlock>> /\ a >= pruneBlock
      /\ sampled' = [p \in PricePools |-> {b \in sampled[p] : b <= a}]
      /\ kept' = [p \in PricePools |-> {b \in kept[p] : b <= a}]
    BY DEF RollbackSamples
<1>2. /\ sampled \in [PricePools -> SUBSET SampleBlocks] /\ kept \in [PricePools -> SUBSET SampleBlocks]
      /\ pruneBlock \in Nat /\ a \in Nat
    BY DEF SampleInv, SampleTypes, SampleAssumption
<1>3. SampleTypes'
  <2>1. sampled' \in [PricePools -> SUBSET SampleBlocks] /\ kept' \in [PricePools -> SUBSET SampleBlocks]
      BY <1>1, <1>2
  <2> QED
      BY <1>1, <2>1 DEF SampleInv, SampleTypes
<1>4. ASSUME NEW p \in PricePools PROVE Bracketed(p)'
  <2>1. sampled'[p] = {b \in sampled[p] : b <= a} /\ kept'[p] = {b \in kept[p] : b <= a}
      BY <1>1
  <2>2. \A b \in sampled[p] \cup kept[p] : b \in Nat
      BY <1>2 DEF SampleBlocks
  <2>3. Bracketed(p)
      BY DEF SampleInv
  <2>4. ASSUME NEW b \in sampled'[p] \ kept'[p]
        PROVE  /\ \E low \in kept'[p] : low < b
               /\ \E high \in kept'[p] : b < high /\ high < pruneBlock
    <3>1. b \in sampled[p] \ kept[p] /\ b <= a /\ b \in Nat
        BY <2>1, <2>2
    <3>2. PICK low \in kept[p] : low < b
        BY <2>3, <3>1 DEF Bracketed
    <3>3. PICK high \in kept[p] : b < high /\ high < pruneBlock
        BY <2>3, <3>1 DEF Bracketed
    <3>4. low <= a /\ high <= a
      <4>1. low \in Nat /\ high \in Nat
          BY <2>2, <3>2, <3>3
      <4>2. a \in Nat /\ a >= pruneBlock /\ pruneBlock \in Nat
          BY <1>1, <1>2
      <4> QED
          BY <3>1, <3>2, <3>3, <4>1, <4>2
    <3> QED
        BY <2>1, <3>2, <3>3, <3>4
  <2> QED
      BY <1>1, <2>1, <2>3, <2>4 DEF Bracketed
<1> QED
    BY <1>3, <1>4 DEF SampleInv

\* A batch deletes between the first sample and the last one below the sweep.
LEMMA PruneSamplesInv == ASSUME SampleInv, SampleAssumption, PruneSamples PROVE SampleInv'
<1> DEFINE cur == IF sweep = NULL THEN SweepStart ELSE sweep
           rest == {p \in PricePools : p > cur.pool /\ kept[p] # {}}
           target == Min(rest)
           doomed == Doomed(target, cur.block)
           batch == {b \in doomed : Cardinality({x \in doomed : x < b}) < BatchRows}
<1>1. /\ sampled \in [PricePools -> SUBSET SampleBlocks] /\ kept \in [PricePools -> SUBSET SampleBlocks]
      /\ pruneBlock \in Nat /\ PricePools \subseteq Nat /\ MaxSampleHeight \in Nat
    BY DEF SampleInv, SampleTypes, SampleAssumption
<1>2. /\ UNCHANGED <<sampled, floorBlock, topBlock>>
      /\ pruneBlock' = IF sweep = NULL THEN RaisedBlock(cur.block) ELSE pruneBlock
      /\ rest = {} => sweep' = NULL /\ kept' = kept
      /\ rest # {} => /\ kept' = [kept EXCEPT ![target] = kept[target] \ batch]
                      /\ sweep' = IF Cardinality(batch) >= BatchRows THEN cur
                                  ELSE [cur EXCEPT !.pool = target]
    BY DEF PruneSamples
<1>3. cur.block \in Nat /\ pruneBlock' \in Nat /\ cur.block <= pruneBlock' /\ pruneBlock <= pruneBlock'
  <2>1. CASE sweep # NULL
      BY <1>1, <1>2, <2>1 DEF SampleInv, SampleTypes
  <2>2. CASE sweep = NULL
    <3> DEFINE S == {b \in UNION {sampled[p] : p \in PricePools} : b > aged}
    <3>1. S \in SUBSET Nat
        BY <1>1 DEF SampleBlocks
    <3>2. S # {} /\ Boundary = Min(S)
        BY <2>2 DEF PruneSamples, Boundary, Oldest
    <3>3. Boundary \in Nat
        BY <3>1, <3>2, LowestNumber
    <3>4. cur.block = Boundary
        BY <2>2 DEF SweepStart
    <3>5. pruneBlock' = Max({Boundary, pruneBlock})
        BY <1>2, <2>2, <3>4 DEF RaisedBlock
    <3>6. pruneBlock' = IF Boundary >= pruneBlock THEN Boundary ELSE pruneBlock
        BY <1>1, <3>3, <3>5, LargerOf
    <3> QED
        BY <1>1, <3>3, <3>4, <3>6
  <2> QED
      BY <2>1, <2>2
<1>4. cur \in [pool : Nat, block : Nat]
    BY <1>3 DEF SweepStart, SampleInv, SampleTypes
<1> HIDE DEF cur
<1>5. CASE rest = {}
  <2>1. SampleTypes'
      BY <1>1, <1>2, <1>3, <1>5 DEF SampleInv, SampleTypes
  <2>2. ASSUME NEW p \in PricePools PROVE Bracketed(p)'
    <3>1. Bracketed(p) /\ sampled'[p] = sampled[p] /\ kept'[p] = kept[p]
        BY <1>2, <1>5 DEF SampleInv
    <3>2. \A b \in kept[p] : b \in Nat
        BY <1>1 DEF SampleBlocks
    <3>3. \A high \in kept[p] : high < pruneBlock => high < pruneBlock'
        BY <1>1, <1>3, <3>2
    <3> QED
        BY <3>1, <3>3 DEF Bracketed
  <2> QED
      BY <2>1, <2>2 DEF SampleInv
<1>6. CASE rest # {}
  <2>1. target \in rest
    <3>1. rest \in SUBSET Nat
        BY <1>1
    <3> QED
        BY <1>6, <3>1, LowestNumber
  <2>0. PICK q \in PricePools : q = target
      BY <2>1
  <2>2. kept[q] # {} /\ batch \subseteq doomed
      BY <2>0, <2>1
  <2>3. doomed = Doomed(q, cur.block)
      BY <2>0
  <2> HIDE DEF target, batch, doomed, rest
  <2>4. /\ kept' \in [PricePools -> SUBSET SampleBlocks] /\ kept'[q] = kept[q] \ batch
        /\ \A p \in PricePools \ {q} : kept'[p] = kept[p]
      BY <1>1, <1>2, <1>6, <2>0, <2>2
  <2>5. SampleTypes'
    <3>1. sweep' \in [pool : Nat, block : Nat] /\ sweep'.block = cur.block
        BY <1>1, <1>2, <1>4, <1>6, <2>0
    <3> QED
        BY <1>1, <1>2, <1>3, <2>4, <3>1 DEF SampleInv, SampleTypes
  <2>6. \A b \in sampled[q] \cup kept[q] : b \in Nat
      BY <1>1, <2>2 DEF SampleBlocks
  <2>7. \A p \in PricePools : \A high \in kept[p] : high < pruneBlock => high < pruneBlock'
    <3>1. \A p \in PricePools : \A b \in kept[p] : b \in Nat
        BY <1>1 DEF SampleBlocks
    <3> QED
        BY <1>1, <1>3, <3>1
  <2>8. ASSUME NEW p \in PricePools, p # q PROVE Bracketed(p)'
    <3>1. Bracketed(p) /\ sampled'[p] = sampled[p] /\ kept'[p] = kept[p]
        BY <1>2, <2>4, <2>8 DEF SampleInv
    <3> QED
        BY <2>7, <3>1 DEF Bracketed
  <2>9. Bracketed(q)'
    <3>1. Bracketed(q)
        BY <2>2 DEF SampleInv
    <3>2. CASE batch = {}
      <4>1. kept'[q] = kept[q] /\ sampled' = sampled
          BY <1>2, <2>4, <3>2
      <4> QED
          BY <2>2, <2>7, <3>1, <4>1 DEF Bracketed
    <3>3. CASE batch # {}
      <4> DEFINE first == Oldest(kept[q])
                 below == {b \in kept[q] : b < cur.block}
                 newest == Newest(below)
      <4>1. doomed = {b \in kept[q] : b > first /\ b < newest} /\ newest # NULL
          BY <2>2, <2>3, <3>3 DEF Doomed
      <4>2. first \in kept[q] /\ \A b \in kept[q] : first <= b
        <5>1. kept[q] \in SUBSET Nat /\ first = Min(kept[q])
            BY <2>2, <2>6 DEF Oldest
        <5> QED
            BY <2>2, <5>1, LowestNumber
      <4>3. newest \in below
        <5>1. below # {} /\ newest = Max(below)
            BY <4>1 DEF Newest
        <5>2. below \in SUBSET (0..MaxSampleHeight)
            BY <1>1, <2>2 DEF SampleBlocks
        <5> QED
            BY <1>1, <5>1, <5>2, HighestNumber
      <4>4. newest \in kept[q] /\ newest < cur.block
          BY <4>3
      <4> HIDE DEF first, newest, below
      <4>5. first \in Nat /\ newest \in Nat
          BY <2>6, <4>2, <4>4
      <4>6. newest < pruneBlock'
          BY <1>3, <4>4, <4>5
      <4>7. first \in kept'[q] /\ newest \in kept'[q]
          BY <2>2, <2>4, <4>1, <4>2, <4>4, <4>5
      <4>8. ASSUME NEW b \in sampled[q] \ kept'[q]
            PROVE  /\ \E low \in kept'[q] : low < b
                   /\ \E high \in kept'[q] : b < high /\ high < pruneBlock'
        <5>1. b \in Nat
            BY <2>6
        <5>2. CASE b \in batch
          <6>1. first < b /\ b < newest
              BY <2>2, <4>1, <4>5, <5>1, <5>2
          <6> QED
              BY <4>6, <4>7, <6>1
        <5>3. CASE b \notin batch
          <6>1. b \in sampled[q] \ kept[q]
              BY <2>4, <5>3
          <6>2. PICK low \in kept[q] : low < b
              BY <3>1, <6>1 DEF Bracketed
          <6>3. PICK high \in kept[q] : b < high /\ high < pruneBlock
              BY <3>1, <6>1 DEF Bracketed
          <6>4. first < b
              BY <2>6, <4>2, <4>5, <5>1, <6>2
          <6>5. CASE high \in batch
            <7>1. high < newest /\ high \in Nat
                BY <2>2, <2>6, <4>1, <6>5
            <7>2. b < newest
                BY <4>5, <5>1, <6>3, <7>1
            <7> QED
                BY <4>6, <4>7, <6>4, <7>2
          <6>6. CASE high \notin batch
            <7>1. high \in kept'[q] /\ high < pruneBlock'
                BY <2>2, <2>4, <2>7, <6>3, <6>6
            <7> QED
                BY <4>7, <6>3, <6>4, <7>1
          <6> QED
              BY <6>5, <6>6
        <5> QED
            BY <5>2, <5>3
      <4>9. kept'[q] \subseteq sampled'[q] /\ sampled' = sampled
          BY <1>2, <2>4, <3>1 DEF Bracketed
      <4> QED
          BY <4>8, <4>9 DEF Bracketed
    <3> QED
        BY <3>2, <3>3
  <2> QED
      BY <2>5, <2>8, <2>9 DEF SampleInv
<1> QED
    BY <1>5, <1>6

\* Leaving out elements below another one does not change the greatest.
LEMMA NewestSame ==
    ASSUME NEW h \in Nat, NEW B \in SUBSET (0..h), NEW A \in SUBSET B,
           \A b \in B : \E a \in A : b <= a
    PROVE  Newest(A) = Newest(B)
<1>1. CASE B = {}
    BY <1>1
<1>2. CASE B # {}
  <2>1. A # {} /\ A \in SUBSET (0..h)
      BY <1>2
  <2>2. Newest(A) = Max(A) /\ Newest(B) = Max(B)
      BY <1>2, <2>1 DEF Newest
  <2> DEFINE m == Max(A)
             n == Max(B)
  <2>3. m \in A /\ \A x \in A : x <= m
      BY <2>1, HighestNumber
  <2>4. n \in B /\ \A x \in B : x <= n
      BY <1>2, HighestNumber
  <2> HIDE DEF m, n
  <2>5. PICK a \in A : n <= a
      BY <2>4
  <2>6. m \in Nat /\ n \in Nat /\ a \in Nat /\ a <= m /\ m <= n
      BY <2>1, <2>3, <2>4
  <2>7. m = n
      BY <2>5, <2>6
  <2> QED
      BY <2>2, <2>7 DEF m, n
<1> QED
    BY <1>1, <1>2

LEMMA OldestSame ==
    ASSUME NEW B \in SUBSET Nat, NEW A \in SUBSET B, \A b \in B : \E a \in A : a <= b
    PROVE  Oldest(A) = Oldest(B)
<1>1. CASE B = {}
    BY <1>1
<1>2. CASE B # {}
  <2>1. A # {} /\ A \in SUBSET Nat
      BY <1>2
  <2>2. Oldest(A) = Min(A) /\ Oldest(B) = Min(B)
      BY <1>2, <2>1 DEF Oldest
  <2> DEFINE m == Min(A)
             n == Min(B)
  <2>3. m \in A /\ \A x \in A : m <= x
      BY <2>1, LowestNumber
  <2>4. n \in B /\ \A x \in B : n <= x
      BY <1>2, LowestNumber
  <2> HIDE DEF m, n
  <2>5. PICK a \in A : a <= n
      BY <2>4
  <2>6. m \in Nat /\ n \in Nat /\ a \in Nat /\ m <= a /\ n <= m
      BY <2>1, <2>3, <2>4
  <2>7. m = n
      BY <2>5, <2>6
  <2> QED
      BY <2>2, <2>7 DEF m, n
<1> QED
    BY <1>1, <1>2

\* However sweeps, late and historical blocks and rollbacks interleave, a
\* lookup of SamplePruning finds what the canonical events would give it: what
\* a sweep deletes is always below the boundary that was raised with it.
THEOREM PruningInvisible == SampleSpec => []SamplesExact
<1>1. SampleInit => SampleInv
    BY SampleInitInv, SampleAssumption
<1>2. SampleInv /\ [SampleNext]_sampleVars => SampleInv'
  <2> SUFFICES ASSUME SampleInv, [SampleNext]_sampleVars PROVE SampleInv'
      OBVIOUS
  <2>1. CASE UNCHANGED sampleVars
      BY <2>1 DEF SampleInv, SampleTypes, Bracketed, sampleVars
  <2>2. ASSUME TimePasses PROVE SampleInv'
      BY <2>2 DEF TimePasses, SampleInv, SampleTypes, Bracketed
  <2>3. ASSUME NEW p \in PricePools, NEW b \in 1..MaxSampleHeight, LateLog(p, b) PROVE SampleInv'
      BY <2>3, LateLogInv DEF SampleBlocks
  <2> QED
      BY <2>1, <2>2, <2>3, SampleAssumption, LiveBlockInv, HistoryBlockInv, RollbackSamplesInv,
         PruneSamplesInv
      DEF SampleNext
<1>3. SampleInv => SamplesExact
  <2> SUFFICES ASSUME SampleInv, NEW p \in PricePools
               PROVE  /\ \A n \in 0..MaxSampleHeight :
                            /\ SampleAtOrBefore(p, n) = Newest({b \in sampled[p] : b <= n})
                            /\ SampleAfter(p, n) = Oldest({b \in sampled[p] : b > n})
                      /\ Oldest(kept[p]) = Oldest(sampled[p])
      BY DEF SamplesExact
  <2>1. /\ MaxSampleHeight \in Nat /\ pruneBlock \in Nat
        /\ sampled[p] \subseteq 0..MaxSampleHeight /\ kept[p] \subseteq sampled[p]
      BY SampleAssumption DEF SampleAssumption, SampleInv, SampleTypes, SampleBlocks, Bracketed
  <2>2. \A b \in sampled[p] : b \in Nat
      BY <2>1
  <2>3. \A b \in sampled[p] \ kept[p] :
           /\ \E low \in kept[p] : low < b
           /\ \E high \in kept[p] : b < high /\ high < pruneBlock
      BY DEF SampleInv, Bracketed
  <2>4. Oldest(kept[p]) = Oldest(sampled[p])
    <3>1. \A b \in sampled[p] : \E a \in kept[p] : a <= b
        BY <2>1, <2>2, <2>3
    <3> QED
        BY <2>1, <2>2, <3>1, OldestSame
  <2>5. ASSUME NEW n \in 0..MaxSampleHeight, n >= pruneBlock
        PROVE  Newest({b \in kept[p] : b <= n}) = Newest({b \in sampled[p] : b <= n})
    <3> DEFINE A == {b \in kept[p] : b <= n}
               B == {b \in sampled[p] : b <= n}
    <3>1. B \in SUBSET (0..MaxSampleHeight) /\ A \in SUBSET B
        BY <2>1
    <3>2. \A b \in B : \E a \in A : b <= a
      <4> SUFFICES ASSUME NEW b \in sampled[p], b <= n PROVE \E a \in kept[p] : a <= n /\ b <= a
          OBVIOUS
      <4>1. CASE b \in kept[p]
          BY <2>2, <4>1
      <4>2. CASE b \notin kept[p]
        <5>1. PICK high \in kept[p] : b < high /\ high < pruneBlock
            BY <2>3, <4>2
        <5> QED
            BY <2>1, <2>2, <2>5, <5>1
      <4> QED
          BY <4>1, <4>2
    <3> HIDE DEF A, B
    <3>3. Newest(A) = Newest(B)
        BY <2>1, <3>1, <3>2, NewestSame
    <3> QED
        BY <3>3 DEF A, B
  <2>6. ASSUME NEW n \in 0..MaxSampleHeight, n >= pruneBlock
        PROVE  {b \in kept[p] : b > n} = {b \in sampled[p] : b > n}
    <3>1. ASSUME NEW b \in sampled[p], b > n PROVE b \in kept[p]
      <4> SUFFICES ASSUME b \notin kept[p] PROVE FALSE
          OBVIOUS
      <4>1. PICK high \in kept[p] : b < high /\ high < pruneBlock
          BY <2>3
      <4> QED
          BY <2>1, <2>2, <2>6, <3>1, <4>1
    <3> QED
        BY <2>1, <3>1
  <2>7. ASSUME NEW n \in 0..MaxSampleHeight
        PROVE  /\ SampleAtOrBefore(p, n) = Newest({b \in sampled[p] : b <= n})
               /\ SampleAfter(p, n) = Oldest({b \in sampled[p] : b > n})
    <3>1. CASE n >= pruneBlock
        BY <2>5, <2>6, <3>1 DEF SampleAtOrBefore, SampleAfter
    <3>2. CASE ~(n >= pruneBlock)
        BY <3>2 DEF SampleAtOrBefore, SampleAfter
    <3> QED
        BY <3>1, <3>2
  <2> QED
      BY <2>4, <2>7
<1> QED
    BY <1>1, <1>2, <1>3, PTL DEF SampleSpec

-----------------------------------------------------------------------------
(* The current lane's feed and stream (LiveFeed).                          *)

Branch == Seq({0, 1})
FeedItems == [event : {"block", "activity"}, sequence : Nat, number : Nat]
Streams == [after : Nat, batch : SUBSET FeedItems, upto : Nat, reset : BOOLEAN]

LaneTypes ==
    /\ canon \in Branch /\ canon # <<>> /\ heads \subseteq Branch
    /\ lastHeader \in Branch \cup {NULL} /\ headEmit \in Branch \cup {NULL}
    /\ headQueue \in Seq(Branch)
    /\ pendingLogs \subseteq Branch
    /\ flush # NULL => flush.hash \in Branch
    /\ DOMAIN receiptJobs \subseteq Branch
    /\ observerQueue \in Seq({"block", "events"} \X Branch)

\* The deque holds the newest events, in order and without a gap.
FeedOK ==
    /\ feedEpoch \in Nat \ {0} /\ feedSeq \in Nat
    /\ feedEvents \in Seq(FeedItems)
    /\ Len(feedEvents) <= feedSeq
    /\ feedSeq > 0 => Len(feedEvents) > 0
    /\ \A i \in 1..Len(feedEvents) :
          feedEvents[i].sequence = feedSeq - Len(feedEvents) + i

Covered(n) == \A s \in 1..n : <<feedEpoch, s>> \in seen \/ s <= excused

\* What an open stream has still to send is all that lies between its cursor
\* and its answer, unless the answer was a reset, which excuses the rest.
StreamOK ==
    /\ conn \in Streams
    /\ conn.upto <= feedSeq /\ conn.after <= conn.upto
    /\ Covered(conn.after)
    /\ \A x \in conn.batch : x.sequence \in 1..conn.upto
    /\ \A x, y \in conn.batch : x.sequence = y.sequence => x = y
    /\ conn.reset => conn.upto <= excused
    /\ ~conn.reset =>
          \A s \in 1..conn.upto : conn.after < s <=> \E x \in conn.batch : x.sequence = s

ClientOK ==
    /\ client \in [epoch : Nat, after : Nat]
    /\ client.epoch <= feedEpoch
    /\ client.epoch = 0 => client.after = 0
    /\ client.epoch = feedEpoch => client.after <= feedSeq /\ Covered(client.after)

SuffixLinked ==
    \A n \in DOMAIN suffix :
        \/ n - 1 \in DOMAIN suffix /\ Front(suffix[n]) = suffix[n - 1]
        \/ \A m \in DOMAIN suffix : n <= m

ActivityOK == \A hash \in activity : \E n \in DOMAIN suffix : suffix[n] = hash

CursorInv == FeedOK /\ excused \in 0..feedSeq /\ ClientOK /\ (conn # NULL => StreamOK)
SuffixInv == (\E b \in Nat : DOMAIN suffix \subseteq 0..b) /\ SuffixLinked /\ ActivityOK
LiveInv == LaneTypes /\ CursorInv /\ SuffixInv

LEMMA LiveInitInv == LiveInit => LiveInv
<1> SUFFICES ASSUME LiveInit PROVE LiveInv
    OBVIOUS
<1>1. LaneTypes
  <2>1. <<0>> \in Branch /\ <<0>> # <<>> /\ {<<0>>} \subseteq Branch
      BY DEF Branch
  <2>2. <<>> \in Seq(Branch) /\ <<>> \in Seq({"block", "events"} \X Branch)
      BY EmptySeq
  <2>3. DOMAIN receiptJobs = {}
      BY DEF LiveInit, NoNumbers
  <2> QED
      BY <2>1, <2>2, <2>3 DEF LiveInit, LaneTypes
<1>2. CursorInv
  <2>1. FeedOK
    <3>1. <<>> \in Seq(FeedItems) /\ Len(<<>>) = 0
        BY EmptySeq
    <3> QED
        BY <3>1 DEF LiveInit, FeedOK
  <2>2. ClientOK
      BY DEF LiveInit, ClientOK
  <2> QED
      BY <2>1, <2>2 DEF LiveInit, CursorInv
<1>3. SuffixInv
  <2>1. DOMAIN suffix = {} /\ activity = {}
      BY DEF LiveInit, NoNumbers
  <2> QED
      BY <2>1 DEF SuffixInv, SuffixLinked, ActivityOK
<1> QED
    BY <1>1, <1>2, <1>3 DEF LiveInv

(***************************************************************************)
(* Pieces of the steps.                                                    *)
(***************************************************************************)
\* The deque keeps the newest events whatever it drops.
LEMMA EmitKeepsFeed ==
    ASSUME FeedOK, FeedAssumption, NEW kind \in {"block", "activity"}, NEW hash \in Branch,
           EmitFeed(kind, hash)
    PROVE  FeedOK' /\ feedSeq' = feedSeq + 1
<1>1. feedSeq \in Nat /\ feedEvents \in Seq(FeedItems) /\ FeedCap \in Nat \ {0}
    BY FeedAssumption DEF FeedOK
<1> DEFINE item == [event |-> kind, sequence |-> feedSeq + 1, number |-> Len(hash)]
           items == Append(feedEvents, item)
           L == Len(feedEvents) + 1
           k == Max({1, L - FeedCap + 1})
<1>2. Len(hash) \in Nat /\ item \in FeedItems
  <2>1. Len(hash) \in Nat
      BY LenProperties DEF Branch
  <2> QED
      BY <1>1, <2>1 DEF FeedItems
<1>3. /\ items \in Seq(FeedItems) /\ Len(items) = L /\ L \in Nat \ {0}
      /\ \A i \in 1..Len(feedEvents) : items[i] = feedEvents[i]
      /\ items[L] = item
    BY <1>1, <1>2, AppendProperties, LenProperties
<1>4. item.sequence = feedSeq + 1
    OBVIOUS
<1>5. \A i \in 1..L : items[i].sequence = feedSeq + 1 - L + i
  <2> SUFFICES ASSUME NEW i \in 1..L PROVE items[i].sequence = feedSeq + 1 - L + i
      OBVIOUS
  <2> HIDE DEF items, item
  <2>1. CASE i = L
      BY <1>1, <1>3, <1>4, <2>1
  <2>2. CASE i # L
    <3>1. i \in 1..Len(feedEvents) /\ Len(feedEvents) \in Nat
        BY <1>1, <1>3, <2>2, LenProperties
    <3>2. feedEvents[i].sequence = feedSeq - Len(feedEvents) + i
        BY <3>1 DEF FeedOK
    <3> QED
        BY <1>1, <1>3, <3>1, <3>2
  <2> QED
      BY <2>1, <2>2
<1>6. feedSeq' = feedSeq + 1 /\ feedEvents' = Retained(items) /\ feedEpoch' = feedEpoch
    BY DEF EmitFeed
<1> HIDE DEF items, item
<1>7. k \in 1..L
  <2>1. 1 \in Int /\ L - FeedCap + 1 \in Int
      BY <1>1, <1>3
  <2>2. k = IF 1 >= L - FeedCap + 1 THEN 1 ELSE L - FeedCap + 1
      BY <2>1, LargerOf, Zenon
  <2> DEFINE m == L
  <2> HIDE DEF k, L
  <2> QED
      BY <1>1, <1>3, <2>2
<1>8. feedEvents' = SubSeq(items, k, L)
    BY <1>3, <1>6 DEF Retained
<1> HIDE DEF k, L
<1>9. /\ feedEvents' \in Seq(FeedItems) /\ Len(feedEvents') = L - k + 1
      /\ \A i \in 1..(L - k + 1) : feedEvents'[i] = items[k + i - 1]
  <2>1. k \in Int /\ L \in Int /\ k <= L
      BY <1>3, <1>7
  <2>2. \A i \in k..L : items[i] \in FeedItems
    <3>1. \A i \in k..L : i \in 1..Len(items)
        BY <1>3, <1>7
    <3> QED
        BY <1>3, <3>1, ElementOfSeq
  <2> QED
      BY <1>8, <2>1, <2>2, SubSeqProperties
<1>10. \A i \in 1..(L - k + 1) : feedEvents'[i].sequence = feedSeq + 1 - (L - k + 1) + i
  <2> SUFFICES ASSUME NEW i \in 1..(L - k + 1)
               PROVE  feedEvents'[i].sequence = feedSeq + 1 - (L - k + 1) + i
      OBVIOUS
  <2>1. k + i - 1 \in 1..L
      BY <1>3, <1>7
  <2>2. feedEvents'[i].sequence = feedSeq + 1 - L + (k + i - 1)
      BY <1>5, <1>9, <2>1
  <2> QED
      BY <1>1, <1>3, <1>7, <2>2
<1>11. L <= feedSeq + 1
    BY <1>1, LenProperties DEF FeedOK, L
<1> DEFINE n == L - k + 1
<1>12. n \in Nat \ {0} /\ n <= feedSeq + 1
    BY <1>1, <1>3, <1>7, <1>11
<1> HIDE DEF n
<1> QED
    BY <1>1, <1>6, <1>9, <1>10, <1>12 DEF FeedOK, n

LEMMA SubmitKeepsQueue ==
    ASSUME LaneTypes, NEW call \in {"block", "events"}, NEW hash \in Branch, Submit(call, hash)
    PROVE  observerQueue' \in Seq({"block", "events"} \X Branch)
<1> DEFINE Calls == {"block", "events"} \X Branch
           c == <<call, hash>>
<1>1. c \in Calls /\ observerQueue \in Seq(Calls)
    BY DEF LaneTypes
<1>2. observerQueue' = Append(observerQueue, c) \/ observerQueue' = <<>>
    BY DEF Submit
<1> HIDE DEF Calls, c
<1>3. Append(observerQueue, c) \in Seq(Calls)
    BY <1>1, AppendProperties
<1>4. <<>> \in Seq(Calls)
    BY EmptySeq
<1>5. observerQueue' \in Seq(Calls)
    BY <1>2, <1>3, <1>4
<1> QED
    BY <1>5 DEF Calls

LEMMA CursorStays ==
    ASSUME CursorInv, FeedOK', feedEpoch' = feedEpoch, feedSeq <= feedSeq', UNCHANGED streamVars
    PROVE  CursorInv'
<1>1. UNCHANGED <<conn, client, seen, excused>>
    BY DEF streamVars
<1>2. feedSeq \in Nat /\ feedSeq' \in Nat
    BY DEF CursorInv, FeedOK
<1>3. \A n : Covered(n) => Covered(n)'
    BY <1>1 DEF Covered
<1>4. excused' \in 0..feedSeq'
    BY <1>1, <1>2 DEF CursorInv
<1>5. ClientOK'
    BY <1>1, <1>2, <1>3 DEF CursorInv, ClientOK
<1>6. conn' # NULL => StreamOK'
  <2> SUFFICES ASSUME conn # NULL PROVE StreamOK'
      BY <1>1
  <2>1. StreamOK /\ conn.upto \in Nat
      BY DEF CursorInv, StreamOK, Streams
  <2> QED
      BY <1>1, <1>2, <1>3, <2>1 DEF StreamOK
<1> QED
    BY <1>4, <1>5, <1>6 DEF CursorInv

LEMMA FeedStays == ASSUME CursorInv, UNCHANGED feedVars, UNCHANGED streamVars PROVE CursorInv'
<1>1. FeedOK' /\ feedEpoch' = feedEpoch /\ feedSeq <= feedSeq'
    BY DEF CursorInv, FeedOK, feedVars
<1> QED
    BY <1>1, CursorStays

LEMMA SuffixStays == ASSUME SuffixInv, UNCHANGED <<suffix, activity>> PROVE SuffixInv'
BY DEF SuffixInv, SuffixLinked, ActivityOK

\* An emission into the feed, with or without a call of the observer before it.
LEMMA EmissionKeeps ==
    ASSUME LiveInv, FeedAssumption, NEW kind \in {"block", "activity"}, NEW hash \in Branch,
           EmitFeed(kind, hash), UNCHANGED <<suffix, activity>>, UNCHANGED streamVars
    PROVE  CursorInv' /\ SuffixInv'
<1>1. FeedOK' /\ feedSeq' = feedSeq + 1 /\ feedEpoch' = feedEpoch /\ feedSeq \in Nat
    BY EmitKeepsFeed DEF LiveInv, CursorInv, FeedOK, EmitFeed
<1> QED
    BY <1>1, CursorStays, SuffixStays DEF LiveInv

(***************************************************************************)
(* The chain and the threads that fill the feed.                           *)
(***************************************************************************)
LEMMA ChainSteps == ASSUME LiveInv, Mine \/ SwitchTip PROVE LiveInv'
<1>1. /\ UNCHANGED laneVars /\ UNCHANGED feedVars /\ observerQueue' = observerQueue
      /\ UNCHANGED serviceVars /\ UNCHANGED streamVars
    BY DEF Mine, SwitchTip
<1>2. canon \in Seq({0, 1}) /\ canon # <<>> /\ heads \subseteq Branch
    BY DEF LiveInv, LaneTypes, Branch
<1>3. canon' \in Seq({0, 1}) /\ canon' # <<>> /\ heads' = heads \cup {canon'}
  <2>1. CASE Mine
    <3>1. canon' = Append(canon, 0) /\ heads' = heads \cup {canon'}
        BY <2>1 DEF Mine
    <3> QED
        BY <1>2, <3>1, AppendProperties
  <2>2. CASE SwitchTip
    <3>1. canon' = [canon EXCEPT ![Len(canon)] = 1 - canon[Len(canon)]] /\ heads' = heads \cup {canon'}
        BY <2>2 DEF SwitchTip
    <3>2. Len(canon) \in Nat /\ Len(canon) \in 1..Len(canon)
        BY <1>2, EmptySeq
    <3>3. canon[Len(canon)] \in {0, 1}
        BY <1>2, <3>2, ElementOfSeq
    <3>4. 1 - canon[Len(canon)] \in {0, 1}
        BY <3>3
    <3>5. canon' \in Seq({0, 1}) /\ Len(canon') = Len(canon)
        BY <1>2, <3>1, <3>2, <3>4, ExceptSeq
    <3> QED
        BY <3>1, <3>2, <3>5, EmptySeq
  <2> QED
      BY <2>1, <2>2
<1>4. LaneTypes'
    BY <1>1, <1>2, <1>3 DEF LiveInv, LaneTypes, laneVars, Branch
<1>5. CursorInv' /\ SuffixInv'
    BY <1>1, FeedStays, SuffixStays DEF LiveInv, serviceVars
<1> QED
    BY <1>4, <1>5 DEF LiveInv

\* A step of a thread that only touches what the threads share.
LEMMA LaneStep ==
    ASSUME LiveInv, UNCHANGED feedVars, UNCHANGED <<suffix, activity>>, UNCHANGED streamVars, LaneTypes'
    PROVE  LiveInv'
BY FeedStays, SuffixStays DEF LiveInv

LEMMA HeadReceiveInv ==
    ASSUME LiveInv, FeedAssumption, NEW hash \in heads, HeadReceive(hash) PROVE LiveInv'
<1>1. /\ UNCHANGED <<canon, heads, lastHeader, headEmit, pendingLogs, flush, receiptJobs, observerQueue>>
      /\ UNCHANGED feedVars /\ UNCHANGED <<suffix, activity>> /\ UNCHANGED streamVars
    BY DEF HeadReceive, headVars, serviceVars
<1>2. hash \in Branch /\ canon \in Branch /\ lastHeader \in Branch \cup {NULL}
    BY DEF LiveInv, LaneTypes
<1>3. headQueue' \in Seq(Branch)
  <2>1. CASE headQueue' = <<hash>>
      BY <1>2, <2>1
  <2>2. CASE headQueue' # <<hash>>
    <3> DEFINE number == Len(hash)
               start == Max({Len(lastHeader) + 1, number - ReplayLimit + 1})
    <3>1. /\ headQueue' = [i \in 1 .. number - start + 1 |-> SubSeq(canon, 1, start + i - 1)]
          /\ lastHeader # NULL /\ number <= Len(canon)
        BY <2>2 DEF HeadReceive
    <3>2. lastHeader \in Branch
        BY <1>2, <3>1
    <3>3. number \in Nat /\ Len(lastHeader) \in Nat /\ Len(canon) \in Nat /\ ReplayLimit \in Nat \ {0}
        BY <1>2, <3>2, FeedAssumption, LenProperties DEF Branch
    <3>4. start \in Int /\ start >= 1
      <4>1. Len(lastHeader) + 1 \in Int /\ number - ReplayLimit + 1 \in Int
          BY <3>3
      <4>2. start = IF Len(lastHeader) + 1 >= number - ReplayLimit + 1
                    THEN Len(lastHeader) + 1 ELSE number - ReplayLimit + 1
          BY <4>1, LargerOf, Zenon
      <4> HIDE DEF start
      <4> QED
          BY <3>3, <4>1, <4>2
    <3> HIDE DEF number, start
    <3>5. \A i \in 1 .. number - start + 1 : SubSeq(canon, 1, start + i - 1) \in Branch
      <4> SUFFICES ASSUME NEW i \in 1 .. number - start + 1
                   PROVE  SubSeq(canon, 1, start + i - 1) \in Branch
          OBVIOUS
      <4>1. start + i - 1 \in Int /\ start + i - 1 <= Len(canon)
          BY <3>1, <3>3, <3>4
      <4>2. \A j \in 1..(start + i - 1) : canon[j] \in {0, 1}
        <5>1. \A j \in 1..(start + i - 1) : j \in 1..Len(canon)
            BY <3>3, <4>1
        <5> QED
            BY <1>2, <5>1, ElementOfSeq DEF Branch
      <4> QED
          BY <4>1, <4>2, SubSeqProperties DEF Branch
    <3> DEFINE m == number - start + 1
    <3>6. m \in Int
        BY <3>3, <3>4
    <3>7. headQueue' = [i \in 1..m |-> SubSeq(canon, 1, start + i - 1)]
        BY <3>1
    <3>8. \A i \in 1..m : SubSeq(canon, 1, start + i - 1) \in Branch
        BY <3>5
    <3> HIDE DEF m
    <3>9. headQueue' \in [1..m -> Branch]
        BY <3>7, <3>8
    <3>10. CASE m \in Nat
        BY <3>9, <3>10, SeqDef
    <3>11. CASE m < 0
      <4>1. 1..m = 1..0
          BY <3>6, <3>11
      <4>2. headQueue' \in [1..0 -> Branch]
          BY <3>9, <4>1
      <4> QED
          BY <4>2, SeqDef
    <3> QED
        BY <3>6, <3>10, <3>11
  <2> QED
      BY <2>1, <2>2
<1>4. LaneTypes'
    BY <1>1, <1>3 DEF LiveInv, LaneTypes
<1> QED
    BY <1>1, <1>4, LaneStep

LEMMA HeadStoreInv == ASSUME LiveInv, HeadStore PROVE LiveInv'
<1>1. /\ UNCHANGED <<canon, heads, pendingLogs, flush, receiptJobs, observerQueue>>
      /\ UNCHANGED feedVars /\ UNCHANGED <<suffix, activity>> /\ UNCHANGED streamVars
    BY DEF HeadStore, headVars, serviceVars
<1>2. headQueue \in Seq(Branch) /\ headQueue # <<>>
    BY DEF HeadStore, LiveInv, LaneTypes
<1>3. Head(headQueue) \in Branch /\ Tail(headQueue) \in Seq(Branch)
    BY <1>2, HeadTailProperties
<1>4. /\ headQueue' = Tail(headQueue)
      /\ lastHeader' \in {lastHeader, Head(headQueue)} /\ headEmit' \in {headEmit, Head(headQueue)}
    BY DEF HeadStore
<1>5. LaneTypes'
    BY <1>1, <1>3, <1>4 DEF LiveInv, LaneTypes
<1> QED
    BY <1>1, <1>5, LaneStep

LEMMA HeadEmitInv == ASSUME LiveInv, FeedAssumption, HeadEmit PROVE LiveInv'
<1>1. /\ UNCHANGED <<canon, heads, lastHeader, headQueue, pendingLogs, flush, receiptJobs>>
      /\ UNCHANGED <<suffix, activity>> /\ UNCHANGED streamVars /\ headEmit' = NULL
    BY DEF HeadEmit, headVars, serviceVars
<1>2. headEmit \in Branch /\ Submit("block", headEmit) /\ EmitFeed("block", headEmit)
    BY DEF HeadEmit, LiveInv, LaneTypes
<1>3. observerQueue' \in Seq({"block", "events"} \X Branch)
    BY <1>2, SubmitKeepsQueue DEF LiveInv
<1>4. CursorInv' /\ SuffixInv'
    BY <1>1, <1>2, EmissionKeeps
<1>5. LaneTypes'
    BY <1>1, <1>3 DEF LiveInv, LaneTypes
<1> QED
    BY <1>4, <1>5 DEF LiveInv

LEMMA LogSteps ==
    ASSUME LiveInv, (\E hash \in heads : LogArrives(hash)) \/ SessionEnds PROVE LiveInv'
<1>1. /\ UNCHANGED <<canon, heads, lastHeader, headQueue, headEmit, flush, receiptJobs, observerQueue>>
      /\ UNCHANGED feedVars /\ UNCHANGED <<suffix, activity>> /\ UNCHANGED streamVars
      /\ pendingLogs' \subseteq pendingLogs \cup heads
    BY DEF LogArrives, SessionEnds, headVars, serviceVars
<1>2. LaneTypes'
    BY <1>1 DEF LiveInv, LaneTypes
<1> QED
    BY <1>1, <1>2, LaneStep

LEMMA FlushStartInv ==
    ASSUME LiveInv, NEW number \in DOMAIN observed, FlushStart(number) PROVE LiveInv'
<1>1. /\ UNCHANGED <<canon, heads, lastHeader, headQueue, headEmit, receiptJobs, observerQueue>>
      /\ UNCHANGED feedVars /\ UNCHANGED <<suffix, activity>> /\ UNCHANGED streamVars
      /\ pendingLogs' \subseteq pendingLogs
    BY DEF FlushStart, headVars, serviceVars
<1>2. flush' # NULL => flush'.hash \in Branch
  <2>1. CASE observed[number].hash \in pendingLogs
      BY <2>1 DEF FlushStart, LiveInv, LaneTypes
  <2>2. CASE observed[number].hash \notin pendingLogs
      BY <2>2 DEF FlushStart
  <2> QED
      BY <2>1, <2>2
<1>3. LaneTypes'
    BY <1>1, <1>2 DEF LiveInv, LaneTypes
<1> QED
    BY <1>1, <1>3, LaneStep

LEMMA FlushAppendInv == ASSUME LiveInv, NEW known \in BOOLEAN, FlushAppend(known) PROVE LiveInv'
<1>1. /\ UNCHANGED <<canon, heads, lastHeader, headQueue, headEmit, receiptJobs, observerQueue>>
      /\ UNCHANGED feedVars /\ UNCHANGED <<suffix, activity>> /\ UNCHANGED streamVars
      /\ pendingLogs' \subseteq pendingLogs
    BY DEF FlushAppend, headVars, serviceVars
<1>2. flush' # NULL => flush'.hash \in Branch
  <2>1. flush.hash \in Branch
      BY DEF FlushAppend, LiveInv, LaneTypes
  <2>2. flush' = NULL \/ \E f \in BOOLEAN : flush' = [stage |-> "emit", hash |-> flush.hash, fresh |-> f]
      BY DEF FlushAppend
  <2> QED
      BY <2>1, <2>2
<1>3. LaneTypes'
    BY <1>1, <1>2 DEF LiveInv, LaneTypes
<1> QED
    BY <1>1, <1>3, LaneStep

LEMMA ScheduledDomain == ASSUME NEW hash PROVE DOMAIN Scheduled(hash) \subseteq DOMAIN receiptJobs \cup {hash}
BY DEF Scheduled

LEMMA FlushEmitInv == ASSUME LiveInv, FeedAssumption, FlushEmit PROVE LiveInv'
<1>1. /\ UNCHANGED <<canon, heads, lastHeader, headQueue, headEmit, pendingLogs>>
      /\ UNCHANGED <<suffix, activity>> /\ UNCHANGED streamVars /\ flush' = NULL
    BY DEF FlushEmit, headVars, serviceVars
<1>2. flush.hash \in Branch /\ Submit("events", flush.hash) /\ EmitFeed("activity", flush.hash)
    BY DEF FlushEmit, EmitActivity, LiveInv, LaneTypes
<1>3. DOMAIN receiptJobs' \subseteq Branch
  <2>1. receiptJobs' = receiptJobs \/ receiptJobs' = Scheduled(flush.hash)
      BY DEF FlushEmit
  <2> QED
      BY <1>2, <2>1, ScheduledDomain DEF LiveInv, LaneTypes
<1>4. observerQueue' \in Seq({"block", "events"} \X Branch)
    BY <1>2, SubmitKeepsQueue DEF LiveInv
<1>5. CursorInv' /\ SuffixInv'
    BY <1>1, <1>2, EmissionKeeps
<1>6. LaneTypes'
    BY <1>1, <1>3, <1>4 DEF LiveInv, LaneTypes
<1> QED
    BY <1>5, <1>6 DEF LiveInv

LEMMA PublishCanonicalInv ==
    ASSUME LiveInv, FeedAssumption, NEW hash \in heads, NEW unknown \in BOOLEAN,
           PublishCanonical(hash, unknown)
    PROVE  LiveInv'
<1>1. /\ UNCHANGED <<canon, heads, lastHeader, headQueue, headEmit, pendingLogs, flush>>
      /\ UNCHANGED <<suffix, activity>> /\ UNCHANGED streamVars
    BY DEF PublishCanonical, headVars, serviceVars
<1>2. hash \in Branch /\ Submit("events", hash) /\ EmitFeed("activity", hash)
    BY DEF PublishCanonical, EmitActivity, LiveInv, LaneTypes
<1>3. DOMAIN receiptJobs' \subseteq Branch
  <2>1. receiptJobs' = receiptJobs \/ receiptJobs' = Scheduled(hash)
      BY DEF PublishCanonical
  <2> QED
      BY <1>2, <2>1, ScheduledDomain DEF LiveInv, LaneTypes
<1>4. observerQueue' \in Seq({"block", "events"} \X Branch)
    BY <1>2, SubmitKeepsQueue DEF LiveInv
<1>5. CursorInv' /\ SuffixInv'
    BY <1>1, <1>2, EmissionKeeps
<1>6. LaneTypes'
    BY <1>1, <1>3, <1>4 DEF LiveInv, LaneTypes
<1> QED
    BY <1>5, <1>6 DEF LiveInv

LEMMA ReceiptStepInv == ASSUME LiveInv, NEW hash \in DOMAIN receiptJobs, ReceiptStep(hash) PROVE LiveInv'
<1>1. /\ UNCHANGED <<canon, heads, lastHeader, headQueue, headEmit, pendingLogs, flush, observerQueue>>
      /\ UNCHANGED feedVars /\ UNCHANGED <<suffix, activity>> /\ UNCHANGED streamVars
      /\ DOMAIN receiptJobs' = DOMAIN receiptJobs
    BY DEF ReceiptStep, headVars, serviceVars
<1>2. LaneTypes'
    BY <1>1 DEF LiveInv, LaneTypes
<1> QED
    BY <1>1, <1>2, LaneStep

LEMMA ReceiptEmitInv ==
    ASSUME LiveInv, FeedAssumption, NEW hash \in DOMAIN receiptJobs, ReceiptEmit(hash) PROVE LiveInv'
<1>1. /\ UNCHANGED <<canon, heads, lastHeader, headQueue, headEmit, pendingLogs, flush>>
      /\ UNCHANGED <<suffix, activity>> /\ UNCHANGED streamVars
      /\ DOMAIN receiptJobs' = DOMAIN receiptJobs
    BY DEF ReceiptEmit, headVars, serviceVars
<1>2. hash \in Branch /\ Submit("events", hash) /\ EmitFeed("activity", hash)
    BY DEF ReceiptEmit, EmitActivity, LiveInv, LaneTypes
<1>3. observerQueue' \in Seq({"block", "events"} \X Branch)
    BY <1>2, SubmitKeepsQueue DEF LiveInv
<1>4. CursorInv' /\ SuffixInv'
    BY <1>1, <1>2, EmissionKeeps
<1>5. LaneTypes'
    BY <1>1, <1>3 DEF LiveInv, LaneTypes
<1> QED
    BY <1>4, <1>5 DEF LiveInv

(***************************************************************************)
(* The observer's suffix.                                                  *)
(***************************************************************************)
\* A new header keeps the ones below it only where it follows them.
LEMMA ExtendedLinked ==
    ASSUME SuffixInv, NEW hash \in Branch
    PROVE  LET next == Extended(hash)
           IN  /\ \E b \in Nat : DOMAIN next \subseteq 0..b
               /\ \A n \in DOMAIN next :
                     \/ n - 1 \in DOMAIN next /\ Front(next[n]) = next[n - 1]
                     \/ \A m \in DOMAIN next : n <= m
<1> DEFINE number == Len(hash)
           D == DOMAIN suffix
           prior == Max(D)
           under == {n \in D : n < number}
           follows(numbers) ==
               numbers # {} => Max(numbers) = number - 1 /\ suffix[Max(numbers)] = Front(hash)
           surviving == IF D = {} THEN {}
                   ELSE IF number <= prior THEN IF follows(under) THEN under ELSE {}
                   ELSE IF follows(D) THEN D ELSE {}
           next == [n \in surviving \cup {number} |-> IF n = number THEN hash ELSE suffix[n]]
<1>1. number \in Nat
    BY LenProperties DEF Branch
<1>2. PICK b \in Nat : D \subseteq 0..b
    BY DEF SuffixInv
<1>3. Extended(hash) = next
    BY DEF Extended
<1>4. DOMAIN next = surviving \cup {number} /\ next[number] = hash
      /\ \A n \in surviving : n # number => next[n] = suffix[n]
    OBVIOUS
<1>5. /\ surviving \subseteq under
      /\ surviving # {} => number - 1 \in surviving /\ suffix[number - 1] = Front(hash)
      /\ surviving # {} => surviving = under
  <2>1. CASE D = {}
      BY <2>1
  <2>2. CASE D # {} /\ number <= prior
    <3>1. CASE under # {} /\ follows(under)
      <4>1. under \in SUBSET (0..b)
          BY <1>2
      <4>2. Max(under) \in under
          BY <3>1, <4>1, HighestNumber
      <4>3. Max(under) = number - 1 /\ suffix[Max(under)] = Front(hash)
          BY <3>1
      <4>4. surviving = under
          BY <2>2, <3>1
      <4> HIDE DEF surviving, under, follows
      <4> QED
          BY <4>2, <4>3, <4>4
    <3>2. CASE ~(under # {} /\ follows(under))
      <4>1. surviving = {}
          BY <2>2, <3>2
      <4> HIDE DEF surviving
      <4> QED
          BY <4>1
    <3> QED
        BY <3>1, <3>2
  <2>3. CASE D # {} /\ ~(number <= prior)
    <3>1. prior \in D /\ \A m \in D : m <= prior
        BY <1>2, <2>3, HighestNumber
    <3>2. under = D
      <4>1. \A n \in D : n \in Nat
          BY <1>2
      <4>2. \A n \in D : n < number
        <5> HIDE DEF prior, number, D
        <5> QED
            BY <1>1, <2>3, <3>1, <4>1
      <4> QED
          BY <4>2
    <3>3. CASE follows(D)
      <4>1. prior = number - 1 /\ suffix[prior] = Front(hash)
          BY <2>3, <3>3
      <4>2. surviving = D
          BY <2>3, <3>3
      <4> HIDE DEF surviving, under, follows, prior
      <4> QED
          BY <3>1, <3>2, <4>1, <4>2
    <3>4. CASE ~follows(D)
      <4>1. surviving = {}
          BY <2>3, <3>4
      <4> HIDE DEF surviving
      <4> QED
          BY <4>1
    <3> QED
        BY <3>3, <3>4
  <2> QED
      BY <2>1, <2>2, <2>3
<1> HIDE DEF surviving, next
<1>6. \E c \in Nat : DOMAIN next \subseteq 0..c
  <2>1. b + number \in Nat /\ DOMAIN next \subseteq 0..(b + number)
      BY <1>1, <1>2, <1>4, <1>5
  <2> QED
      BY <2>1
<1>7. ASSUME NEW n \in DOMAIN next
      PROVE  \/ n - 1 \in DOMAIN next /\ Front(next[n]) = next[n - 1]
             \/ \A m \in DOMAIN next : n <= m
  <2>1. CASE n = number
    <3>1. CASE surviving = {}
        BY <1>1, <1>4, <2>1, <3>1
    <3>2. CASE surviving # {}
      <4>1. number - 1 \in surviving /\ suffix[number - 1] = Front(hash) /\ number - 1 # number
          BY <1>1, <1>5, <3>2
      <4> QED
          BY <1>4, <2>1, <4>1
    <3> QED
        BY <3>1, <3>2
  <2>2. CASE n # number
    <3>1. n \in surviving /\ surviving = under /\ n \in D /\ n < number /\ n \in Nat
        BY <1>2, <1>4, <1>5, <2>2
    <3>2. CASE n - 1 \in D /\ Front(suffix[n]) = suffix[n - 1]
      <4>1. n - 1 \in surviving /\ n - 1 # number
          BY <1>1, <3>1, <3>2
      <4> QED
          BY <1>4, <2>2, <3>1, <3>2, <4>1
    <3>3. CASE \A m \in D : n <= m
        BY <1>1, <1>4, <1>5, <3>1, <3>3
    <3> QED
        BY <3>1, <3>2, <3>3 DEF SuffixInv, SuffixLinked
  <2> QED
      BY <2>1, <2>2
<1> QED
    BY <1>3, <1>6, <1>7

LEMMA TrimmedLinked ==
    ASSUME NEW next, \E b \in Nat : DOMAIN next \subseteq 0..b,
           \A n \in DOMAIN next :
              \/ n - 1 \in DOMAIN next /\ Front(next[n]) = next[n - 1]
              \/ \A m \in DOMAIN next : n <= m
    PROVE  LET t == Trimmed(next)
           IN  /\ \E b \in Nat : DOMAIN t \subseteq 0..b
               /\ \A n \in DOMAIN t :
                     \/ n - 1 \in DOMAIN t /\ Front(t[n]) = t[n - 1]
                     \/ \A m \in DOMAIN t : n <= m
<1> DEFINE numbers == DOMAIN next
           low == Min(numbers)
           trim == IF Cardinality(numbers) > SuffixCap THEN numbers \ {low} ELSE numbers
           t == [n \in trim |-> next[n]]
<1>1. Trimmed(next) = t
    BY DEF Trimmed
<1>2. DOMAIN t = trim /\ \A n \in trim : t[n] = next[n]
    OBVIOUS
<1>3. PICK b \in Nat : numbers \subseteq 0..b
    OBVIOUS
<1>4. trim \subseteq numbers /\ (trim = numbers \/ trim = numbers \ {low})
    OBVIOUS
<1>5. numbers # {} => low \in numbers /\ \A m \in numbers : low <= m
    BY <1>3, LowestNumber
<1> HIDE DEF low, trim, t
<1>6. ASSUME NEW n \in trim
      PROVE  \/ n - 1 \in trim /\ Front(t[n]) = t[n - 1]
             \/ \A m \in trim : n <= m
  <2>1. n \in numbers /\ n \in Nat
      BY <1>3, <1>4
  <2>2. CASE \A m \in numbers : n <= m
      BY <1>4, <2>2
  <2>3. CASE n - 1 \in numbers /\ Front(next[n]) = next[n - 1]
    <3>1. CASE n - 1 \in trim
        BY <1>2, <2>3, <3>1
    <3>2. CASE n - 1 \notin trim
      <4>1. n - 1 = low /\ trim = numbers \ {low}
          BY <1>4, <2>3, <3>2
      <4>2. \A m \in trim : m \in Nat /\ low <= m /\ m # low
          BY <1>3, <1>5, <2>1, <4>1
      <4> QED
          BY <2>1, <4>1, <4>2
    <3> QED
        BY <3>1, <3>2
  <2> QED
      BY <2>1, <2>2, <2>3
<1> QED
    BY <1>1, <1>2, <1>3, <1>4, <1>6

LEMMA RunObserverInv == ASSUME LiveInv, RunObserver PROVE LiveInv'
<1>1. /\ UNCHANGED headVars /\ UNCHANGED laneVars /\ UNCHANGED feedVars /\ UNCHANGED streamVars
      /\ observerQueue' = Tail(observerQueue) /\ observerQueue # <<>>
    BY DEF RunObserver
<1> DEFINE Calls == {"block", "events"} \X Branch
<1>2. observerQueue \in Seq(Calls)
    BY DEF LiveInv, LaneTypes
<1> HIDE DEF Calls
<1>3. Head(observerQueue) \in Calls /\ Tail(observerQueue) \in Seq(Calls)
    BY <1>1, <1>2, HeadTailProperties
<1>4. LaneTypes'
  <2>1. observerQueue' \in Seq({"block", "events"} \X Branch)
      BY <1>1, <1>3 DEF Calls
  <2> QED
      BY <1>1, <2>1 DEF LiveInv, LaneTypes, headVars, laneVars
<1>5. CursorInv'
    BY <1>1, FeedStays DEF LiveInv
<1>6. SuffixInv'
  <2> DEFINE hash == Head(observerQueue)[2]
  <2>1. hash \in Branch
      BY <1>3 DEF Calls
  <2>2. ObserveBlock(hash) \/ ObserveEvents(hash)
      BY DEF RunObserver
  <2> HIDE DEF hash
  <2>3. CASE ObserveEvents(hash)
    <3>1. suffix' = suffix /\ ActivityOK'
        BY <2>3 DEF ObserveEvents, LiveInv, SuffixInv, ActivityOK
    <3> QED
        BY <3>1 DEF LiveInv, SuffixInv, SuffixLinked
  <2>4. CASE ObserveBlock(hash)
    <3>1. ActivityOK'
        BY <2>4 DEF ObserveBlock, ActivityOK
    <3>2. (\E b \in Nat : DOMAIN suffix' \subseteq 0..b) /\ SuffixLinked'
      <4>1. CASE suffix' = suffix
          BY <4>1 DEF LiveInv, SuffixInv, SuffixLinked
      <4>2. CASE suffix' = Trimmed(Extended(hash))
        <5> DEFINE next == Extended(hash)
        <5>1. /\ \E b \in Nat : DOMAIN next \subseteq 0..b
              /\ \A n \in DOMAIN next :
                    \/ n - 1 \in DOMAIN next /\ Front(next[n]) = next[n - 1]
                    \/ \A m \in DOMAIN next : n <= m
            BY <2>1, ExtendedLinked DEF LiveInv
        <5>2. suffix' = Trimmed(next)
            BY <4>2
        <5> HIDE DEF next
        <5> DEFINE t == Trimmed(next)
        <5>3. /\ \E b \in Nat : DOMAIN t \subseteq 0..b
              /\ \A n \in DOMAIN t :
                    \/ n - 1 \in DOMAIN t /\ Front(t[n]) = t[n - 1]
                    \/ \A m \in DOMAIN t : n <= m
            BY <5>1, TrimmedLinked
        <5> HIDE DEF t
        <5>4. suffix' = t
            BY <5>2 DEF t
        <5> QED
            BY <5>3, <5>4 DEF SuffixLinked
      <4> QED
          BY <2>4, <4>1, <4>2 DEF ObserveBlock
    <3> QED
        BY <3>1, <3>2 DEF SuffixInv
  <2> QED
      BY <2>2, <2>3, <2>4
<1> QED
    BY <1>4, <1>5, <1>6 DEF LiveInv

(***************************************************************************)
(* The stream.                                                             *)
(***************************************************************************)
LEMMA RetainedItems ==
    ASSUME FeedOK
    PROVE  /\ \A x \in Items : x \in FeedItems /\ x.sequence \in 1..feedSeq
           /\ \A x, y \in Items : x.sequence = y.sequence => x = y
           /\ \A s \in (feedSeq - Len(feedEvents) + 1)..feedSeq : \E x \in Items : x.sequence = s
<1>1. /\ feedSeq \in Nat /\ Len(feedEvents) \in Nat /\ Len(feedEvents) <= feedSeq
      /\ DOMAIN feedEvents = 1..Len(feedEvents) /\ \A i \in 1..Len(feedEvents) : feedEvents[i] \in FeedItems
    BY LenProperties, ElementOfSeq DEF FeedOK
<1>2. \A i \in 1..Len(feedEvents) : feedEvents[i].sequence = feedSeq - Len(feedEvents) + i
    BY DEF FeedOK
<1>3. Items = {feedEvents[i] : i \in 1..Len(feedEvents)}
    BY <1>1 DEF Items, Range
<1>4. \A x \in Items : x \in FeedItems /\ x.sequence \in 1..feedSeq
    BY <1>1, <1>2, <1>3
<1>5. \A x, y \in Items : x.sequence = y.sequence => x = y
    BY <1>1, <1>2, <1>3
<1>6. ASSUME NEW s \in (feedSeq - Len(feedEvents) + 1)..feedSeq
      PROVE  \E x \in Items : x.sequence = s
  <2> DEFINE i == s - feedSeq + Len(feedEvents)
  <2>1. i \in 1..Len(feedEvents) /\ feedSeq - Len(feedEvents) + i = s
      BY <1>1
  <2>2. feedEvents[i] \in Items /\ feedEvents[i].sequence = s
      BY <1>2, <1>3, <2>1
  <2> QED
      BY <2>2
<1> QED
    BY <1>4, <1>5, <1>6

\* An answer either holds all that follows the cursor, or excuses it.
LEMMA AnsweredOK ==
    ASSUME CursorInv, NEW after \in Nat, NEW epoch \in Nat,
           epoch = 0 => after = 0,
           epoch = feedEpoch => after <= feedSeq /\ Covered(after),
           Answered(after, epoch), UNCHANGED feedVars, seen' = seen
    PROVE  StreamOK' /\ excused' \in 0..feedSeq /\ excused <= excused'
<1>1. /\ feedEpoch' = feedEpoch /\ feedSeq' = feedSeq /\ feedEvents' = feedEvents
      /\ feedEpoch \in Nat \ {0} /\ feedSeq \in Nat /\ excused \in 0..feedSeq /\ FeedOK
    BY DEF feedVars, CursorInv, FeedOK
<1>2. /\ Len(feedEvents) \in Nat /\ Len(feedEvents) <= feedSeq
      /\ (feedEvents = <<>> <=> Len(feedEvents) = 0)
      /\ (feedSeq > 0 => Len(feedEvents) > 0)
    BY <1>1, LenProperties, EmptySeq DEF FeedOK
<1> DEFINE feed == FeedUpdates(after, epoch)
           lapped == feedEvents # <<>> /\ after < feedEvents[1].sequence - 1
           lost == epoch # feedEpoch \/ lapped
           new == [after |-> CursorAfterReset(after, feed.reset), batch |-> feed.events,
                   upto |-> feedSeq, reset |-> feed.reset]
<1>3. conn' = new /\ excused' = IF feed.reset /\ lost THEN feedSeq ELSE excused
    BY DEF Answered
<1>4. excused' \in 0..feedSeq /\ excused <= excused'
    BY <1>1, <1>3
<1>5. /\ \A x \in Items : x \in FeedItems /\ x.sequence \in 1..feedSeq
      /\ \A x, y \in Items : x.sequence = y.sequence => x = y
      /\ \A s \in (feedSeq - Len(feedEvents) + 1)..feedSeq : \E x \in Items : x.sequence = s
    BY <1>1, RetainedItems
<1>6. \A n : Covered(n) => Covered(n)'
    BY <1>1, <1>4 DEF Covered
<1>7. Covered(0)'
    BY DEF Covered
<1>8. ASSUME NEW r \in BOOLEAN, NEW items \in SUBSET Items, NEW c \in Nat,
             conn' = [after |-> c, batch |-> items, upto |-> feedSeq, reset |-> r],
             c <= feedSeq, Covered(c)', r => feedSeq <= excused',
             ~r => \A s \in 1..feedSeq : c < s <=> \E x \in items : x.sequence = s
      PROVE  StreamOK'
  <2>1. items \subseteq FeedItems
      BY <1>5
  <2>2. conn' \in Streams
      BY <1>1, <1>8, <2>1 DEF Streams
  <2>3. conn'.after = c /\ conn'.batch = items /\ conn'.upto = feedSeq /\ conn'.reset = r
      BY <1>8
  <2> QED
      BY <1>1, <1>5, <1>8, <2>2, <2>3 DEF StreamOK
<1> SUFFICES StreamOK'
    BY <1>4
<1>9. CASE feedEvents = <<>>
  <2> DEFINE r == epoch \notin {0, feedEpoch}
  <2>1. feedSeq = 0 /\ feed = [reset |-> r, events |-> {}]
      BY <1>1, <1>2, <1>9 DEF FeedUpdates
  <2>2. r \in BOOLEAN /\ (~r => after = 0)
      BY <1>1, <2>1
  <2> HIDE DEF r
  <2>3. feed.events = {} /\ feed.reset = r
      BY <2>1
  <2>4. conn' = [after |-> 0, batch |-> {}, upto |-> feedSeq, reset |-> r]
      BY <1>3, <2>2, <2>3 DEF CursorAfterReset
  <2>5. feedSeq <= excused'
      BY <1>1, <1>4, <2>1
  <2>6. {} \in SUBSET Items /\ 0 \in Nat /\ 0 <= feedSeq /\ 1..feedSeq = {}
      BY <2>1
  <2> QED
      BY <1>7, <1>8, <2>1, <2>2, <2>4, <2>5, <2>6
<1>10. CASE feedEvents # <<>> /\ Resumable(after, epoch)
  <2> DEFINE items == {item \in Items : item.sequence > after}
  <2>1. feed = [reset |-> FALSE, events |-> items]
      BY <1>10 DEF FeedUpdates
  <2>2. conn' = [after |-> after, batch |-> items, upto |-> feedSeq, reset |-> FALSE]
      BY <1>3, <2>1 DEF CursorAfterReset
  <2>3. after <= feedSeq /\ epoch = feedEpoch /\ feedEvents[1].sequence - 1 <= after
      BY <1>10 DEF Resumable
  <2>4. feedSeq - Len(feedEvents) <= after
    <3>1. 1 \in 1..Len(feedEvents)
        BY <1>2, <1>10
    <3>2. feedEvents[1].sequence = feedSeq - Len(feedEvents) + 1
        BY <1>1, <3>1 DEF FeedOK
    <3> QED
        BY <1>1, <1>2, <2>3, <3>2
  <2>5. \A s \in 1..feedSeq : after < s <=> \E x \in items : x.sequence = s
    <3> SUFFICES ASSUME NEW s \in 1..feedSeq
                 PROVE  after < s <=> \E x \in Items : x.sequence > after /\ x.sequence = s
        OBVIOUS
    <3>1. ASSUME after < s PROVE \E x \in Items : x.sequence > after /\ x.sequence = s
      <4>1. s \in (feedSeq - Len(feedEvents) + 1)..feedSeq
          BY <1>1, <1>2, <2>4, <3>1
      <4> QED
          BY <1>5, <3>1, <4>1
    <3> QED
        BY <3>1
  <2>6. items \in SUBSET Items /\ Covered(after)'
      BY <1>6, <2>3
  <2> HIDE DEF items
  <2> QED
      BY <1>8, <2>2, <2>3, <2>5, <2>6
<1>11. CASE feedEvents # <<>> /\ ~Resumable(after, epoch)
  <2>1. feed = [reset |-> TRUE, events |-> ResetRows]
      BY <1>11 DEF FeedUpdates
  <2>2. lost
    <3>1. CASE epoch = feedEpoch
      <4>1. ~(feedEvents[1].sequence - 1 <= after)
          BY <1>11, <3>1 DEF Resumable
      <4>2. 1 \in 1..Len(feedEvents)
          BY <1>2, <1>11
      <4>3. feedEvents[1].sequence = feedSeq - Len(feedEvents) + 1
          BY <1>1, <4>2 DEF FeedOK
      <4> QED
          BY <1>1, <1>2, <1>11, <4>1, <4>3
    <3>2. CASE epoch # feedEpoch
        BY <3>2
    <3> QED
        BY <3>1, <3>2
  <2>3. feedSeq <= excused'
      BY <1>1, <1>3, <2>1, <2>2
  <2>4. conn' = [after |-> 0, batch |-> ResetRows, upto |-> feedSeq, reset |-> TRUE]
      BY <1>3, <2>1 DEF CursorAfterReset
  <2>5. ResetRows \in SUBSET Items
      BY DEF ResetRows
  <2>6. 0 \in Nat /\ 0 <= feedSeq /\ TRUE \in BOOLEAN
      BY <1>1
  <2> QED
      BY <1>7, <1>8, <2>3, <2>4, <2>5, <2>6
<1> QED
    BY <1>9, <1>10, <1>11

\* The steps of a stream leave the lanes and the service alone.
LEMMA StreamFrame ==
    ASSUME LiveInv, UNCHANGED headVars, UNCHANGED laneVars, observerQueue' = observerQueue,
           UNCHANGED serviceVars, CursorInv'
    PROVE  LiveInv'
<1>1. LaneTypes'
    BY DEF LiveInv, LaneTypes, headVars, laneVars
<1>2. SuffixInv'
    BY SuffixStays DEF LiveInv, serviceVars
<1> QED
    BY <1>1, <1>2 DEF LiveInv

LEMMA ConnectInv == ASSUME LiveInv, Connect PROVE LiveInv'
<1>1. /\ UNCHANGED headVars /\ UNCHANGED laneVars /\ observerQueue' = observerQueue
      /\ UNCHANGED serviceVars /\ UNCHANGED feedVars /\ client' = client /\ seen' = seen
      /\ Answered(client.after, client.epoch)
    BY DEF Connect
<1>2. FeedOK' /\ feedEpoch' = feedEpoch /\ feedSeq' = feedSeq /\ feedSeq \in Nat
    BY <1>1 DEF LiveInv, CursorInv, FeedOK, feedVars
<1>3. CursorInv /\ ClientOK
    BY DEF LiveInv, CursorInv
<1>4. StreamOK' /\ excused' \in 0..feedSeq /\ excused <= excused'
  <2>1. client.after \in Nat /\ client.epoch \in Nat
      BY <1>3 DEF ClientOK
  <2> QED
      BY <1>1, <1>3, <2>1, AnsweredOK DEF ClientOK
<1>5. ClientOK'
  <2>1. \A n : Covered(n) => Covered(n)'
    <3>1. excused \in 0..feedSeq
        BY <1>3 DEF CursorInv
    <3> QED
        BY <1>1, <1>2, <1>4, <3>1 DEF Covered
  <2> QED
      BY <1>1, <1>2, <1>3, <2>1 DEF ClientOK
<1>6. CursorInv'
    BY <1>2, <1>4, <1>5 DEF CursorInv
<1> QED
    BY <1>1, <1>6, StreamFrame

LEMMA PollInv == ASSUME LiveInv, Poll PROVE LiveInv'
<1>1. /\ UNCHANGED headVars /\ UNCHANGED laneVars /\ observerQueue' = observerQueue
      /\ UNCHANGED serviceVars /\ UNCHANGED feedVars /\ client' = client /\ seen' = seen
      /\ conn # NULL /\ conn.batch = {} /\ Answered(Max({conn.after, conn.upto}), feedEpoch)
    BY DEF Poll
<1>2. FeedOK' /\ feedEpoch' = feedEpoch /\ feedSeq' = feedSeq /\ feedSeq \in Nat
    BY <1>1 DEF LiveInv, CursorInv, FeedOK, feedVars
<1>3. CursorInv /\ ClientOK /\ StreamOK /\ feedEpoch \in Nat \ {0} /\ excused \in 0..feedSeq
    BY <1>1 DEF LiveInv, CursorInv, FeedOK
<1>4. conn.after \in Nat /\ conn.upto \in Nat /\ conn.after <= conn.upto /\ conn.upto <= feedSeq
    BY <1>3 DEF StreamOK, Streams
<1>5. Max({conn.after, conn.upto}) = conn.upto
  <2>1. Max({conn.after, conn.upto}) = IF conn.after >= conn.upto THEN conn.after ELSE conn.upto
      BY <1>4, LargerOf
  <2> QED
      BY <1>4, <2>1
<1>6. Covered(conn.upto)
  <2>1. CASE conn.reset
      BY <1>3, <1>4, <2>1 DEF StreamOK, Covered
  <2>2. CASE ~conn.reset
    <3>1. \A s \in 1..conn.upto : s <= conn.after
        BY <1>1, <1>3, <1>4, <2>2 DEF StreamOK
    <3> QED
        BY <1>3, <1>4, <3>1 DEF StreamOK, Covered
  <2> QED
      BY <2>1, <2>2
<1>7. StreamOK' /\ excused' \in 0..feedSeq /\ excused <= excused'
  <2>1. Answered(conn.upto, feedEpoch)
      BY <1>1, <1>5
  <2> QED
      BY <1>1, <1>3, <1>4, <1>6, <2>1, AnsweredOK
<1>8. ClientOK'
  <2>1. \A n : Covered(n) => Covered(n)'
      BY <1>1, <1>2, <1>3, <1>7 DEF Covered
  <2> QED
      BY <1>1, <1>2, <1>3, <2>1 DEF ClientOK
<1>9. CursorInv'
    BY <1>2, <1>7, <1>8 DEF CursorInv
<1> QED
    BY <1>1, <1>9, StreamFrame

LEMMA DeliverInv == ASSUME LiveInv, Deliver PROVE LiveInv'
<1>1. /\ UNCHANGED headVars /\ UNCHANGED laneVars /\ observerQueue' = observerQueue
      /\ UNCHANGED serviceVars /\ UNCHANGED feedVars /\ excused' = excused
      /\ conn # NULL /\ conn.batch # {}
    BY DEF Deliver
<1>2. /\ FeedOK' /\ feedEpoch' = feedEpoch /\ feedSeq' = feedSeq /\ feedSeq \in Nat
      /\ feedEpoch \in Nat \ {0}
    BY <1>1 DEF LiveInv, CursorInv, FeedOK, feedVars
<1>3. ClientOK /\ StreamOK /\ excused \in 0..feedSeq
    BY <1>1 DEF LiveInv, CursorInv
<1>4. /\ conn \in Streams /\ conn.after \in Nat /\ conn.upto \in Nat /\ conn.upto <= feedSeq
      /\ conn.after <= conn.upto /\ \A x \in conn.batch : x.sequence \in 1..conn.upto
    BY <1>3 DEF StreamOK, Streams
<1> DEFINE item == CHOOSE x \in conn.batch : \A y \in conn.batch : x.sequence <= y.sequence
           after == Max({conn.after, item.sequence})
<1>5. item \in conn.batch /\ \A y \in conn.batch : item.sequence <= y.sequence
  <2> DEFINE seqs == {x.sequence : x \in conn.batch}
  <2>1. seqs \in SUBSET Nat /\ seqs # {}
      BY <1>1, <1>4
  <2>2. PICK n \in seqs : \A m \in seqs : n <= m
      BY <2>1, LeastNumber
  <2>3. \E x \in conn.batch : \A y \in conn.batch : x.sequence <= y.sequence
      BY <2>2
  <2> QED
      BY <2>3
<1>6. /\ conn' = [conn EXCEPT !.after = after, !.batch = conn.batch \ {item}]
      /\ client' = [epoch |-> feedEpoch, after |-> after]
      /\ seen' = seen \cup {<<feedEpoch, item.sequence>>}
    BY DEF Deliver
<1> HIDE DEF item
<1>7. item.sequence \in 1..conn.upto
    BY <1>4, <1>5
<1>8. after = IF conn.after >= item.sequence THEN conn.after ELSE item.sequence
    BY <1>4, <1>7, LargerOf
<1> HIDE DEF after
<1>9. after \in Nat /\ conn.after <= after /\ after <= conn.upto /\ item.sequence <= after
    BY <1>4, <1>7, <1>8
<1>10. /\ conn' \in Streams /\ conn'.after = after /\ conn'.batch = conn.batch \ {item}
       /\ conn'.upto = conn.upto /\ conn'.reset = conn.reset
    BY <1>4, <1>6, <1>9 DEF Streams
<1>11. ~conn.reset => after = conn.after + 1 /\ item.sequence = after
  <2> SUFFICES ASSUME ~conn.reset PROVE after = conn.after + 1 /\ item.sequence = after
      OBVIOUS
  <2>1. \A s \in 1..conn.upto : conn.after < s <=> \E x \in conn.batch : x.sequence = s
      BY <1>3 DEF StreamOK
  <2>2. conn.after < item.sequence
      BY <1>5, <1>7, <2>1
  <2>3. conn.after + 1 \in 1..conn.upto
      BY <1>4, <1>7, <2>2
  <2>4. PICK x \in conn.batch : x.sequence = conn.after + 1
      BY <1>4, <2>1, <2>3
  <2>5. item.sequence <= conn.after + 1
      BY <1>5, <2>4
  <2> QED
      BY <1>4, <1>7, <1>8, <2>2, <2>5
<1>12. \A s \in 1..after : <<feedEpoch', s>> \in seen' \/ s <= excused'
  <2>1. Covered(conn.after)
      BY <1>3 DEF StreamOK
  <2>2. CASE conn.reset
    <3>1. \A s \in 1..after : s <= excused
        BY <1>3, <1>4, <1>9, <2>2 DEF StreamOK
    <3> QED
        BY <1>1, <3>1 DEF Covered
  <2>3. CASE ~conn.reset
    <3>1. \A s \in 1..after : s \in 1..conn.after \/ s = item.sequence
        BY <1>4, <1>11, <2>3
    <3> QED
        BY <1>1, <1>2, <1>6, <2>1, <3>1 DEF Covered
  <2> QED
      BY <2>2, <2>3
<1>13. StreamOK'
  <2>1. \A x \in conn.batch \ {item} : x.sequence # item.sequence
      BY <1>3, <1>5 DEF StreamOK
  <2>2. ~conn.reset => \A s \in 1..conn.upto :
                          after < s <=> \E x \in conn.batch \ {item} : x.sequence = s
    <3> SUFFICES ASSUME ~conn.reset, NEW s \in 1..conn.upto
                 PROVE  after < s <=> \E x \in conn.batch \ {item} : x.sequence = s
        OBVIOUS
    <3>1. conn.after < s <=> \E x \in conn.batch : x.sequence = s
        BY <1>3 DEF StreamOK
    <3>2. after < s <=> conn.after < s /\ s # item.sequence
        BY <1>4, <1>11
    <3> QED
        BY <2>1, <3>1, <3>2
  <2> QED
      BY <1>1, <1>2, <1>3, <1>4, <1>9, <1>10, <1>12, <2>2 DEF StreamOK, Covered
<1>14. ClientOK'
  <2>1. client' \in [epoch : Nat, after : Nat] /\ client'.epoch = feedEpoch /\ client'.after = after
      BY <1>2, <1>6, <1>9
  <2>2. after <= feedSeq
      BY <1>2, <1>4, <1>9
  <2> QED
      BY <1>2, <1>12, <2>1, <2>2 DEF ClientOK, Covered
<1>15. CursorInv'
    BY <1>1, <1>2, <1>3, <1>13, <1>14 DEF CursorInv
<1> QED
    BY <1>1, <1>15, StreamFrame

LEMMA SendFrameInv == ASSUME LiveInv, SendFrame PROVE LiveInv'
<1>1. /\ UNCHANGED headVars /\ UNCHANGED laneVars /\ observerQueue' = observerQueue
      /\ UNCHANGED serviceVars /\ UNCHANGED feedVars /\ excused' = excused /\ seen' = seen
      /\ conn # NULL /\ conn.batch = {} /\ conn' = conn
    BY DEF SendFrame
<1>2. /\ FeedOK' /\ feedEpoch' = feedEpoch /\ feedSeq' = feedSeq /\ feedSeq \in Nat
      /\ feedEpoch \in Nat \ {0}
    BY <1>1 DEF LiveInv, CursorInv, FeedOK, feedVars
<1>3. ClientOK /\ StreamOK /\ excused \in 0..feedSeq
    BY <1>1 DEF LiveInv, CursorInv
<1>4. /\ conn.after \in Nat /\ conn.upto \in Nat /\ conn.after <= conn.upto /\ conn.upto <= feedSeq
    BY <1>3 DEF StreamOK, Streams
<1>5. Max({conn.after, conn.upto}) = conn.upto
  <2>1. Max({conn.after, conn.upto}) = IF conn.after >= conn.upto THEN conn.after ELSE conn.upto
      BY <1>4, LargerOf
  <2> QED
      BY <1>4, <2>1
<1> DEFINE c == IF conn.reset THEN 0 ELSE conn.upto
<1>6. client' = [epoch |-> feedEpoch, after |-> c]
    BY <1>5 DEF SendFrame, CursorAfterReset
<1>7. c \in Nat /\ c <= feedSeq /\ Covered(c)
  <2>1. CASE conn.reset
      BY <1>2, <2>1 DEF Covered
  <2>2. CASE ~conn.reset
    <3>1. \A s \in 1..conn.upto : s <= conn.after
        BY <1>1, <1>3, <1>4, <2>2 DEF StreamOK
    <3> QED
        BY <1>3, <1>4, <2>2, <3>1 DEF StreamOK, Covered
  <2> QED
      BY <2>1, <2>2
<1> HIDE DEF c
<1>8. \A n : Covered(n) => Covered(n)'
    BY <1>1, <1>2 DEF Covered
<1>9. ClientOK'
  <2>1. client' \in [epoch : Nat, after : Nat] /\ client'.epoch = feedEpoch /\ client'.after = c
      BY <1>2, <1>6, <1>7
  <2> QED
      BY <1>2, <1>7, <1>8, <2>1 DEF ClientOK
<1>10. StreamOK'
    BY <1>1, <1>2, <1>3, <1>8 DEF StreamOK
<1>11. CursorInv'
    BY <1>1, <1>2, <1>3, <1>9, <1>10 DEF CursorInv
<1> QED
    BY <1>1, <1>11, StreamFrame

LEMMA DisconnectInv == ASSUME LiveInv, Disconnect PROVE LiveInv'
<1>1. /\ UNCHANGED headVars /\ UNCHANGED laneVars /\ observerQueue' = observerQueue
      /\ UNCHANGED serviceVars /\ UNCHANGED feedVars /\ excused' = excused /\ seen' = seen
      /\ client' = client /\ conn' = NULL
    BY DEF Disconnect
<1>2. CursorInv'
    BY <1>1 DEF LiveInv, CursorInv, FeedOK, ClientOK, Covered, feedVars
<1> QED
    BY <1>1, <1>2, StreamFrame

LEMMA RestartFeedInv == ASSUME LiveInv, RestartFeed PROVE LiveInv'
<1>1. /\ feedEpoch' = feedEpoch + 1 /\ feedSeq' = 0 /\ feedEvents' = <<>>
      /\ conn' = NULL /\ excused' = 0 /\ client' = client
      /\ UNCHANGED <<canon, heads>>
      /\ lastHeader' = NULL /\ headQueue' = <<>> /\ headEmit' = NULL /\ pendingLogs' = {}
      /\ flush' = NULL /\ DOMAIN receiptJobs' = {} /\ observerQueue' = <<>>
      /\ DOMAIN suffix' = {} /\ activity' = {}
    BY DEF RestartFeed, NoNumbers, headVars
<1>2. LaneTypes'
  <2>1. <<>> \in Seq(Branch) /\ <<>> \in Seq({"block", "events"} \X Branch)
      BY EmptySeq
  <2> QED
      BY <1>1, <2>1 DEF LiveInv, LaneTypes
<1>3. FeedOK'
  <2>1. <<>> \in Seq(FeedItems) /\ Len(<<>>) = 0
      BY EmptySeq
  <2> QED
      BY <1>1, <2>1 DEF LiveInv, CursorInv, FeedOK
<1>4. ClientOK'
    BY <1>1 DEF LiveInv, CursorInv, FeedOK, ClientOK
<1>5. SuffixInv'
    BY <1>1 DEF SuffixInv, SuffixLinked, ActivityOK
<1> QED
    BY <1>1, <1>2, <1>3, <1>4, <1>5 DEF LiveInv, CursorInv

LEMMA LiveStepInv == ASSUME LiveInv, FeedAssumption, [LiveNext]_liveVars PROVE LiveInv'
<1>1. CASE UNCHANGED liveVars
  <2>1. /\ UNCHANGED headVars /\ UNCHANGED laneVars /\ UNCHANGED feedVars
        /\ UNCHANGED <<suffix, activity>> /\ UNCHANGED streamVars /\ observerQueue' = observerQueue
      BY <1>1 DEF liveVars, serviceVars
  <2>2. LaneTypes'
      BY <2>1 DEF LiveInv, LaneTypes, headVars, laneVars
  <2> QED
      BY <2>1, <2>2, LaneStep
<1>2. CASE LiveNext
    BY <1>2, ChainSteps, HeadReceiveInv, HeadStoreInv, HeadEmitInv, LogSteps, FlushStartInv,
       FlushAppendInv, FlushEmitInv, PublishCanonicalInv, ReceiptStepInv, ReceiptEmitInv,
       RunObserverInv, ConnectInv, DeliverInv, PollInv, SendFrameInv, DisconnectInv, RestartFeedInv
    DEF LiveNext
<1> QED
    BY <1>1, <1>2

\* What a browser's cursor claims to have received in LiveFeed's running epoch
\* it has received, or a reset that could not be avoided says otherwise,
\* whatever the deque drops and wherever the stream is cut.
THEOREM CursorAlwaysHonest == LiveSpec => []CursorHonest
<1>1. LiveInv => CursorHonest
    BY DEF LiveInv, CursorInv, ClientOK, CursorHonest, Covered
<1> QED
    BY <1>1, LiveInitInv, LiveStepInv, FeedAssumption, PTL DEF LiveSpec

\* The headers LiveFeed's service shows are always a chain, and every event it
\* shows is of one of them, whatever order reorganised headers arrive in.
THEOREM SuffixAlwaysContinuous == LiveSpec => []SuffixContinuous
<1>1. LiveInv => SuffixContinuous
  <2> SUFFICES ASSUME LiveInv PROVE SuffixContinuous
      OBVIOUS
  <2>1. PICK b \in Nat : DOMAIN suffix \subseteq 0..b
      BY DEF LiveInv, SuffixInv
  <2>2. ASSUME NEW n \in DOMAIN suffix, n # Min(DOMAIN suffix)
        PROVE  n - 1 \in DOMAIN suffix /\ Front(suffix[n]) = suffix[n - 1]
    <3>1. Min(DOMAIN suffix) \in DOMAIN suffix /\ \A m \in DOMAIN suffix : Min(DOMAIN suffix) <= m
        BY <2>1, LowestNumber
    <3> DEFINE low == Min(DOMAIN suffix)
    <3> HIDE DEF low
    <3>2. low \in DOMAIN suffix /\ (\A m \in DOMAIN suffix : low <= m) /\ n # low
        BY <2>2, <3>1 DEF low
    <3>3. ~\A m \in DOMAIN suffix : n <= m
        BY <2>1, <3>2
    <3> QED
        BY <3>3 DEF LiveInv, SuffixInv, SuffixLinked
  <2> QED
      BY <2>2 DEF SuffixContinuous, LiveInv, SuffixInv, ActivityOK
<1> QED
    BY <1>1, LiveInitInv, LiveStepInv, FeedAssumption, PTL DEF LiveSpec

(* Volume buckets (PriceBuckets): keys, minutes and hours.                 *)

MinuteKey(m) == <<"minute", m>>
HourKey(h) == <<"hour", h>>
DayKey(d) == <<"day", d>>

LEMMA KeysOfMinute ==
    ASSUME NEW m
    PROVE  /\ KeyOf("minute", m) = MinuteKey(m) /\ KeyOf("hour", m) = HourKey(HourOf(m))
           /\ KeyOf("day", m) = DayKey(DayOf(m))
           /\ RollupsOf(m) = {HourKey(HourOf(m)), DayKey(DayOf(m))}
           /\ MinuteKey(m) \notin RollupsOf(m)
<1>1. KeyOf("minute", m) = MinuteKey(m) /\ KeyOf("hour", m) = HourKey(HourOf(m)) /\ KeyOf("day", m) = DayKey(DayOf(m))
    BY DEF KeyOf, MinuteKey, HourKey, DayKey
<1>2. RollupsOf(m) = {HourKey(HourOf(m)), DayKey(DayOf(m))}
    BY <1>1 DEF RollupsOf, Rollups
<1> QED
    BY <1>1, <1>2 DEF MinuteKey, HourKey, DayKey

LEMMA DistinctKeys ==
    ASSUME NEW m, NEW n
    PROVE  /\ MinuteKey(m) # HourKey(n) /\ MinuteKey(m) # DayKey(n) /\ HourKey(m) # DayKey(n)
           /\ MinuteKey(m) = MinuteKey(n) <=> m = n
           /\ HourKey(m) = HourKey(n) <=> m = n
           /\ DayKey(m) = DayKey(n) <=> m = n
BY DEF MinuteKey, HourKey, DayKey

\* The events of a key.
LEMMA EventsOfKey ==
    ASSUME NEW n, NEW vs
    PROVE  /\ EventsIn(MinuteKey(n), vs) = {b \in DOMAIN vs : MinuteOf[b] = n}
           /\ EventsIn(HourKey(n), vs) = {b \in DOMAIN vs : HourOf(MinuteOf[b]) = n}
           /\ EventsIn(DayKey(n), vs) = {b \in DOMAIN vs : DayOf(MinuteOf[b]) = n}
<1>1. MinuteKey(n)[1] = "minute" /\ HourKey(n)[1] = "hour" /\ DayKey(n)[1] = "day"
    BY DEF MinuteKey, HourKey, DayKey
<1> QED
    BY <1>1, KeysOfMinute, DistinctKeys DEF EventsIn

LEMMA HourOfMinute ==
    ASSUME NEW m \in Nat
    PROVE  /\ HourOf(m) \in Nat /\ HourOf(m) * MinutesPerHour <= m
           /\ m < (HourOf(m) + 1) * MinutesPerHour
           /\ HourOf(m) * MinutesPerHour \in Nat /\ (HourOf(m) + 1) * MinutesPerHour \in Nat
BY BucketAssumption DEF HourOf

HoursOf(d) == {d * HoursPerDay + h : h \in 0 .. HoursPerDay - 1}

\* An hour is one of the hours of its day.
LEMMA HourInDay ==
    ASSUME NEW h \in Nat
    PROVE  h \div HoursPerDay \in Nat /\ h \in HoursOf(h \div HoursPerDay)
<1> DEFINE d == h \div HoursPerDay
           r == h - d * HoursPerDay
<1>1. d \in Nat /\ d * HoursPerDay <= h /\ h < d * HoursPerDay + HoursPerDay /\ d * HoursPerDay \in Nat
    BY BucketAssumption
<1>2. HoursPerDay \in Nat
    BY BucketAssumption
<1> HIDE DEF d
<1>3. r \in 0 .. HoursPerDay - 1 /\ h = d * HoursPerDay + r
    BY <1>1, <1>2
<1>4. h \in HoursOf(d)
    BY <1>3 DEF HoursOf
<1> QED
    BY <1>1, <1>4 DEF d

\* An hour belongs to the hours of one day only.
LEMMA DayOfHour ==
    ASSUME NEW d \in Nat, NEW h \in HoursOf(d)
    PROVE  h \in Nat /\ h \div HoursPerDay = d
<1>1. PICK r \in 0 .. HoursPerDay - 1 : h = d * HoursPerDay + r
    BY DEF HoursOf
<1>2. HoursPerDay \in Nat /\ HoursPerDay > 0 /\ d * HoursPerDay \in Nat
    BY BucketAssumption
<1>3. h \in Nat
    BY <1>1, <1>2
<1>4. h \div HoursPerDay = d
    BY <1>1, <1>2
<1> QED
    BY <1>3, <1>4

LEMMA DayOfMinute ==
    ASSUME NEW m \in Nat
    PROVE  DayOf(m) \in Nat /\ DayOf(m) = HourOf(m) \div HoursPerDay /\ HourOf(m) \in HoursOf(DayOf(m))
<1> DEFINE h == HourOf(m)
           d == h \div HoursPerDay
<1>1. h \in Nat /\ h * MinutesPerHour <= m /\ m < (h + 1) * MinutesPerHour
    BY HourOfMinute
<1>2. d \in Nat /\ d * HoursPerDay <= h /\ h < (d + 1) * HoursPerDay /\ h \in HoursOf(d)
    BY <1>1, HourInDay, BucketAssumption
<1>3. MinutesPerHour \in Nat \ {0} /\ HoursPerDay \in Nat \ {0}
    BY BucketAssumption
<1> HIDE DEF h, d
<1>4. d * (MinutesPerHour * HoursPerDay) <= m
    BY <1>1, <1>2, <1>3
<1>5. m < (d + 1) * (MinutesPerHour * HoursPerDay)
  <2>1. (h + 1) * MinutesPerHour <= ((d + 1) * HoursPerDay) * MinutesPerHour
      BY <1>1, <1>2, <1>3
  <2> QED
      BY <1>1, <1>2, <1>3, <2>1
<1>6. MinutesPerHour * HoursPerDay \in Nat \ {0}
    BY <1>3
<1> DEFINE p == MinutesPerHour * HoursPerDay
<1>7. p \in Nat \ {0} /\ d * p <= m /\ m < (d + 1) * p
    BY <1>4, <1>5, <1>6
<1> HIDE DEF p
<1>8. m \div p = d
    BY <1>2, <1>7
<1>9. DayOf(m) = d
    BY <1>8 DEF DayOf, MinutesPerDay, p
<1> QED
    BY <1>2, <1>9 DEF h, d

(* Totals and the rows that hold them.                                     *)

\* The greatest of finitely many numbers.
LEMMA HighestOf ==
    ASSUME NEW S \in SUBSET Nat, IsFiniteSet(S), S # {}
    PROVE  Max(S) \in S /\ \A m \in S : m <= Max(S)
<1> DEFINE good == {s \in SUBSET S : \E b \in Nat : \A x \in s : x <= b}
<1>1. {} \in good
    OBVIOUS
<1>2. ASSUME NEW s \in SUBSET S, s # {}, \A x \in s : s \ {x} \in good
      PROVE  s \in good
  <2>1. PICK x \in s : s \ {x} \in good
      BY <1>2
  <2>2. PICK b \in Nat : \A y \in s \ {x} : y <= b
      BY <2>1
  <2>3. x \in Nat
      BY <2>1
  <2>4. \A y \in s : y <= b + x
    <3>1. \A y \in s : y \in Nat /\ (y = x \/ y <= b)
        BY <2>2
    <3> QED
        BY <2>2, <2>3, <3>1
  <2>5. b + x \in Nat
      BY <2>2, <2>3
  <2> QED
      BY <2>4, <2>5
<1>3. good = SUBSET S
  <2> HIDE DEF good
  <2>1. good \in SUBSET (SUBSET S)
      BY DEF good
  <2> QED
      BY <1>1, <1>2, <2>1, SubsetInduction
<1>4. PICK b \in Nat : \A x \in S : x <= b
    BY <1>3
<1>5. S \in SUBSET (0..b)
    BY <1>4
<1> QED
    BY <1>5, HighestNumber

Totals == [events : Int, sum : Int, top : Int]

Exact(table, key, vs) ==
    /\ Row(table, key).events = Total(EventsIn(key, vs), vs).events
    /\ Row(table, key).sum = Total(EventsIn(key, vs), vs).sum

\* Stored events with their values.
ValuesOK(vs) == DOMAIN vs \subseteq BucketBlocks /\ \A b \in DOMAIN vs : vs[b] \in Int

LEMMA TotalOfEvents ==
    ASSUME NEW vs, ValuesOK(vs), NEW blocks \in SUBSET DOMAIN vs
    PROVE  /\ IsFiniteSet(blocks) /\ Cardinality(blocks) \in Nat
           /\ Total(blocks, vs) \in Totals
           /\ Total(blocks, vs).events = Cardinality(blocks)
           /\ Total(blocks, vs).sum = SumOver(vs, blocks)
           /\ Total(blocks, vs).top = IF blocks = {} THEN 0 ELSE Max(blocks)
           /\ blocks \in SUBSET Nat
           /\ blocks = {} <=> Total(blocks, vs).events <= 0
           /\ blocks = {} => Total(blocks, vs) = NoTotal
<1>1. IsFiniteSet(blocks) /\ Cardinality(blocks) \in Nat /\ blocks \in SUBSET Nat
    BY FS_Subset, FS_CardinalityType, BucketAssumption DEF ValuesOK
<1>2. SumOver(vs, blocks) \in Int
    BY <1>1, SumIsInt DEF ValuesOK
<1>3. Total(blocks, vs) = [events |-> Cardinality(blocks), sum |-> SumOver(vs, blocks),
                           top |-> IF blocks = {} THEN 0 ELSE Max(blocks)]
    BY DEF Total, SumOver
<1>4. (IF blocks = {} THEN 0 ELSE Max(blocks)) \in Int
  <2>1. CASE blocks = {}
      BY <2>1
  <2>2. CASE blocks # {}
    <3>1. Max(blocks) \in Nat
        BY <1>1, <2>2, HighestOf
    <3> QED
        BY <2>2, <3>1
  <2> QED
      BY <2>1, <2>2
<1>5. blocks = {} <=> Cardinality(blocks) <= 0
    BY <1>1, FS_EmptySet
<1>6. SumOver(vs, {}) = 0 /\ Cardinality({}) = 0
    BY SumOfNone, FS_EmptySet
<1>7. [events |-> Cardinality(blocks), sum |-> SumOver(vs, blocks),
       top |-> IF blocks = {} THEN 0 ELSE Max(blocks)] \in Totals
    BY <1>1, <1>2, <1>4 DEF Totals
<1>8. blocks = {} => Total(blocks, vs) = NoTotal
    BY <1>3, <1>6 DEF NoTotal
<1> QED
    BY <1>1, <1>3, <1>5, <1>7, <1>8

LEMMA EventsStored == ASSUME NEW key, NEW vs PROVE EventsIn(key, vs) \in SUBSET DOMAIN vs
BY DEF EventsIn

\* A total depends on the events of its key alone.
LEMMA TotalSame ==
    ASSUME NEW vs, ValuesOK(vs), NEW ws, ValuesOK(ws), NEW key,
           EventsIn(key, vs) = EventsIn(key, ws), \A b \in EventsIn(key, vs) : vs[b] = ws[b]
    PROVE  Total(EventsIn(key, vs), vs) = Total(EventsIn(key, ws), ws)
<1> DEFINE B == EventsIn(key, vs)
<1>1. B \in SUBSET DOMAIN vs /\ B \in SUBSET DOMAIN ws /\ B = EventsIn(key, ws)
    BY EventsStored
<1> HIDE DEF B
<1>2. IsFiniteSet(B)
    BY <1>1, TotalOfEvents
<1>3. \A b \in B : vs[b] = ws[b]
    BY DEF B
<1>4. SumOver(vs, B) = SumOver(ws, B)
    BY <1>2, <1>3, SumSame
<1>5. Total(B, vs) = Total(B, ws)
    BY <1>4 DEF Total, SumOver
<1> QED
    BY <1>1, <1>5 DEF B

\* Taking the events of one key out of those of another.
LEMMA TotalSplit ==
    ASSUME NEW vs, ValuesOK(vs), NEW part \in SUBSET DOMAIN vs, NEW whole \in SUBSET DOMAIN vs,
           part \subseteq whole
    PROVE  /\ Total(whole, vs).events = Total(part, vs).events + Cardinality(whole \ part)
           /\ Total(whole, vs).sum = Total(part, vs).sum + SumOver(vs, whole \ part)
<1>1. whole \ part \in SUBSET DOMAIN vs /\ part \cup (whole \ part) = whole /\ part \cap (whole \ part) = {}
    OBVIOUS
<1>2. IsFiniteSet(part) /\ IsFiniteSet(whole \ part)
    BY <1>1, TotalOfEvents
<1>3. Cardinality(whole) = Cardinality(part) + Cardinality(whole \ part)
  <2>1. Cardinality(part \cup (whole \ part)) =
            Cardinality(part) + Cardinality(whole \ part) - Cardinality(part \cap (whole \ part))
      BY <1>2, FS_Union
  <2>2. Cardinality(part) \in Nat /\ Cardinality(whole \ part) \in Nat /\ Cardinality({}) = 0
      BY <1>2, FS_CardinalityType, FS_EmptySet
  <2> DEFINE rest == whole \ part
  <2>3. part \cup rest = whole /\ part \cap rest = {}
      BY <1>1
  <2>4. Cardinality(whole) = Cardinality(part) + Cardinality(rest) - Cardinality({})
      BY <2>1, <2>3
  <2>5. Cardinality(rest) \in Nat
      BY <2>2
  <2> HIDE DEF rest
  <2>6. Cardinality(whole) = Cardinality(part) + Cardinality(rest)
      BY <2>2, <2>4, <2>5
  <2> QED
      BY <2>6 DEF rest
<1>4. \A x \in part \cup (whole \ part) : vs[x] \in Int
    BY <1>1 DEF ValuesOK
<1>5. SumOver(vs, whole) = SumOver(vs, part) + SumOver(vs, whole \ part)
    BY <1>1, <1>2, <1>4, SumUnion
<1> QED
    BY <1>3, <1>5, TotalOfEvents

\* A key whose row is exact stays exact when the events of a minute in it
\* change and its row moves by the difference.
LEMMA MovedByDifference ==
    ASSUME NEW vs, ValuesOK(vs), NEW ws, ValuesOK(ws), NEW key, NEW minute,
           EventsIn(minute, vs) \subseteq EventsIn(key, vs),
           EventsIn(minute, ws) \subseteq EventsIn(key, ws),
           EventsIn(key, vs) \ EventsIn(minute, vs) = EventsIn(key, ws) \ EventsIn(minute, ws),
           \A b \in EventsIn(key, vs) \ EventsIn(minute, vs) : vs[b] = ws[b]
    PROVE  /\ Total(EventsIn(key, ws), ws).events =
                  Total(EventsIn(key, vs), vs).events
                      + (Total(EventsIn(minute, ws), ws).events - Total(EventsIn(minute, vs), vs).events)
           /\ Total(EventsIn(key, ws), ws).sum =
                  Total(EventsIn(key, vs), vs).sum
                      + (Total(EventsIn(minute, ws), ws).sum - Total(EventsIn(minute, vs), vs).sum)
<1> DEFINE rest == EventsIn(key, vs) \ EventsIn(minute, vs)
<1>1. /\ Total(EventsIn(key, vs), vs).events = Total(EventsIn(minute, vs), vs).events + Cardinality(rest)
      /\ Total(EventsIn(key, vs), vs).sum = Total(EventsIn(minute, vs), vs).sum + SumOver(vs, rest)
    BY EventsStored, TotalSplit
<1>2. /\ Total(EventsIn(key, ws), ws).events = Total(EventsIn(minute, ws), ws).events + Cardinality(rest)
      /\ Total(EventsIn(key, ws), ws).sum = Total(EventsIn(minute, ws), ws).sum + SumOver(ws, rest)
    BY EventsStored, TotalSplit
<1>3. rest \in SUBSET DOMAIN vs /\ rest \in SUBSET DOMAIN ws /\ \A b \in rest : vs[b] = ws[b]
    BY EventsStored
<1> HIDE DEF rest
<1>4. IsFiniteSet(rest) /\ Cardinality(rest) \in Nat
    BY <1>3, TotalOfEvents
<1>5. SumOver(vs, rest) = SumOver(ws, rest) /\ SumOver(vs, rest) \in Int
    BY <1>3, <1>4, SumSame, SumIsInt DEF ValuesOK
<1>6. \A k \in {key, minute} : /\ Total(EventsIn(k, vs), vs) \in Totals
                               /\ Total(EventsIn(k, ws), ws) \in Totals
    BY EventsStored, TotalOfEvents
<1> QED
    BY <1>1, <1>2, <1>4, <1>5, <1>6 DEF Totals

\* What PutAll leaves in a row.
LEMMA RowPut ==
    ASSUME NEW table, NEW totals, NEW k
    PROVE  /\ k \in DOMAIN totals =>
                  Row(PutAll(table, totals), k) = IF totals[k].events <= 0 THEN NoTotal ELSE totals[k]
           /\ k \notin DOMAIN totals => Row(PutAll(table, totals), k) = Row(table, k)
           /\ k \in DOMAIN PutAll(table, totals) <=>
                  IF k \in DOMAIN totals THEN ~(totals[k].events <= 0) ELSE k \in DOMAIN table
           /\ k \in DOMAIN PutAll(table, totals) =>
                  PutAll(table, totals)[k] = IF k \in DOMAIN totals THEN totals[k] ELSE table[k]
<1> DEFINE empty == {j \in DOMAIN totals : totals[j].events <= 0}
           D == (DOMAIN table \cup DOMAIN totals) \ empty
<1>1. PutAll(table, totals) = [j \in D |-> IF j \in DOMAIN totals THEN totals[j] ELSE table[j]]
    BY DEF PutAll
<1>2. k \in D <=> IF k \in DOMAIN totals THEN ~(totals[k].events <= 0) ELSE k \in DOMAIN table
    OBVIOUS
<1> HIDE DEF D
<1> QED
    BY <1>1, <1>2 DEF Row

\* A table of totals.
TableOK(table) == \A k \in DOMAIN table : table[k] \in Totals

LEMMA RowOK == ASSUME NEW table, TableOK(table), NEW k PROVE Row(table, k) \in Totals
BY DEF TableOK, Row, NoTotal, Totals

LEMMA PutOK ==
    ASSUME NEW table, TableOK(table), NEW totals, TableOK(totals)
    PROVE  TableOK(PutAll(table, totals))
BY RowPut DEF TableOK

LEMMA PlusOK ==
    ASSUME NEW a \in Totals, NEW b \in Totals
    PROVE  /\ Plus(a, b) \in Totals /\ Plus(a, b).events = a.events + b.events
           /\ Plus(a, b).sum = a.sum + b.sum
           /\ Plus(a, b).top = IF a.top >= b.top THEN a.top ELSE b.top
<1>1. Max({a.top, b.top}) = IF a.top >= b.top THEN a.top ELSE b.top
    BY LargerOf DEF Totals
<1> QED
    BY <1>1 DEF Plus, Totals

\* A row moved by a difference: its total, or none when no event is left.
LEMMA RowMoved ==
    ASSUME NEW table, TableOK(table), NEW keys, NEW delta \in Totals, NEW k
    PROVE  /\ TableOK(MoveAll(table, keys, delta))
           /\ k \notin keys => Row(MoveAll(table, keys, delta), k) = Row(table, k)
           /\ k \notin keys => (k \in DOMAIN MoveAll(table, keys, delta) <=> k \in DOMAIN table)
           /\ k \notin keys /\ k \in DOMAIN table => MoveAll(table, keys, delta)[k] = table[k]
           /\ k \in keys => Row(MoveAll(table, keys, delta), k) =
                  IF Row(table, k).events + delta.events <= 0 THEN NoTotal ELSE Plus(Row(table, k), delta)
           /\ k \in keys => (k \in DOMAIN MoveAll(table, keys, delta) <=>
                                ~(Row(table, k).events + delta.events <= 0))
<1> DEFINE totals == [j \in keys |-> Plus(Row(table, j), delta)]
<1>1. TableOK(totals) /\ DOMAIN totals = keys
    BY RowOK, PlusOK DEF TableOK
<1>2. MoveAll(table, keys, delta) = PutAll(table, totals)
    BY DEF MoveAll
<1>3. k \in keys => totals[k] = Plus(Row(table, k), delta) /\ totals[k].events = Row(table, k).events + delta.events
    BY RowOK, PlusOK
<1> HIDE DEF totals
<1>4. TableOK(PutAll(table, totals))
    BY <1>1, PutOK
<1> QED
    BY <1>1, <1>2, <1>3, <1>4, RowPut

\* An exact row, moved to the exact new counts, is exact.
LEMMA ExactMoved ==
    ASSUME NEW table, TableOK(table), NEW keys, NEW delta \in Totals, NEW k \in keys,
           NEW ws, ValuesOK(ws),
           Row(table, k).events + delta.events = Total(EventsIn(k, ws), ws).events,
           Row(table, k).sum + delta.sum = Total(EventsIn(k, ws), ws).sum
    PROVE  Exact(MoveAll(table, keys, delta), k, ws)
<1> DEFINE T == Total(EventsIn(k, ws), ws)
<1>1. T \in Totals /\ (T.events <= 0 => T = NoTotal)
    BY EventsStored, TotalOfEvents
<1>2. Row(MoveAll(table, keys, delta), k) =
          IF T.events <= 0 THEN NoTotal ELSE Plus(Row(table, k), delta)
    BY RowMoved
<1>3. Plus(Row(table, k), delta).events = T.events /\ Plus(Row(table, k), delta).sum = T.sum
    BY RowOK, PlusOK
<1> HIDE DEF T
<1>4. Row(MoveAll(table, keys, delta), k).events = T.events /\ Row(MoveAll(table, keys, delta), k).sum = T.sum
    BY <1>1, <1>2, <1>3
<1> QED
    BY <1>4 DEF Exact, T

\* Rows set to totals hold them.
LEMMA RowsSet ==
    ASSUME NEW table, TableOK(table), NEW keys, NEW ws, ValuesOK(ws), NEW k
    PROVE  /\ TableOK(PutAll(table, TotalsOf(keys, ws)))
           /\ k \in keys => Row(PutAll(table, TotalsOf(keys, ws)), k) = Total(EventsIn(k, ws), ws)
           /\ k \in keys => (k \in DOMAIN PutAll(table, TotalsOf(keys, ws)) <=> EventsIn(k, ws) # {})
           /\ k \notin keys => Row(PutAll(table, TotalsOf(keys, ws)), k) = Row(table, k)
           /\ k \notin keys => (k \in DOMAIN PutAll(table, TotalsOf(keys, ws)) <=> k \in DOMAIN table)
           /\ k \notin keys /\ k \in DOMAIN table => PutAll(table, TotalsOf(keys, ws))[k] = table[k]
<1> DEFINE totals == TotalsOf(keys, ws)
<1>1. DOMAIN totals = keys /\ \A j \in keys : totals[j] = Total(EventsIn(j, ws), ws)
    BY DEF TotalsOf
<1>2. \A j \in keys : /\ totals[j] \in Totals /\ (totals[j].events <= 0 => totals[j] = NoTotal)
                      /\ (totals[j].events <= 0 <=> EventsIn(j, ws) = {})
    BY <1>1, EventsStored, TotalOfEvents
<1> HIDE DEF totals
<1>3. TableOK(totals)
    BY <1>1, <1>2 DEF TableOK
<1>4. TableOK(PutAll(table, totals))
    BY <1>3, PutOK
<1>5. k \in keys => Row(PutAll(table, totals), k) = totals[k]
    BY <1>1, <1>2, RowPut
<1> QED
    BY <1>1, <1>2, <1>4, <1>5, RowPut DEF totals

(* The invariant of the buckets.                                           *)

BucketTypes ==
    /\ ValuesOK(values) /\ TableOK(rows) /\ pruneBefore \in Nat
    /\ \A k \in DOMAIN restores : /\ restores[k] \in Nat
                                  /\ \E n \in Nat : k = HourKey(n) \/ k = DayKey(n)

\* A minute from the cutoff on has its row, with its latest block.
MinutesExact ==
    \A m \in Nat : m >= pruneBefore =>
        Row(rows, MinuteKey(m)) = Total(EventsIn(MinuteKey(m), values), values)

HoursExact ==
    \A h \in Nat : h * MinutesPerHour >= pruneBefore => Exact(rows, HourKey(h), values)

DaysExact ==
    \A d \in Nat : DayKey(d) \notin DOMAIN restores \cup phantoms => Exact(rows, DayKey(d), values)

\* A minute's row, pruned or not, ends in a stored event of the minute.
TopsStored ==
    \A k \in DOMAIN rows : k[1] = "minute" => rows[k].top \in EventsIn(k, values)

\* Only an hour that begins before the cutoff is recomputed.
HoursQueued ==
    \A h \in Nat : HourKey(h) \in DOMAIN restores => h * MinutesPerHour < pruneBefore

\* The events of a day in the hours a restore has summed so far.
SummedIn(work, d, vs) == {b \in EventsIn(DayKey(d), vs) : HourOf(MinuteOf[b]) \notin work.hours}

SumsOf(work, d, vs) ==
    /\ work.total[DayKey(d)].events = Total(SummedIn(work, d, vs), vs).events
    /\ work.total[DayKey(d)].sum = Total(SummedIn(work, d, vs), vs).sum

WorkOK(work, queue) ==
    /\ work.hours \in SUBSET Nat
    /\ DOMAIN work.total \subseteq DOMAIN queue /\ TableOK(work.total)
    /\ DOMAIN work.generation \subseteq DOMAIN work.total
    /\ \A k \in DOMAIN work.generation : work.generation[k] \in Nat /\ work.generation[k] <= queue[k]
    /\ \A d \in Nat : DayKey(d) \in DOMAIN work.total => work.hours \subseteq HoursOf(d)

\* The total of a day in work counts the hours summed, as long as its
\* generation stands.
WorkHolds(work, queue, vs, skipped) ==
    \A d \in Nat : DayKey(d) \in DOMAIN work.total \ work.stale =>
        IF DayKey(d) \in DOMAIN work.generation
        THEN queue[DayKey(d)] = work.generation[DayKey(d)] /\ DayKey(d) \notin skipped
                 => SumsOf(work, d, vs)
        ELSE work.total[DayKey(d)] = NoTotal /\ HoursOf(d) \subseteq work.hours

RestoreHolds ==
    restoring # NULL => WorkOK(restoring, restores) /\ WorkHolds(restoring, restores, values, missed)

BucketInv ==
    BucketTypes /\ MinutesExact /\ HoursExact /\ DaysExact /\ TopsStored /\ HoursQueued /\ RestoreHolds

LEMMA BucketsExact == BucketInv => TotalsExact
<1> SUFFICES ASSUME BucketInv, NEW m \in Minutes
             PROVE  /\ m >= pruneBefore => HasTotal(KeyOf("minute", m))
                    /\ HourOf(m) * MinutesPerHour >= pruneBefore => HasTotal(KeyOf("hour", m))
                    /\ KeyOf("day", m) \notin DOMAIN restores \cup phantoms => HasTotal(KeyOf("day", m))
    BY DEF TotalsExact
<1>1. m \in Nat
    BY BucketAssumption DEF Minutes
<1>2. HourOf(m) \in Nat /\ DayOf(m) \in Nat
    BY <1>1, HourOfMinute, DayOfMinute
<1>3. \A k : Exact(rows, k, values) => HasTotal(k)
    BY DEF Exact, HasTotal
<1>4. m >= pruneBefore => HasTotal(KeyOf("minute", m))
    BY <1>1, KeysOfMinute DEF BucketInv, MinutesExact, HasTotal
<1>5. HourOf(m) * MinutesPerHour >= pruneBefore => HasTotal(KeyOf("hour", m))
    BY <1>2, <1>3, KeysOfMinute DEF BucketInv, HoursExact
<1>6. KeyOf("day", m) \notin DOMAIN restores \cup phantoms => HasTotal(KeyOf("day", m))
    BY <1>2, <1>3, KeysOfMinute DEF BucketInv, DaysExact
<1> QED
    BY <1>4, <1>5, <1>6

LEMMA BucketInitHolds == BucketInit => BucketInv
<1> SUFFICES ASSUME BucketInit PROVE BucketInv
    OBVIOUS
<1>1. DOMAIN values = {} /\ DOMAIN rows = {} /\ DOMAIN restores = {} /\ pruneBefore = 0 /\ restoring = NULL
    BY DEF BucketInit
<1>2. ValuesOK(values)
    BY <1>1 DEF ValuesOK
<1>3. \A k : /\ EventsIn(k, values) = {} /\ Row(rows, k) = NoTotal
             /\ Total(EventsIn(k, values), values) = NoTotal
    BY <1>1, <1>2, TotalOfEvents DEF EventsIn, Row
<1>4. \A k : Exact(rows, k, values)
    BY <1>3 DEF Exact
<1>5. BucketTypes
    BY <1>1, <1>2 DEF BucketTypes, TableOK
<1> QED
    BY <1>1, <1>3, <1>4, <1>5
    DEF BucketInv, MinutesExact, HoursExact, DaysExact, TopsStored, HoursQueued, RestoreHolds

\* Events change in one minute only.
OnlyMinute(vs, ws, minute) ==
    \A b \in BucketBlocks : MinuteOf[b] # minute =>
        /\ b \in DOMAIN vs <=> b \in DOMAIN ws
        /\ b \in DOMAIN vs => vs[b] = ws[b]

\* Events do not change in the day d.
SameDay(vs, ws, d) ==
    \A b \in BucketBlocks : DayOf(MinuteOf[b]) = d =>
        /\ b \in DOMAIN vs <=> b \in DOMAIN ws
        /\ b \in DOMAIN vs => vs[b] = ws[b]

\* The keys a minute belongs to, and those it does not.
LEMMA OtherKeysSame ==
    ASSUME NEW vs, ValuesOK(vs), NEW ws, ValuesOK(ws), NEW minute \in Nat, OnlyMinute(vs, ws, minute), NEW n
    PROVE  /\ n # minute => Total(EventsIn(MinuteKey(n), vs), vs) = Total(EventsIn(MinuteKey(n), ws), ws)
           /\ n # HourOf(minute) => Total(EventsIn(HourKey(n), vs), vs) = Total(EventsIn(HourKey(n), ws), ws)
           /\ n # DayOf(minute) => Total(EventsIn(DayKey(n), vs), vs) = Total(EventsIn(DayKey(n), ws), ws)
           /\ n # minute => EventsIn(MinuteKey(n), vs) = EventsIn(MinuteKey(n), ws)
<1>0. \A b : MinuteOf[b] # minute =>
          /\ b \in DOMAIN vs <=> b \in DOMAIN ws
          /\ b \in DOMAIN vs => vs[b] = ws[b]
    BY DEF OnlyMinute, ValuesOK
<1>1. n # minute => /\ EventsIn(MinuteKey(n), vs) = EventsIn(MinuteKey(n), ws)
                    /\ \A b \in EventsIn(MinuteKey(n), vs) : vs[b] = ws[b]
  <2> SUFFICES ASSUME n # minute PROVE /\ EventsIn(MinuteKey(n), vs) = EventsIn(MinuteKey(n), ws)
                                    /\ \A b \in EventsIn(MinuteKey(n), vs) : vs[b] = ws[b]
      OBVIOUS
  <2>1. \A b : MinuteOf[b] = n => MinuteOf[b] # minute
      OBVIOUS
  <2>2. /\ EventsIn(MinuteKey(n), vs) = {b \in DOMAIN vs : MinuteOf[b] = n}
        /\ EventsIn(MinuteKey(n), ws) = {b \in DOMAIN ws : MinuteOf[b] = n}
      BY EventsOfKey
  <2> QED
      BY <1>0, <2>1, <2>2
<1>2. n # HourOf(minute) => /\ EventsIn(HourKey(n), vs) = EventsIn(HourKey(n), ws)
                            /\ \A b \in EventsIn(HourKey(n), vs) : vs[b] = ws[b]
  <2> SUFFICES ASSUME n # HourOf(minute) PROVE /\ EventsIn(HourKey(n), vs) = EventsIn(HourKey(n), ws)
                                    /\ \A b \in EventsIn(HourKey(n), vs) : vs[b] = ws[b]
      OBVIOUS
  <2>1. \A b : HourOf(MinuteOf[b]) = n => MinuteOf[b] # minute
      OBVIOUS
  <2>2. /\ EventsIn(HourKey(n), vs) = {b \in DOMAIN vs : HourOf(MinuteOf[b]) = n}
        /\ EventsIn(HourKey(n), ws) = {b \in DOMAIN ws : HourOf(MinuteOf[b]) = n}
      BY EventsOfKey
  <2> QED
      BY <1>0, <2>1, <2>2
<1>3. n # DayOf(minute) => /\ EventsIn(DayKey(n), vs) = EventsIn(DayKey(n), ws)
                           /\ \A b \in EventsIn(DayKey(n), vs) : vs[b] = ws[b]
  <2> SUFFICES ASSUME n # DayOf(minute) PROVE /\ EventsIn(DayKey(n), vs) = EventsIn(DayKey(n), ws)
                                    /\ \A b \in EventsIn(DayKey(n), vs) : vs[b] = ws[b]
      OBVIOUS
  <2>1. \A b : DayOf(MinuteOf[b]) = n => MinuteOf[b] # minute
      OBVIOUS
  <2>2. /\ EventsIn(DayKey(n), vs) = {b \in DOMAIN vs : DayOf(MinuteOf[b]) = n}
        /\ EventsIn(DayKey(n), ws) = {b \in DOMAIN ws : DayOf(MinuteOf[b]) = n}
      BY EventsOfKey
  <2> QED
      BY <1>0, <2>1, <2>2
<1> QED
    BY <1>1, <1>2, <1>3, TotalSame

LEMMA OwnKeysMove ==
    ASSUME NEW vs, ValuesOK(vs), NEW ws, ValuesOK(ws), NEW minute \in Nat, OnlyMinute(vs, ws, minute),
           NEW key \in RollupsOf(minute)
    PROVE  /\ Total(EventsIn(key, ws), ws).events =
                  Total(EventsIn(key, vs), vs).events
                      + (Total(EventsIn(MinuteKey(minute), ws), ws).events
                         - Total(EventsIn(MinuteKey(minute), vs), vs).events)
           /\ Total(EventsIn(key, ws), ws).sum =
                  Total(EventsIn(key, vs), vs).sum
                      + (Total(EventsIn(MinuteKey(minute), ws), ws).sum
                         - Total(EventsIn(MinuteKey(minute), vs), vs).sum)
<1> DEFINE mk == MinuteKey(minute)
<1>1. key = HourKey(HourOf(minute)) \/ key = DayKey(DayOf(minute))
    BY KeysOfMinute
<1>2. EventsIn(mk, vs) \subseteq EventsIn(key, vs) /\ EventsIn(mk, ws) \subseteq EventsIn(key, ws)
    BY <1>1, EventsOfKey
<1>3. EventsIn(key, vs) \ EventsIn(mk, vs) = EventsIn(key, ws) \ EventsIn(mk, ws)
    BY <1>1, EventsOfKey DEF OnlyMinute, ValuesOK
<1>4. \A b \in EventsIn(key, vs) \ EventsIn(mk, vs) : vs[b] = ws[b]
    BY <1>1, EventsOfKey DEF OnlyMinute, ValuesOK
<1> HIDE DEF mk
<1>5. /\ Total(EventsIn(key, ws), ws).events =
                  Total(EventsIn(key, vs), vs).events
                      + (Total(EventsIn(mk, ws), ws).events - Total(EventsIn(mk, vs), vs).events)
      /\ Total(EventsIn(key, ws), ws).sum =
                  Total(EventsIn(key, vs), vs).sum
                      + (Total(EventsIn(mk, ws), ws).sum - Total(EventsIn(mk, vs), vs).sum)
    BY <1>2, <1>3, <1>4, MovedByDifference
<1> QED
    BY <1>5 DEF mk

\* A restore in progress holds as long as every change of a day it sums moves
\* the day's generation, or is one of the changes left out.
LEMMA RestoreStands ==
    ASSUME BucketInv, restoring' = restoring, ValuesOK(values'),
           restoring # NULL => missed \subseteq missed',
           DOMAIN restores \subseteq DOMAIN restores',
           \A k \in DOMAIN restores : restores'[k] \in Nat /\ restores[k] <= restores'[k],
           \A d \in Nat : /\ DayKey(d) \in DOMAIN restores
                          /\ restores'[DayKey(d)] = restores[DayKey(d)]
                          /\ restoring # NULL /\ DayKey(d) \notin missed'
                          => SameDay(values, values', d)
    PROVE  RestoreHolds'
<1> SUFFICES ASSUME restoring # NULL
             PROVE  WorkOK(restoring, restores') /\ WorkHolds(restoring, restores', values', missed')
    BY DEF RestoreHolds
<1>1. WorkOK(restoring, restores) /\ WorkHolds(restoring, restores, values, missed) /\ ValuesOK(values)
      /\ \A k \in DOMAIN restores : restores[k] \in Nat
    BY DEF BucketInv, RestoreHolds, BucketTypes
<1>2. WorkOK(restoring, restores')
  <2>1. \A k \in DOMAIN restoring.generation : k \in DOMAIN restores
      BY <1>1 DEF WorkOK
  <2>2. \A k \in DOMAIN restoring.generation : restoring.generation[k] <= restores'[k]
      BY <1>1, <2>1 DEF WorkOK
  <2> QED
      BY <1>1, <2>2 DEF WorkOK
<1>3. ASSUME NEW d \in Nat, DayKey(d) \in DOMAIN restoring.total \ restoring.stale,
             DayKey(d) \in DOMAIN restoring.generation,
             restores'[DayKey(d)] = restoring.generation[DayKey(d)], DayKey(d) \notin missed'
      PROVE  SumsOf(restoring, d, values')
  <2>1. DayKey(d) \in DOMAIN restores /\ restoring.generation[DayKey(d)] \in Nat
        /\ restoring.generation[DayKey(d)] <= restores[DayKey(d)]
      BY <1>1, <1>3 DEF WorkOK
  <2>2. restores[DayKey(d)] <= restores'[DayKey(d)] /\ restores[DayKey(d)] \in Nat /\ restores'[DayKey(d)] \in Nat
      BY <1>1, <2>1
  <2>3. restores'[DayKey(d)] = restores[DayKey(d)] /\ restores[DayKey(d)] = restoring.generation[DayKey(d)]
      BY <1>3, <2>1, <2>2
  <2>4. SameDay(values, values', d) /\ SumsOf(restoring, d, values)
      BY <1>1, <1>3, <2>1, <2>3 DEF WorkHolds
  <2> DEFINE B == SummedIn(restoring, d, values)
             C == SummedIn(restoring, d, values')
  <2>5. B = C /\ B \in SUBSET DOMAIN values /\ C \in SUBSET DOMAIN values' /\ \A b \in B : values[b] = values'[b]
      BY <1>1, <2>4, EventsOfKey DEF SameDay, ValuesOK, SummedIn
  <2> HIDE DEF B, C
  <2>6. IsFiniteSet(B)
      BY <1>1, <2>5, TotalOfEvents
  <2>7. SumOver(values, B) = SumOver(values', B)
      BY <2>5, <2>6, SumSame
  <2>8. Total(B, values).events = Total(C, values').events /\ Total(B, values).sum = Total(C, values').sum
      BY <1>1, <2>5, <2>7, TotalOfEvents
  <2> QED
      BY <2>4, <2>8 DEF SumsOf, B, C
<1>4. WorkHolds(restoring, restores', values', missed')
    BY <1>1, <1>3 DEF WorkHolds
<1> QED
    BY <1>2, <1>4

LEMMA TouchedKeys ==
    ASSUME NEW queue, NEW keys
    PROVE  /\ DOMAIN Touched(queue, keys) = DOMAIN queue
           /\ \A k \in DOMAIN queue :
                 Touched(queue, keys)[k] = IF k \in keys THEN queue[k] + 1 ELSE queue[k]
BY DEF Touched

LEMMA OtherDaySame ==
    ASSUME NEW vs, NEW ws, NEW minute \in Nat, OnlyMinute(vs, ws, minute), NEW d, d # DayOf(minute)
    PROVE  SameDay(vs, ws, d)
BY DEF OnlyMinute, SameDay

\* The hour and the day of a minute move by the difference of the minute.
LEMMA RollupsMoved ==
    ASSUME BucketInv, ValuesOK(values'), NEW minute \in Nat, OnlyMinute(values, values', minute),
           NEW base, TableOK(base), NEW delta \in Totals,
           NEW keys, RollupsOf(minute) \subseteq keys, keys \subseteq RollupsOf(minute) \cup {MinuteKey(minute)},
           delta.events = Total(EventsIn(MinuteKey(minute), values'), values').events
                            - Total(EventsIn(MinuteKey(minute), values), values).events,
           delta.sum = Total(EventsIn(MinuteKey(minute), values'), values').sum
                            - Total(EventsIn(MinuteKey(minute), values), values).sum,
           \A n : /\ Row(base, HourKey(n)) = Row(rows, HourKey(n))
                  /\ Row(base, DayKey(n)) = Row(rows, DayKey(n)),
           rows' = MoveAll(base, keys, delta), pruneBefore' = pruneBefore,
           DOMAIN restores' = DOMAIN restores, phantoms' = phantoms
    PROVE  HoursExact' /\ DaysExact'
<1>1. ValuesOK(values)
    BY DEF BucketInv, BucketTypes
<1>2. ASSUME NEW key \in RollupsOf(minute), Exact(rows, key, values), Row(base, key) = Row(rows, key)
      PROVE  Exact(rows', key, values')
  <2> DEFINE old == Total(EventsIn(key, values), values)
             new == Total(EventsIn(key, values'), values')
  <2>1. /\ new.events = old.events + delta.events /\ new.sum = old.sum + delta.sum
      BY <1>1, OwnKeysMove
  <2>2. Row(base, key).events = old.events /\ Row(base, key).sum = old.sum
      BY <1>2 DEF Exact
  <2>3. key \in keys
      OBVIOUS
  <2>4. Row(base, key).events + delta.events = new.events /\ Row(base, key).sum + delta.sum = new.sum
      BY <2>1, <2>2
  <2> QED
      BY <2>3, <2>4, ExactMoved
<1>3. ASSUME NEW key, key \notin keys, Row(base, key) = Row(rows, key), Exact(rows, key, values),
             Total(EventsIn(key, values), values) = Total(EventsIn(key, values'), values')
      PROVE  Exact(rows', key, values')
    BY <1>3, RowMoved DEF Exact
<1>4. ASSUME NEW h \in Nat, h * MinutesPerHour >= pruneBefore' PROVE Exact(rows', HourKey(h), values')
  <2>1. Exact(rows, HourKey(h), values)
      BY <1>4 DEF BucketInv, HoursExact
  <2>2. CASE h = HourOf(minute)
      BY <1>2, <2>1, <2>2, KeysOfMinute
  <2>3. CASE h # HourOf(minute)
    <3>1. HourKey(h) \notin keys
      <4>1. HourKey(h) # HourKey(HourOf(minute)) /\ HourKey(h) # MinuteKey(minute) /\ HourKey(h) # DayKey(DayOf(minute))
          BY <2>3, DistinctKeys
      <4> QED
          BY <4>1, KeysOfMinute
    <3>2. Total(EventsIn(HourKey(h), values), values) = Total(EventsIn(HourKey(h), values'), values')
        BY <1>1, <2>3, OtherKeysSame
    <3> QED
        BY <1>3, <2>1, <3>1, <3>2
  <2> QED
      BY <2>2, <2>3
<1>5. ASSUME NEW d \in Nat, DayKey(d) \notin DOMAIN restores' \cup phantoms' PROVE Exact(rows', DayKey(d), values')
  <2>1. Exact(rows, DayKey(d), values)
      BY <1>5 DEF BucketInv, DaysExact
  <2>2. CASE d = DayOf(minute)
      BY <1>2, <2>1, <2>2, KeysOfMinute
  <2>3. CASE d # DayOf(minute)
    <3>1. DayKey(d) \notin keys
      <4>1. DayKey(d) # DayKey(DayOf(minute)) /\ DayKey(d) # MinuteKey(minute) /\ DayKey(d) # HourKey(HourOf(minute))
          BY <2>3, DistinctKeys
      <4> QED
          BY <4>1, KeysOfMinute
    <3>2. Total(EventsIn(DayKey(d), values), values) = Total(EventsIn(DayKey(d), values'), values')
        BY <1>1, <2>3, OtherKeysSame
    <3> QED
        BY <1>3, <2>1, <3>1, <3>2
  <2> QED
      BY <2>2, <2>3
<1> QED
    BY <1>4, <1>5 DEF HoursExact, DaysExact

\* One event more in a minute.
LEMMA OneMore ==
    ASSUME NEW vs, ValuesOK(vs), NEW block \in BucketBlocks \ DOMAIN vs,
           NEW ws, ValuesOK(ws), DOMAIN ws = DOMAIN vs \cup {block}, ws[block] = 1,
           \A b \in DOMAIN vs : ws[b] = vs[b]
    PROVE  LET mk == MinuteKey(MinuteOf[block])
               one == [events |-> 1, sum |-> 1, top |-> block]
           IN  /\ EventsIn(mk, ws) = EventsIn(mk, vs) \cup {block}
               /\ one \in Totals
               /\ Total(EventsIn(mk, ws), ws) = Plus(Total(EventsIn(mk, vs), vs), one)
<1> DEFINE mk == MinuteKey(MinuteOf[block])
           one == [events |-> 1, sum |-> 1, top |-> block]
           E == EventsIn(mk, vs)
           F == EventsIn(mk, ws)
<1>0. block \in Nat
    BY BucketAssumption
<1>1. F = E \cup {block} /\ block \notin E
    BY EventsOfKey
<1>2. one \in Totals /\ one.events = 1 /\ one.sum = 1 /\ one.top = block
    BY <1>0 DEF Totals
<1>3. E \in SUBSET DOMAIN vs /\ F \in SUBSET DOMAIN ws /\ E \in SUBSET DOMAIN ws
    BY EventsStored, <1>1
<1> HIDE DEF mk, one, E, F
<1>4. IsFiniteSet(E) /\ IsFiniteSet(F) /\ E \in SUBSET Nat /\ F \in SUBSET Nat /\ Cardinality(E) \in Nat
    BY <1>3, TotalOfEvents
<1>5. Cardinality(F) = Cardinality(E) + 1
    BY <1>1, <1>4, FS_AddElement
<1>6. SumOver(ws, F) = SumOver(vs, E) + 1
  <2>1. SumOver(ws, F) = SumOver(ws, F \ {block}) + ws[block]
    <3>1. \A x \in F : ws[x] \in Int
        BY <1>3 DEF ValuesOK
    <3> QED
        BY <1>1, <1>4, <3>1, SumTakeOut
  <2>2. F \ {block} = E
      BY <1>1
  <2>3. SumOver(ws, E) = SumOver(vs, E)
      BY <1>3, <1>4, SumSame
  <2> QED
      BY <2>1, <2>2, <2>3
<1>7. Total(F, ws).top = Plus(Total(E, vs), one).top
  <2>1. Plus(Total(E, vs), one).top = IF Total(E, vs).top >= block THEN Total(E, vs).top ELSE block
      BY <1>2, <1>3, TotalOfEvents, PlusOK
  <2>2. Total(F, ws).top = Max(F) /\ Max(F) \in F /\ \A m \in F : m <= Max(F)
      BY <1>1, <1>3, <1>4, TotalOfEvents, HighestOf
  <2>3. CASE E = {}
    <3>1. Total(E, vs).top = 0 /\ F = {block}
        BY <1>1, <1>3, <2>3, TotalOfEvents
    <3>2. Total(F, ws).top = block
        BY <2>2, <3>1
    <3> QED
        BY <1>0, <2>1, <3>1, <3>2
  <2>4. CASE E # {}
    <3>1. Total(E, vs).top = Max(E) /\ Max(E) \in E /\ \A m \in E : m <= Max(E)
        BY <1>3, <1>4, <2>4, TotalOfEvents, HighestOf
    <3>2. Max(E) \in F /\ block \in F /\ (Max(F) \in E \/ Max(F) = block) /\ Max(E) \in Nat /\ Max(F) \in Nat
        BY <1>1, <1>4, <2>2, <3>1
    <3>3. Max(F) = IF Max(E) >= block THEN Max(E) ELSE block
        BY <1>0, <2>2, <3>1, <3>2
    <3> QED
        BY <2>1, <2>2, <3>1, <3>3
  <2> QED
      BY <2>3, <2>4
<1>8. Total(F, ws) = Plus(Total(E, vs), one)
  <2> DEFINE T == Total(F, ws)
             P == Plus(Total(E, vs), one)
  <2>1. /\ T \in Totals /\ P \in Totals
        /\ T.events = P.events /\ T.sum = P.sum
      BY <1>2, <1>3, <1>5, <1>6, TotalOfEvents, PlusOK
  <2>2. T.top = P.top
      BY <1>7
  <2> HIDE DEF T, P
  <2>3. T = P
      BY <2>1, <2>2 DEF Totals
  <2> QED
      BY <2>3 DEF T, P
<1> QED
    BY <1>1, <1>2, <1>8 DEF E, F, mk, one

LEMMA MinuteKeyed ==
    ASSUME NEW k, k[1] = "minute", NEW vs, NEW b \in EventsIn(k, vs)
    PROVE  k = MinuteKey(MinuteOf[b])
BY KeysOfMinute DEF EventsIn

\* The minute rows after a change of one minute.
LEMMA MinuteChanged ==
    ASSUME BucketInv, ValuesOK(values'), NEW minute \in Nat, OnlyMinute(values, values', minute),
           pruneBefore' = pruneBefore,
           \A k : k[1] = "minute" /\ k # MinuteKey(minute) =>
               /\ k \in DOMAIN rows' <=> k \in DOMAIN rows
               /\ k \in DOMAIN rows => rows'[k] = rows[k],
           minute >= pruneBefore => Row(rows', MinuteKey(minute)) =
                                        Total(EventsIn(MinuteKey(minute), values'), values'),
           MinuteKey(minute) \in DOMAIN rows' =>
               rows'[MinuteKey(minute)].top \in EventsIn(MinuteKey(minute), values')
    PROVE  MinutesExact' /\ TopsStored'
<1>1. ValuesOK(values)
    BY DEF BucketInv, BucketTypes
<1>2. ASSUME NEW m \in Nat, m >= pruneBefore'
      PROVE  Row(rows', MinuteKey(m)) = Total(EventsIn(MinuteKey(m), values'), values')
  <2>1. CASE m = minute
      BY <1>2, <2>1
  <2>2. CASE m # minute
    <3>1. MinuteKey(m)[1] = "minute" /\ MinuteKey(m) # MinuteKey(minute)
        BY <2>2 DEF MinuteKey
    <3>2. Row(rows', MinuteKey(m)) = Row(rows, MinuteKey(m))
        BY <3>1 DEF Row
    <3>3. Row(rows, MinuteKey(m)) = Total(EventsIn(MinuteKey(m), values), values)
        BY <1>2 DEF BucketInv, MinutesExact
    <3>4. Total(EventsIn(MinuteKey(m), values), values) = Total(EventsIn(MinuteKey(m), values'), values')
        BY <1>1, <2>2, OtherKeysSame
    <3> QED
        BY <3>2, <3>3, <3>4
  <2> QED
      BY <2>1, <2>2
<1>3. ASSUME NEW k \in DOMAIN rows', k[1] = "minute" PROVE rows'[k].top \in EventsIn(k, values')
  <2>1. CASE k = MinuteKey(minute)
      BY <1>3, <2>1
  <2>2. CASE k # MinuteKey(minute)
    <3>1. k \in DOMAIN rows /\ rows'[k] = rows[k]
        BY <1>3, <2>2
    <3>2. rows[k].top \in EventsIn(k, values)
        BY <1>3, <3>1 DEF BucketInv, TopsStored
    <3>3. k = MinuteKey(MinuteOf[rows[k].top]) /\ MinuteOf[rows[k].top] # minute
        BY <1>3, <2>2, <3>2, MinuteKeyed
    <3>4. EventsIn(k, values) = EventsIn(k, values')
        BY <1>1, <3>3, OtherKeysSame
    <3> QED
        BY <3>1, <3>2, <3>4
  <2> QED
      BY <2>1, <2>2
<1> QED
    BY <1>2, <1>3 DEF MinutesExact, TopsStored

LEMMA StoreRawKeeps ==
    ASSUME BucketInv, NEW block \in BucketBlocks, StoreRawEvent(block)
    PROVE  BucketInv'
<1> DEFINE minute == MinuteOf[block]
           mk == MinuteKey(minute)
           keys == RollupsOf(minute) \cup {mk}
           one == [events |-> 1, sum |-> 1, top |-> block]
<1>0. minute \in Nat /\ block \in Nat
    BY BucketAssumption
<1>1. /\ block \notin DOMAIN values /\ DOMAIN values' = DOMAIN values \cup {block} /\ values'[block] = 1
      /\ \A b \in DOMAIN values : values'[b] = values[b]
      /\ rows' = MoveAll(rows, keys, one) /\ restores' = Touched(restores, keys)
      /\ pruneBefore' = pruneBefore /\ restoring' = restoring /\ missed' = missed /\ phantoms' = phantoms
    BY KeysOfMinute DEF StoreRawEvent
<1>2. ValuesOK(values) /\ TableOK(rows) /\ pruneBefore \in Nat
    BY DEF BucketInv, BucketTypes
<1>3. ValuesOK(values')
  <2>1. \A b \in DOMAIN values' : values'[b] \in Int
      BY <1>1, <1>2 DEF ValuesOK
  <2> QED
      BY <1>1, <1>2, <2>1 DEF ValuesOK
<1>4. OnlyMinute(values, values', minute)
    BY <1>1 DEF OnlyMinute
<1>5. /\ EventsIn(mk, values') = EventsIn(mk, values) \cup {block}
      /\ one \in Totals
      /\ Total(EventsIn(mk, values'), values') = Plus(Total(EventsIn(mk, values), values), one)
    BY <1>1, <1>2, <1>3, OneMore
<1>6. one.events = 1 /\ one.sum = 1 /\ one.top = block
    OBVIOUS
<1>7. Total(EventsIn(mk, values), values) \in Totals /\ Total(EventsIn(mk, values), values).events \in Nat
    BY <1>2, EventsStored, TotalOfEvents
<1> HIDE DEF one
<1>8. /\ one.events = Total(EventsIn(mk, values'), values').events - Total(EventsIn(mk, values), values).events
      /\ one.sum = Total(EventsIn(mk, values'), values').sum - Total(EventsIn(mk, values), values).sum
    BY <1>5, <1>6, <1>7, PlusOK DEF Totals
<1>9. DOMAIN restores' = DOMAIN restores
      /\ \A k \in DOMAIN restores : restores'[k] = IF k \in keys THEN restores[k] + 1 ELSE restores[k]
    BY <1>1, TouchedKeys
<1>10. mk \in keys /\ RollupsOf(minute) \subseteq keys /\ keys \subseteq RollupsOf(minute) \cup {mk}
    OBVIOUS
<1>11. \A k : k[1] = "minute" /\ k # mk => k \notin keys
    BY KeysOfMinute DEF HourKey, DayKey
<1> HIDE DEF keys
<1>12. HoursExact' /\ DaysExact'
    BY <1>0, <1>1, <1>2, <1>3, <1>4, <1>5, <1>8, <1>9, <1>10, RollupsMoved
<1>13. /\ Row(rows', mk) = IF Row(rows, mk).events + one.events <= 0 THEN NoTotal ELSE Plus(Row(rows, mk), one)
       /\ mk \in DOMAIN rows' <=> ~(Row(rows, mk).events + one.events <= 0)
       /\ TableOK(rows')
    BY <1>1, <1>2, <1>5, <1>10, RowMoved
<1>14. \A k : k[1] = "minute" /\ k # mk => /\ k \in DOMAIN rows' <=> k \in DOMAIN rows
                                           /\ k \in DOMAIN rows => rows'[k] = rows[k]
    BY <1>1, <1>2, <1>5, <1>11, RowMoved
<1>15. minute >= pruneBefore => Row(rows', mk) = Total(EventsIn(mk, values'), values')
  <2> SUFFICES ASSUME minute >= pruneBefore PROVE Row(rows', mk) = Total(EventsIn(mk, values'), values')
      OBVIOUS
  <2>1. Row(rows, mk) = Total(EventsIn(mk, values), values)
      BY <1>0 DEF BucketInv, MinutesExact
  <2>2. ~(Row(rows, mk).events + one.events <= 0)
      BY <1>6, <1>7, <2>1
  <2> QED
      BY <1>5, <1>13, <2>1, <2>2
<1>16. mk \in DOMAIN rows' => rows'[mk].top \in EventsIn(mk, values')
  <2> SUFFICES ASSUME mk \in DOMAIN rows' PROVE rows'[mk].top \in EventsIn(mk, values')
      OBVIOUS
  <2>1. rows'[mk] = Plus(Row(rows, mk), one)
      BY <1>13 DEF Row
  <2>2. rows'[mk].top = IF Row(rows, mk).top >= block THEN Row(rows, mk).top ELSE block
      BY <1>2, <1>5, <1>6, <2>1, RowOK, PlusOK
  <2>3. mk[1] = "minute"
      BY DEF MinuteKey
  <2>4. CASE mk \in DOMAIN rows
    <3>1. Row(rows, mk).top \in EventsIn(mk, values)
        BY <2>3, <2>4 DEF BucketInv, TopsStored, Row
    <3> QED
        BY <1>5, <2>2, <3>1
  <2>5. CASE mk \notin DOMAIN rows
    <3>1. Row(rows, mk).top = 0
        BY <2>5 DEF Row, NoTotal
    <3>2. rows'[mk].top = block
        BY <1>0, <2>2, <3>1
    <3> QED
        BY <1>5, <3>2
  <2> QED
      BY <2>4, <2>5
<1>17. MinutesExact' /\ TopsStored'
    BY <1>0, <1>1, <1>3, <1>4, <1>14, <1>15, <1>16, MinuteChanged
<1>18. RestoreHolds'
  <2>1. \A k \in DOMAIN restores : restores[k] \in Nat /\ restores'[k] \in Nat /\ restores[k] <= restores'[k]
      BY <1>9 DEF BucketInv, BucketTypes
  <2>2. ASSUME NEW d \in Nat, DayKey(d) \in DOMAIN restores, restores'[DayKey(d)] = restores[DayKey(d)]
        PROVE  SameDay(values, values', d)
    <3>1. DayKey(d) \notin keys
        BY <1>9, <2>1, <2>2
    <3>2. d # DayOf(minute)
        BY <1>10, <3>1, KeysOfMinute
    <3> QED
        BY <1>0, <1>4, <3>2, OtherDaySame
  <2> QED
      BY <1>1, <1>3, <1>9, <2>1, <2>2, RestoreStands
<1>19. BucketTypes'
  <2>1. \A k \in DOMAIN restores' : /\ restores'[k] \in Nat
                                    /\ \E n \in Nat : k = HourKey(n) \/ k = DayKey(n)
      BY <1>9 DEF BucketInv, BucketTypes
  <2> QED
      BY <1>1, <1>2, <1>3, <1>13, <2>1 DEF BucketTypes
<1>20. HoursQueued'
    BY <1>1, <1>9 DEF BucketInv, HoursQueued
<1> QED
    BY <1>12, <1>17, <1>18, <1>19, <1>20 DEF BucketInv

LEMMA PriceKeeps ==
    ASSUME BucketInv, NEW block \in BucketBlocks, PriceEvent(block)
    PROVE  BucketInv'
<1> DEFINE minute == MinuteOf[block]
           mk == MinuteKey(minute)
           moved == RollupsOf(minute)
           new == Total(EventsIn(mk, values'), values')
           old == Row(rows, mk)
           delta == [events |-> new.events - old.events, sum |-> new.sum - old.sum, top |-> new.top]
           base == PutAll(rows, TotalsOf({mk}, values'))
           queued == [k \in DOMAIN restores \cup Owed(minute) |->
                          IF k \notin DOMAIN restores THEN 1
                          ELSE IF k \in Owed(minute) THEN restores[k] + 1 ELSE restores[k]]
<1>0. minute \in Nat /\ block \in Nat
    BY BucketAssumption
<1>1. /\ DOMAIN values' = DOMAIN values \cup {block} /\ values'[block] = 2
      /\ \A b \in DOMAIN values : b # block => values'[b] = values[b]
      /\ pruneBefore' = pruneBefore /\ restoring' = restoring /\ missed' = missed /\ phantoms' = phantoms
    BY DEF PriceEvent, Rebucket
<1>2. IF minute < pruneBefore
      THEN rows' = base /\ restores' = queued
      ELSE rows' = MoveAll(base, moved, delta) /\ restores' = Touched(restores, moved)
    BY KeysOfMinute DEF PriceEvent, Rebucket
<1>3. ValuesOK(values) /\ TableOK(rows) /\ pruneBefore \in Nat
    BY DEF BucketInv, BucketTypes
<1>4. ValuesOK(values')
  <2>1. \A b \in DOMAIN values' : values'[b] \in Int
      BY <1>1, <1>3 DEF ValuesOK
  <2> QED
      BY <1>1, <1>3, <2>1 DEF ValuesOK
<1>5. OnlyMinute(values, values', minute)
    BY <1>1 DEF OnlyMinute
<1>6. new \in Totals /\ old \in Totals
    BY <1>3, <1>4, EventsStored, TotalOfEvents, RowOK
<1>7. delta \in Totals /\ delta.events = new.events - old.events /\ delta.sum = new.sum - old.sum
    BY <1>6 DEF Totals
<1>8. EventsIn(mk, values') # {} /\ EventsIn(mk, values') \in SUBSET DOMAIN values'
    BY <1>1, EventsOfKey, EventsStored
<1>9. new.top \in EventsIn(mk, values')
    BY <1>4, <1>8, TotalOfEvents, HighestOf
<1>10. /\ TableOK(base) /\ Row(base, mk) = new /\ mk \in DOMAIN base
       /\ \A k : k # mk => /\ Row(base, k) = Row(rows, k) /\ (k \in DOMAIN base <=> k \in DOMAIN rows)
                           /\ (k \in DOMAIN rows => base[k] = rows[k])
    BY <1>3, <1>4, <1>8, RowsSet
<1>11. \A n : mk # HourKey(n) /\ mk # DayKey(n)
    BY DistinctKeys
<1>12. mk \notin moved /\ \A k : k[1] = "minute" => k \notin moved
    BY KeysOfMinute DEF HourKey, DayKey
<1>13. moved = {HourKey(HourOf(minute)), DayKey(DayOf(minute))}
    BY KeysOfMinute
<1>14. HourOf(minute) \in Nat /\ HourOf(minute) * MinutesPerHour <= minute /\ HourOf(minute) * MinutesPerHour \in Nat
       /\ DayOf(minute) \in Nat
    BY <1>0, HourOfMinute, DayOfMinute
<1>15. Owed(minute) \subseteq moved /\ DayKey(DayOf(minute)) \in Owed(minute)
    BY <1>13, KeysOfMinute DEF Owed
<1> HIDE DEF minute, mk, moved, new, old, delta, base
<1>16. /\ TableOK(rows') /\ Row(rows', mk) = new /\ mk \in DOMAIN rows' /\ rows'[mk] = new
       /\ \A k : k[1] = "minute" /\ k # mk => /\ k \in DOMAIN rows' <=> k \in DOMAIN rows
                                              /\ k \in DOMAIN rows => rows'[k] = rows[k]
  <2>1. base[mk] = new
      BY <1>10 DEF Row
  <2>2. CASE rows' = base
      BY <1>10, <2>1, <2>2
  <2>3. CASE rows' = MoveAll(base, moved, delta)
    <3>1. \A k : k \notin moved => /\ TableOK(rows') /\ Row(rows', k) = Row(base, k)
                                   /\ k \in DOMAIN rows' <=> k \in DOMAIN base
                                   /\ k \in DOMAIN base => rows'[k] = base[k]
        BY <1>7, <1>10, <2>3, RowMoved
    <3> QED
        BY <1>10, <1>12, <2>1, <3>1
  <2> QED
      BY <1>2, <2>2, <2>3
<1>17. MinutesExact' /\ TopsStored'
    BY <1>0, <1>1, <1>4, <1>5, <1>9, <1>16, MinuteChanged DEF mk, new
<1>18. HoursExact' /\ DaysExact'
  <2>1. CASE minute < pruneBefore
    <3>1. rows' = base /\ DOMAIN restores' = DOMAIN restores \cup Owed(minute)
        BY <1>2, <2>1
    <3>2. ASSUME NEW h \in Nat, h * MinutesPerHour >= pruneBefore' PROVE Exact(rows', HourKey(h), values')
      <4>1. h # HourOf(minute)
          BY <1>0, <1>1, <1>3, <1>14, <2>1, <3>2 DEF minute
      <4>2. Total(EventsIn(HourKey(h), values), values) = Total(EventsIn(HourKey(h), values'), values')
          BY <1>0, <1>3, <1>4, <1>5, <4>1, OtherKeysSame
      <4>3. Exact(rows, HourKey(h), values)
          BY <1>1, <3>2 DEF BucketInv, HoursExact
      <4> QED
          BY <1>10, <1>11, <3>1, <4>2, <4>3 DEF Exact
    <3>3. ASSUME NEW d \in Nat, DayKey(d) \notin DOMAIN restores' \cup phantoms' PROVE Exact(rows', DayKey(d), values')
      <4>1. d # DayOf(minute)
          BY <1>15, <3>1, <3>3
      <4>2. Total(EventsIn(DayKey(d), values), values) = Total(EventsIn(DayKey(d), values'), values')
          BY <1>0, <1>3, <1>4, <1>5, <4>1, OtherKeysSame
      <4>3. Exact(rows, DayKey(d), values)
          BY <1>1, <3>1, <3>3 DEF BucketInv, DaysExact
      <4> QED
          BY <1>10, <1>11, <3>1, <4>2, <4>3 DEF Exact
    <3> QED
        BY <3>2, <3>3 DEF HoursExact, DaysExact
  <2>2. CASE ~(minute < pruneBefore)
    <3>1. rows' = MoveAll(base, moved, delta) /\ DOMAIN restores' = DOMAIN restores
        BY <1>2, <2>2, TouchedKeys
    <3>2. old = Total(EventsIn(mk, values), values)
        BY <1>0, <1>3, <2>2 DEF BucketInv, MinutesExact, old, mk, minute
    <3>3. \A n : Row(base, HourKey(n)) = Row(rows, HourKey(n)) /\ Row(base, DayKey(n)) = Row(rows, DayKey(n))
        BY <1>10, <1>11
    <3> QED
        BY <1>0, <1>1, <1>4, <1>5, <1>7, <1>10, <3>1, <3>2, <3>3, RollupsMoved DEF moved, mk, new
  <2> QED
      BY <2>1, <2>2
<1>19. /\ DOMAIN restores \subseteq DOMAIN restores'
       /\ \A k \in DOMAIN restores' : restores'[k] \in Nat /\ (k \in DOMAIN restores \/ k \in Owed(minute))
       /\ \A k \in DOMAIN restores : restores[k] \in Nat /\ restores[k] <= restores'[k]
       /\ DayKey(DayOf(minute)) \in DOMAIN restores =>
              restores'[DayKey(DayOf(minute))] = restores[DayKey(DayOf(minute))] + 1
  <2>0. \A k \in DOMAIN restores : restores[k] \in Nat
      BY DEF BucketInv, BucketTypes
  <2>1. CASE restores' = queued
      BY <1>15, <2>0, <2>1
  <2>2. CASE restores' = Touched(restores, moved)
    <3>1. DOMAIN restores' = DOMAIN restores
          /\ \A k \in DOMAIN restores : restores'[k] = IF k \in moved THEN restores[k] + 1 ELSE restores[k]
        BY <2>2, TouchedKeys
    <3> QED
        BY <1>15, <2>0, <3>1
  <2> QED
      BY <1>2, <2>1, <2>2
<1>20. RestoreHolds'
  <2>1. ASSUME NEW d \in Nat, DayKey(d) \in DOMAIN restores, restores'[DayKey(d)] = restores[DayKey(d)]
        PROVE  SameDay(values, values', d)
    <3>1. d # DayOf(minute)
        BY <1>19, <2>1
    <3> QED
        BY <1>0, <1>5, <3>1, OtherDaySame
  <2> QED
      BY <1>1, <1>4, <1>19, <2>1, RestoreStands
<1>21. BucketTypes'
  <2>1. \A k \in DOMAIN restores' : /\ restores'[k] \in Nat
                                    /\ \E n \in Nat : k = HourKey(n) \/ k = DayKey(n)
      BY <1>13, <1>14, <1>15, <1>19 DEF BucketInv, BucketTypes
  <2> QED
      BY <1>1, <1>3, <1>4, <1>16, <2>1 DEF BucketTypes
<1>22. HoursQueued'
  <2> SUFFICES ASSUME NEW h \in Nat, HourKey(h) \in DOMAIN restores' PROVE h * MinutesPerHour < pruneBefore
      BY <1>1 DEF HoursQueued
  <2>1. CASE HourKey(h) \in DOMAIN restores
      BY <2>1 DEF BucketInv, HoursQueued
  <2>2. CASE HourKey(h) \notin DOMAIN restores
    <3>1. HourKey(h) \in Owed(minute) /\ minute < pruneBefore
      <4>1. HourKey(h) \in Owed(minute)
          BY <1>19, <2>2
      <4>2. restores' # Touched(restores, moved)
          BY <2>2, TouchedKeys
      <4> QED
          BY <1>2, <4>1, <4>2
    <3>2. h = HourOf(minute)
        BY <1>13, <1>15, <3>1, DistinctKeys
    <3> QED
        BY <1>0, <1>3, <1>14, <3>1, <3>2 DEF minute
  <2> QED
      BY <2>1, <2>2
<1> QED
    BY <1>17, <1>18, <1>20, <1>21, <1>22 DEF BucketInv

LEMMA PruneKeeps ==
    ASSUME BucketInv, NEW cutoff \in Nat, NEW resolution \in {"minute", "hour"},
           PruneBuckets(cutoff, resolution)
    PROVE  BucketInv'
<1> DEFINE start(key) == IF resolution = "minute" THEN key[2] ELSE key[2] * MinutesPerHour
           old == {k \in DOMAIN rows : k[1] = resolution /\ start(k) < cutoff}
<1>1. PICK batch \in SUBSET old : /\ rows' = Restrict(rows, DOMAIN rows \ batch)
                                  /\ restores' = Touched(restores, batch)
    BY DEF PruneBuckets
<1>2. /\ pruneBefore' = Max({cutoff, pruneBefore})
      /\ values' = values /\ restoring' = restoring /\ missed' = missed /\ phantoms' = phantoms
    BY DEF PruneBuckets
<1>3. ValuesOK(values) /\ TableOK(rows) /\ pruneBefore \in Nat
    BY DEF BucketInv, BucketTypes
<1>4. pruneBefore' \in Nat /\ pruneBefore <= pruneBefore' /\ cutoff <= pruneBefore'
    BY <1>2, <1>3, LargerOf
<1>5. /\ DOMAIN rows' = DOMAIN rows \ batch
      /\ \A k \in DOMAIN rows' : rows'[k] = rows[k]
      /\ \A k : k \notin batch => Row(rows', k) = Row(rows, k)
    BY <1>1 DEF Restrict, Row
<1>6. \A d : DayKey(d) \notin batch
    BY DEF DayKey
<1>7. \A m : MinuteKey(m) \in batch => m < cutoff
    BY DEF MinuteKey
<1>8. \A h : HourKey(h) \in batch => h * MinutesPerHour < cutoff
    BY DEF HourKey
<1>9. /\ DOMAIN restores' = DOMAIN restores
      /\ \A k \in DOMAIN restores : restores'[k] = IF k \in batch THEN restores[k] + 1 ELSE restores[k]
    BY <1>1, TouchedKeys
<1> HIDE DEF old
<1>10. MinutesExact'
  <2> SUFFICES ASSUME NEW m \in Nat, m >= pruneBefore'
               PROVE  Row(rows', MinuteKey(m)) = Total(EventsIn(MinuteKey(m), values), values)
      BY <1>2 DEF MinutesExact
  <2>1. m >= pruneBefore /\ MinuteKey(m) \notin batch
      BY <1>3, <1>4, <1>7
  <2> QED
      BY <1>5, <2>1 DEF BucketInv, MinutesExact
<1>11. HoursExact'
  <2> SUFFICES ASSUME NEW h \in Nat, h * MinutesPerHour >= pruneBefore'
               PROVE  Exact(rows', HourKey(h), values)
      BY <1>2 DEF HoursExact
  <2>0. h * MinutesPerHour \in Nat
      BY BucketAssumption
  <2>1. h * MinutesPerHour >= pruneBefore /\ HourKey(h) \notin batch
      BY <1>3, <1>4, <1>8, <2>0
  <2> QED
      BY <1>5, <2>1 DEF BucketInv, HoursExact, Exact
<1>12. DaysExact'
    BY <1>2, <1>5, <1>6, <1>9 DEF BucketInv, DaysExact, Exact
<1>13. TopsStored'
    BY <1>2, <1>5 DEF BucketInv, TopsStored
<1>14. HoursQueued'
  <2> SUFFICES ASSUME NEW h \in Nat, HourKey(h) \in DOMAIN restores PROVE h * MinutesPerHour < pruneBefore'
      BY <1>9 DEF HoursQueued
  <2>1. h * MinutesPerHour < pruneBefore /\ h * MinutesPerHour \in Nat
      BY BucketAssumption DEF BucketInv, HoursQueued
  <2> QED
      BY <1>3, <1>4, <2>1
<1>15. \A k \in DOMAIN restores : restores[k] \in Nat /\ restores'[k] \in Nat /\ restores[k] <= restores'[k]
    BY <1>9 DEF BucketInv, BucketTypes
<1>16. RestoreHolds'
  <2>1. \A d : SameDay(values, values', d)
      BY <1>2 DEF SameDay
  <2> QED
      BY <1>2, <1>3, <1>9, <1>15, <2>1, RestoreStands
<1>17. BucketTypes'
  <2>1. \A k \in DOMAIN restores' : /\ restores'[k] \in Nat
                                    /\ \E n \in Nat : k = HourKey(n) \/ k = DayKey(n)
      BY <1>9, <1>15 DEF BucketInv, BucketTypes
  <2> QED
      BY <1>2, <1>3, <1>4, <1>5, <2>1 DEF BucketTypes, TableOK
<1> QED
    BY <1>10, <1>11, <1>12, <1>13, <1>14, <1>16, <1>17 DEF BucketInv

\* The rows and the queue stay: so does what they say.
LEMMA OnlyRestoring ==
    ASSUME BucketInv, UNCHANGED <<values, rows, pruneBefore, restores, phantoms>>, RestoreHolds'
    PROVE  BucketInv'
<1>1. BucketTypes' /\ MinutesExact' /\ HoursExact' /\ DaysExact'
    BY DEF BucketInv, BucketTypes, MinutesExact, HoursExact, DaysExact
<1>2. TopsStored' /\ HoursQueued'
    BY DEF BucketInv, TopsStored, HoursQueued
<1> QED
    BY <1>1, <1>2 DEF BucketInv

LEMMA BeginKeeps ==
    ASSUME BucketInv, NEW wanted, BeginRestore(wanted)
    PROVE  BucketInv'
<1> DEFINE day == {k[2] : k \in {j \in wanted : j[1] = "day"}}
           hours == IF day # {} THEN {d * HoursPerDay + h : d \in day, h \in 0 .. HoursPerDay - 1}
                    ELSE {k[2] : k \in wanted}
           dayOf(k) == IF k[1] = "day" THEN k[2] ELSE k[2] \div HoursPerDay
           work == [hours |-> hours, generation |-> [k \in {} |-> 0], stale |-> {},
                    total |-> [k \in wanted |-> NoTotal]]
<1>1. wanted \subseteq DOMAIN restores /\ \A j, k \in wanted : dayOf(j) = dayOf(k)
    BY DEF BeginRestore
<1>2. restoring' = work /\ UNCHANGED <<values, rows, pruneBefore, restores, missed, phantoms>>
    BY DEF BeginRestore
<1>3. \A k \in wanted : k[2] \in Nat
    BY <1>1 DEF BucketInv, BucketTypes, HourKey, DayKey
<1>4. hours \in SUBSET Nat
  <2>1. \A d \in day : d \in Nat
      BY <1>3
  <2>2. \A d \in day, h \in 0 .. HoursPerDay - 1 : d * HoursPerDay + h \in Nat
      BY <2>1, BucketAssumption
  <2> QED
      BY <1>3, <2>2
<1>5. ASSUME NEW d \in Nat, DayKey(d) \in wanted PROVE hours = HoursOf(d)
  <2>1. DayKey(d)[1] = "day" /\ DayKey(d)[2] = d
      BY DEF DayKey
  <2>2. d \in day
      BY <1>5, <2>1
  <2>3. \A k \in wanted : k[1] = "day" => k[2] = d
      BY <1>1, <1>5, <2>1
  <2>4. day = {d}
      BY <2>2, <2>3
  <2> HIDE DEF day
  <2> QED
      BY <2>4 DEF HoursOf
<1>6. /\ work.hours = hours /\ work.generation = [k \in {} |-> 0] /\ work.stale = {}
      /\ work.total = [k \in wanted |-> NoTotal]
    OBVIOUS
<1> HIDE DEF hours, work
<1>7. WorkOK(work, restores)
  <2>1. TableOK(work.total)
      BY <1>6 DEF TableOK, NoTotal, Totals
  <2> QED
      BY <1>1, <1>4, <1>5, <1>6, <2>1 DEF WorkOK
<1>8. WorkHolds(work, restores, values, missed)
    BY <1>5, <1>6 DEF WorkHolds
<1>9. RestoreHolds'
    BY <1>2, <1>7, <1>8 DEF RestoreHolds
<1> QED
    BY <1>2, <1>9, OnlyRestoring

LEMMA SumHourKeeps ==
    ASSUME BucketInv, SumHour
    PROVE  BucketInv'
<1> DEFINE hour == Min(restoring.hours)
           keys == {k \in DOMAIN restoring.total :
                        k = <<"hour", hour>> \/ k = <<"day", hour \div HoursPerDay>>}
           noted == DOMAIN restoring.generation
           gone == {k \in keys : IF k \notin DOMAIN restores THEN TRUE
                                 ELSE k \in noted /\ restoring.generation[k] # restores[k]}
           read == Total(EventsIn(HourKey(hour), values), values)
           work == [hours |-> restoring.hours \ {hour},
                    generation |-> [k \in noted \cup (keys \ gone) |->
                                       IF k \in noted THEN restoring.generation[k] ELSE restores[k]],
                    stale |-> restoring.stale \cup gone,
                    total |-> [k \in DOMAIN restoring.total |->
                                  IF k \in keys \ gone THEN Plus(restoring.total[k], read)
                                  ELSE restoring.total[k]]]
<1>1. restoring # NULL /\ restoring.hours # {} /\ restoring' = work
      /\ UNCHANGED <<values, rows, pruneBefore, restores, missed, phantoms>>
    BY DEF SumHour, HourKey
<1>2. WorkOK(restoring, restores) /\ WorkHolds(restoring, restores, values, missed) /\ ValuesOK(values)
      /\ \A k \in DOMAIN restores : restores[k] \in Nat
    BY <1>1 DEF BucketInv, RestoreHolds, BucketTypes
<1>3. hour \in restoring.hours /\ hour \in Nat
    BY <1>1, <1>2, LowestNumber DEF WorkOK
<1>4. read \in Totals
    BY <1>2, EventsStored, TotalOfEvents
<1>5. /\ work.hours = restoring.hours \ {hour}
      /\ DOMAIN work.generation = noted \cup (keys \ gone)
      /\ \A k \in DOMAIN work.generation :
            work.generation[k] = IF k \in noted THEN restoring.generation[k] ELSE restores[k]
      /\ work.stale = restoring.stale \cup gone
      /\ DOMAIN work.total = DOMAIN restoring.total
      /\ \A k \in DOMAIN restoring.total :
            work.total[k] = IF k \in keys \ gone THEN Plus(restoring.total[k], read) ELSE restoring.total[k]
    OBVIOUS
<1>6. keys \subseteq DOMAIN restoring.total /\ noted \subseteq DOMAIN restoring.total
      /\ DOMAIN restoring.total \subseteq DOMAIN restores /\ gone \subseteq keys
    BY <1>2 DEF WorkOK
<1>7. \A d \in Nat : DayKey(d) \in DOMAIN restoring.total =>
          (DayKey(d) \in keys /\ hour \div HoursPerDay = d /\ hour \in HoursOf(d)
             /\ restoring.hours \subseteq HoursOf(d))
    BY <1>2, <1>3, DayOfHour DEF WorkOK, DayKey
<1>8. \A k \in keys : k \in gone <=> k \in noted /\ restoring.generation[k] # restores[k]
    BY <1>6
<1> HIDE DEF hour, keys, gone, noted, read, work
<1>9. WorkOK(work, restores)
  <2>1. TableOK(work.total)
      BY <1>2, <1>4, <1>5, PlusOK DEF WorkOK, TableOK
  <2>2. \A k \in DOMAIN work.generation : work.generation[k] \in Nat /\ work.generation[k] <= restores[k]
    <3>1. ASSUME NEW k \in noted PROVE restoring.generation[k] \in Nat /\ restoring.generation[k] <= restores[k]
        BY <1>2 DEF WorkOK, noted
    <3>2. ASSUME NEW k \in keys PROVE restores[k] \in Nat
        BY <1>2, <1>6
    <3> QED
        BY <1>5, <3>1, <3>2
  <2>3. DOMAIN work.generation \subseteq DOMAIN work.total
      BY <1>5, <1>6
  <2>4. work.hours \in SUBSET Nat /\ work.hours \subseteq restoring.hours
      BY <1>2, <1>5 DEF WorkOK
  <2> QED
      BY <1>5, <1>6, <1>7, <2>1, <2>2, <2>3, <2>4 DEF WorkOK
<1>10. ASSUME NEW d \in Nat, DayKey(d) \in DOMAIN work.total \ work.stale
       PROVE  /\ DayKey(d) \in DOMAIN work.generation
              /\ restores[DayKey(d)] = work.generation[DayKey(d)] /\ DayKey(d) \notin missed
                   => SumsOf(work, d, values)
  <2> DEFINE dk == DayKey(d)
  <2>1. dk \in keys /\ dk \notin gone /\ dk \notin restoring.stale /\ hour \in HoursOf(d)
        /\ hour \div HoursPerDay = d /\ restoring.hours \subseteq HoursOf(d)
      BY <1>5, <1>7, <1>10
  <2>2. dk \in DOMAIN work.generation
      BY <1>5, <2>1
  <2>3. dk \in noted => restoring.generation[dk] = restores[dk]
      BY <1>8, <2>1
  <2>4. ASSUME dk \notin missed PROVE SumsOf(work, d, values)
    <3> DEFINE A == SummedIn(restoring, d, values)
               H == EventsIn(HourKey(hour), values)
               C == SummedIn(work, d, values)
    <3>1. restoring.total[dk].events = Total(A, values).events /\ restoring.total[dk].sum = Total(A, values).sum
      <4>1. CASE dk \in noted
          BY <1>2, <1>6, <2>1, <2>3, <2>4, <4>1 DEF WorkHolds, SumsOf, noted
      <4>2. CASE dk \notin noted
        <5>1. restoring.total[dk] = NoTotal /\ HoursOf(d) \subseteq restoring.hours
            BY <1>2, <1>6, <2>1, <4>2 DEF WorkHolds, noted
        <5>2. \A b \in EventsIn(DayKey(d), values) : HourOf(MinuteOf[b]) \in HoursOf(d)
          <6>1. \A b \in DOMAIN values : MinuteOf[b] \in Nat
              BY <1>2, BucketAssumption DEF ValuesOK
          <6> QED
              BY <6>1, EventsOfKey, DayOfMinute
        <5>3. A = {}
            BY <5>1, <5>2 DEF SummedIn
        <5>4. Total({}, values) = NoTotal
            BY <1>2, TotalOfEvents
        <5> QED
            BY <5>1, <5>3, <5>4
      <4> QED
          BY <4>1, <4>2
    <3>2. C = A \cup H /\ A \cap H = {} /\ A \in SUBSET DOMAIN values /\ H \in SUBSET DOMAIN values
      <4>1. \A b \in DOMAIN values : MinuteOf[b] \in Nat
          BY <1>2, BucketAssumption DEF ValuesOK
      <4>2. \A b \in DOMAIN values : HourOf(MinuteOf[b]) = hour => DayOf(MinuteOf[b]) = d
          BY <2>1, <4>1, DayOfMinute
      <4>3. /\ EventsIn(DayKey(d), values) = {b \in DOMAIN values : DayOf(MinuteOf[b]) = d}
            /\ H = {b \in DOMAIN values : HourOf(MinuteOf[b]) = hour}
          BY EventsOfKey
      <4>4. /\ A = {b \in DOMAIN values : DayOf(MinuteOf[b]) = d /\ HourOf(MinuteOf[b]) \notin restoring.hours}
            /\ C = {b \in DOMAIN values : DayOf(MinuteOf[b]) = d /\ HourOf(MinuteOf[b]) \notin work.hours}
          BY <4>3 DEF SummedIn
      <4>5. \A b \in DOMAIN values : HourOf(MinuteOf[b]) \notin work.hours <=>
                HourOf(MinuteOf[b]) \notin restoring.hours \/ HourOf(MinuteOf[b]) = hour
          BY <1>5
      <4> HIDE DEF A, H, C
      <4> QED
          BY <1>3, <4>2, <4>3, <4>4, <4>5
    <3>3. work.total[dk] = Plus(restoring.total[dk], read)
        BY <1>5, <1>6, <2>1
    <3>4. restoring.total[dk] \in Totals
        BY <1>2, <1>6, <2>1 DEF WorkOK, TableOK
    <3>5. read.events = Total(H, values).events /\ read.sum = Total(H, values).sum
        BY DEF read
    <3> HIDE DEF A, H, C
    <3>6. C \in SUBSET DOMAIN values /\ C \ A = H /\ A \subseteq C
        BY <3>2
    <3>7. Total(C, values).events = Total(A, values).events + Cardinality(H)
          /\ Total(C, values).sum = Total(A, values).sum + SumOver(values, H)
      <4>1. Total(C, values).events = Total(A, values).events + Cardinality(C \ A)
            /\ Total(C, values).sum = Total(A, values).sum + SumOver(values, C \ A)
          BY <1>2, <3>2, <3>6, TotalSplit
      <4> QED
          BY <3>6, <4>1
    <3>8. Total(H, values).events = Cardinality(H) /\ Total(H, values).sum = SumOver(values, H)
        BY <1>2, <3>2, TotalOfEvents
    <3>9. work.total[dk].events = Total(C, values).events /\ work.total[dk].sum = Total(C, values).sum
        BY <1>4, <3>1, <3>3, <3>4, <3>5, <3>7, <3>8, PlusOK
    <3> QED
        BY <3>9 DEF SumsOf, C
  <2> QED
      BY <2>2, <2>4
<1>11. WorkHolds(work, restores, values, missed)
    BY <1>10 DEF WorkHolds
<1>12. RestoreHolds'
    BY <1>1, <1>9, <1>11 DEF RestoreHolds
<1> QED
    BY <1>1, <1>12, OnlyRestoring

LEMMA StoreRestoreKeeps ==
    ASSUME BucketInv, StoreRestore
    PROVE  BucketInv'
<1> DEFINE fit == {k \in DOMAIN restoring.total \ restoring.stale :
                       k \in DOMAIN restores /\ restores[k] = restoring.generation[k]}
           sums == Restrict(restoring.total, fit)
<1>1. /\ restoring # NULL /\ restoring.hours = {}
      /\ rows' = PutAll(rows, sums) /\ restores' = Restrict(restores, DOMAIN restores \ fit)
      /\ restoring' = NULL /\ values' = values /\ pruneBefore' = pruneBefore
      /\ phantoms' = (phantoms \ fit) \cup (missed \cap fit)
    BY DEF StoreRestore
<1>2. WorkOK(restoring, restores) /\ WorkHolds(restoring, restores, values, missed)
      /\ ValuesOK(values) /\ TableOK(rows)
    BY <1>1 DEF BucketInv, RestoreHolds, BucketTypes
<1>3. DOMAIN sums = fit /\ \A k \in fit : sums[k] = restoring.total[k]
    BY DEF Restrict
<1>4. DOMAIN restores' = DOMAIN restores \ fit /\ \A k \in DOMAIN restores' : restores'[k] = restores[k]
    BY <1>1 DEF Restrict
<1>5. \A k \in fit : /\ k \in DOMAIN restoring.total /\ k \notin restoring.stale
                     /\ k \in DOMAIN restores /\ restores[k] = restoring.generation[k]
    OBVIOUS
<1> HIDE DEF fit, sums
<1>6. TableOK(sums)
    BY <1>2, <1>3, <1>5 DEF TableOK, WorkOK
<1>7. \A k : k \notin fit => Row(rows', k) = Row(rows, k) /\ (k \in DOMAIN rows' <=> k \in DOMAIN rows)
                              /\ (k \in DOMAIN rows => rows'[k] = rows[k])
    BY <1>1, <1>3, RowPut
<1>8. \A k \in fit : Row(rows', k) = IF restoring.total[k].events <= 0 THEN NoTotal ELSE restoring.total[k]
    BY <1>1, <1>3, RowPut
<1>9. \A k \in fit : \E n \in Nat : k = HourKey(n) \/ k = DayKey(n)
    BY <1>5 DEF BucketInv, BucketTypes
<1>10. \A k \in fit : k[1] # "minute"
    BY <1>9 DEF HourKey, DayKey
<1>11. ASSUME NEW d \in Nat, DayKey(d) \in fit, DayKey(d) \notin missed PROVE Exact(rows', DayKey(d), values)
  <2> DEFINE dk == DayKey(d)
             T == Total(EventsIn(dk, values), values)
  <2>1. DayKey(d) \in DOMAIN restoring.generation
    <3>1. HoursOf(d) # {}
      <4>1. 0 \in 0 .. HoursPerDay - 1
          BY BucketAssumption
      <4> QED
          BY <4>1 DEF HoursOf
    <3> QED
        BY <1>1, <1>2, <1>5, <1>11, <3>1 DEF WorkHolds
  <2>2. SumsOf(restoring, d, values)
      BY <1>2, <1>5, <1>11, <2>1 DEF WorkHolds
  <2>3. SummedIn(restoring, d, values) = EventsIn(dk, values)
      BY <1>1 DEF SummedIn
  <2>4. restoring.total[dk].events = T.events /\ restoring.total[dk].sum = T.sum
      BY <2>2, <2>3 DEF SumsOf
  <2>5. T \in Totals /\ (T.events <= 0 => T = NoTotal)
      BY <1>2, EventsStored, TotalOfEvents
  <2>6. Row(rows', dk) = IF restoring.total[dk].events <= 0 THEN NoTotal ELSE restoring.total[dk]
      BY <1>8, <1>11
  <2> HIDE DEF T
  <2>7. Row(rows', dk).events = T.events /\ Row(rows', dk).sum = T.sum
      BY <2>4, <2>5, <2>6
  <2> QED
      BY <2>7 DEF Exact, T
<1>12. DaysExact'
  <2> SUFFICES ASSUME NEW d \in Nat, DayKey(d) \notin DOMAIN restores' \cup phantoms'
               PROVE  Exact(rows', DayKey(d), values)
      BY <1>1 DEF DaysExact
  <2>1. CASE DayKey(d) \in fit
      BY <1>1, <1>11, <2>1
  <2>2. CASE DayKey(d) \notin fit
    <3>1. Exact(rows, DayKey(d), values)
        BY <1>1, <1>4, <2>2 DEF BucketInv, DaysExact
    <3> QED
        BY <1>7, <2>2, <3>1 DEF Exact
  <2> QED
      BY <2>1, <2>2
<1>13. HoursExact'
  <2> SUFFICES ASSUME NEW h \in Nat, h * MinutesPerHour >= pruneBefore
               PROVE  Exact(rows', HourKey(h), values)
      BY <1>1 DEF HoursExact
  <2>1. HourKey(h) \notin fit
    <3>1. h * MinutesPerHour \in Nat /\ pruneBefore \in Nat
        BY BucketAssumption DEF BucketInv, BucketTypes
    <3> QED
        BY <1>5, <3>1 DEF BucketInv, HoursQueued
  <2>2. Exact(rows, HourKey(h), values)
      BY DEF BucketInv, HoursExact
  <2> QED
      BY <1>7, <2>1, <2>2 DEF Exact
<1>14. MinutesExact'
  <2>1. \A m : MinuteKey(m) \notin fit
      BY <1>10 DEF MinuteKey
  <2> QED
      BY <1>1, <1>7, <2>1 DEF BucketInv, MinutesExact
<1>15. TopsStored'
    BY <1>1, <1>7, <1>10 DEF BucketInv, TopsStored
<1>16. HoursQueued' /\ RestoreHolds'
    BY <1>1, <1>4 DEF BucketInv, HoursQueued, RestoreHolds
<1>17. BucketTypes'
  <2>1. TableOK(rows')
      BY <1>1, <1>2, <1>6, PutOK
  <2> QED
      BY <1>1, <1>4, <2>1 DEF BucketInv, BucketTypes
<1> QED
    BY <1>12, <1>13, <1>14, <1>15, <1>16, <1>17 DEF BucketInv

LEMMA InterruptKeeps == ASSUME BucketInv, InterruptRestore PROVE BucketInv'
<1>1. UNCHANGED <<values, rows, pruneBefore, restores, phantoms>> /\ restoring' = NULL
    BY DEF InterruptRestore
<1>2. RestoreHolds'
    BY <1>1 DEF RestoreHolds
<1> QED
    BY <1>1, <1>2, OnlyRestoring

(* The rollback of the buckets: minutes one after another, in any order.   *)

Rolled(base, S, vs) == FoldSet(LAMBDA m, at : Unbucketed(at, m, vs), base, S)

Rolls(base, vs, D, f) ==
    f = [s \in D |-> IF s = {} THEN base ELSE Unbucketed(f[s \ {Pick(s)}], Pick(s), vs)]
RollsBelow(base, vs, K, f) == Rolls(base, vs, SUBSET K, f)

LEMMA RolledDef ==
    ASSUME NEW base, NEW vs, NEW K
    PROVE  Rolled(base, K, vs) = (CHOOSE f : RollsBelow(base, vs, K, f))[K]
BY DEF Rolled, FoldSet, MapThenFoldSet, Rolls, RollsBelow, Pick

LEMMA RollsExist ==
    ASSUME NEW base, NEW vs, NEW K, IsFiniteSet(K)
    PROVE  \E f : RollsBelow(base, vs, K, f)
<1> DEFINE small(n) == {s \in SUBSET K : Cardinality(s) <= n}
           good == {n \in Nat : \E f : Rolls(base, vs, small(n), f)}
<1>1. \A s \in SUBSET K : IsFiniteSet(s) /\ Cardinality(s) \in Nat
    BY FS_Subset, FS_CardinalityType
<1>2. \A s \in SUBSET K : s # {} => /\ Pick(s) \in s
                                    /\ s \ {Pick(s)} \in SUBSET K
                                    /\ Cardinality(s \ {Pick(s)}) = Cardinality(s) - 1
    BY <1>1, FS_RemoveElement DEF Pick
<1>3. 0 \in good
  <2>1. \A s \in small(0) : s = {}
      BY <1>1, FS_EmptySet
  <2>2. Rolls(base, vs, small(0), [s \in small(0) |-> base])
      BY <2>1 DEF Rolls
  <2> QED
      BY <2>2
<1>4. ASSUME NEW n \in good PROVE n + 1 \in good
  <2>1. PICK f : Rolls(base, vs, small(n), f)
      BY <1>4
  <2> DEFINE at(s) == IF s = {} THEN base ELSE Unbucketed(f[s \ {Pick(s)}], Pick(s), vs)
             g == [s \in small(n + 1) |-> at(s)]
  <2>2. \A s \in small(n) : s \in small(n + 1)
      BY <1>1
  <2>3. \A s \in small(n + 1) : s # {} => s \ {Pick(s)} \in small(n)
      BY <1>1, <1>2
  <2> HIDE DEF small
  <2>4. \A s \in small(n) : f[s] = at(s) /\ g[s] = at(s)
      BY <2>1, <2>2 DEF Rolls
  <2>5. \A s \in small(n + 1) : s # {} => g[s \ {Pick(s)}] = f[s \ {Pick(s)}]
      BY <2>3, <2>4
  <2>6. Rolls(base, vs, small(n + 1), g)
      BY <2>5 DEF Rolls
  <2> QED
      BY <2>6
<1>5. good = Nat
  <2> HIDE DEF good
  <2>1. good \in SUBSET Nat
      BY DEF good
  <2> QED
      BY <1>3, <1>4, <2>1, NumberInduction
<1>6. \A s \in SUBSET K : Cardinality(s) <= Cardinality(K)
    BY FS_Subset
<1>7. small(Cardinality(K)) = SUBSET K
    BY <1>6
<1>8. Cardinality(K) \in good
    BY <1>1, <1>5
<1> QED
    BY <1>7, <1>8 DEF RollsBelow

LEMMA RollsAgree ==
    ASSUME NEW base, NEW vs, NEW K, IsFiniteSet(K), NEW L, K \subseteq L,
           NEW f, RollsBelow(base, vs, K, f), NEW g, RollsBelow(base, vs, L, g)
    PROVE  f[K] = g[K]
<1> DEFINE good == {s \in SUBSET K : f[s] = g[s]}
<1>1. \A s \in SUBSET K : s # {} => /\ f[s] = Unbucketed(f[s \ {Pick(s)}], Pick(s), vs)
                                    /\ g[s] = Unbucketed(g[s \ {Pick(s)}], Pick(s), vs)
                                    /\ Pick(s) \in s
    BY DEF Rolls, RollsBelow, Pick
<1>2. f[{}] = base /\ g[{}] = base
    BY DEF Rolls, RollsBelow
<1>3. \A s \in SUBSET K : s # {} /\ (\A x \in s : s \ {x} \in good) => s \in good
    BY <1>1
<1>4. {} \in good
    BY <1>2
<1>5. good = SUBSET K
  <2> HIDE DEF good
  <2>1. good \in SUBSET (SUBSET K)
      BY DEF good
  <2> QED
      BY <1>3, <1>4, <2>1, SubsetInduction
<1> QED
    BY <1>5

LEMMA RolledByPick ==
    ASSUME NEW base, NEW vs, NEW K, IsFiniteSet(K)
    PROVE  /\ K = {} => Rolled(base, K, vs) = base
           /\ K # {} => /\ Pick(K) \in K
                        /\ Rolled(base, K, vs) = Unbucketed(Rolled(base, K \ {Pick(K)}, vs), Pick(K), vs)
<1>1. PICK whole : RollsBelow(base, vs, K, whole) /\ Rolled(base, K, vs) = whole[K]
    BY RollsExist, RolledDef
<1>2. K \in SUBSET K /\ {} \in SUBSET K
    OBVIOUS
<1>3. K = {} => whole[K] = base
    BY <1>1, <1>2 DEF Rolls, RollsBelow
<1>4. ASSUME K # {}
      PROVE  /\ Pick(K) \in K
             /\ Rolled(base, K, vs) = Unbucketed(Rolled(base, K \ {Pick(K)}, vs), Pick(K), vs)
  <2> DEFINE J == K \ {Pick(K)}
  <2>1. Pick(K) \in K /\ IsFiniteSet(J) /\ J \subseteq K
      BY <1>4, FS_Subset DEF Pick
  <2>2. PICK rest : RollsBelow(base, vs, J, rest) /\ Rolled(base, J, vs) = rest[J]
      BY <2>1, RollsExist, RolledDef
  <2>3. whole[K] = Unbucketed(whole[J], Pick(K), vs)
      BY <1>1, <1>2, <1>4 DEF Rolls, RollsBelow
  <2> HIDE DEF J
  <2>4. rest[J] = whole[J]
    <3>1. \A f, g : RollsBelow(base, vs, J, f) /\ RollsBelow(base, vs, K, g) => f[J] = g[J]
        BY <2>1, RollsAgree
    <3> QED
        BY <1>1, <2>2, <3>1
  <2>5. Rolled(base, K, vs) = Unbucketed(Rolled(base, J, vs), Pick(K), vs)
      BY <1>1, <2>2, <2>3, <2>4
  <2> QED
      BY <2>1, <2>5 DEF J
<1> QED
    BY <1>1, <1>3, <1>4

\* What one minute of the rollback does to the rows.
LEMMA UnbucketedRows ==
    ASSUME NEW at, TableOK(at.rows), NEW vs, ValuesOK(vs), NEW m \in Nat, NEW k
    PROVE  LET after == Unbucketed(at, m, vs).rows
               mk == MinuteKey(m)
           IN  /\ TableOK(after)
               /\ Row(after, mk) = Total(EventsIn(mk, vs), vs)
               /\ mk \in DOMAIN after => EventsIn(mk, vs) # {}
               /\ k # mk /\ k \notin RollupsOf(m) =>
                      /\ Row(after, k) = Row(at.rows, k)
                      /\ k \in DOMAIN after <=> k \in DOMAIN at.rows
                      /\ k \in DOMAIN at.rows => after[k] = at.rows[k]
               /\ m < pruneBefore /\ k \in RollupsOf(m) => Exact(after, k, vs)
<1> DEFINE mk == MinuteKey(m)
           total == Total(EventsIn(mk, vs), vs)
           old == Row(at.rows, mk)
           delta == [events |-> total.events - old.events, sum |-> total.sum - old.sum, top |-> total.top]
           keys == RollupsOf(m)
           differs == total.events > 0 \/ mk \in DOMAIN at.rows
           base == PutAll(at.rows, TotalsOf({mk}, vs))
           moved == IF differs THEN MoveAll(base, keys, delta) ELSE at.rows
           after == IF m < pruneBefore THEN PutAll(moved, TotalsOf(keys, vs)) ELSE moved
<1>1. Unbucketed(at, m, vs).rows = after
    BY KeysOfMinute DEF Unbucketed
<1>2. total \in Totals /\ old \in Totals
      /\ (total.events <= 0 <=> EventsIn(mk, vs) = {}) /\ (EventsIn(mk, vs) = {} => total = NoTotal)
    BY EventsStored, TotalOfEvents, RowOK
<1>3. delta \in Totals
    BY <1>2 DEF Totals
<1>4. mk \notin keys
    BY KeysOfMinute
<1>5. /\ TableOK(base) /\ Row(base, mk) = total /\ (mk \in DOMAIN base <=> EventsIn(mk, vs) # {})
      /\ \A j : j # mk => /\ Row(base, j) = Row(at.rows, j)
                          /\ j \in DOMAIN base <=> j \in DOMAIN at.rows
                          /\ j \in DOMAIN at.rows => base[j] = at.rows[j]
    BY RowsSet
<1> HIDE DEF delta, keys, base
<1>6. /\ TableOK(moved) /\ Row(moved, mk) = total /\ (mk \in DOMAIN moved => EventsIn(mk, vs) # {})
      /\ \A j : j # mk /\ j \notin keys => /\ Row(moved, j) = Row(at.rows, j)
                                           /\ j \in DOMAIN moved <=> j \in DOMAIN at.rows
                                           /\ j \in DOMAIN at.rows => moved[j] = at.rows[j]
  <2>1. CASE differs
    <3>0. moved = MoveAll(base, keys, delta)
        BY <2>1
    <3>1. TableOK(MoveAll(base, keys, delta))
          /\ \A j : j \notin keys => /\ Row(MoveAll(base, keys, delta), j) = Row(base, j)
                                     /\ j \in DOMAIN MoveAll(base, keys, delta) <=> j \in DOMAIN base
                                     /\ j \in DOMAIN base => MoveAll(base, keys, delta)[j] = base[j]
        BY <1>3, <1>5, RowMoved
    <3> HIDE DEF moved, differs
    <3> QED
        BY <1>4, <1>5, <3>0, <3>1
  <2>2. CASE ~differs
    <3>1. moved = at.rows /\ mk \notin DOMAIN at.rows /\ ~(total.events > 0)
        BY <2>2
    <3>2. total = NoTotal
        BY <1>2, <3>1 DEF Totals
    <3> HIDE DEF moved, differs
    <3> QED
        BY <3>1, <3>2 DEF Row
  <2> QED
      BY <2>1, <2>2
<1> HIDE DEF moved
<1>7. /\ TableOK(after) /\ Row(after, mk) = total /\ (mk \in DOMAIN after => EventsIn(mk, vs) # {})
      /\ k # mk /\ k \notin keys => /\ Row(after, k) = Row(at.rows, k)
                                    /\ k \in DOMAIN after <=> k \in DOMAIN at.rows
                                    /\ k \in DOMAIN at.rows => after[k] = at.rows[k]
      /\ m < pruneBefore /\ k \in keys => Exact(after, k, vs)
  <2>1. CASE m < pruneBefore
    <3>1. after = PutAll(moved, TotalsOf(keys, vs))
        BY <2>1
    <3>2. /\ TableOK(after)
          /\ \A j : j \in keys => Row(after, j) = Total(EventsIn(j, vs), vs)
          /\ \A j : j \notin keys => /\ Row(after, j) = Row(moved, j)
                                     /\ j \in DOMAIN after <=> j \in DOMAIN moved
                                     /\ j \in DOMAIN moved => after[j] = moved[j]
        BY <1>6, <3>1, RowsSet
    <3> HIDE DEF after
    <3> QED
        BY <1>4, <1>6, <3>2 DEF Exact
  <2>2. CASE ~(m < pruneBefore)
      BY <1>6, <2>2
  <2> QED
      BY <2>1, <2>2
<1> QED
    BY <1>1, <1>7 DEF mk, keys, total

\* An unpruned minute moves its hour and its day by its difference.
LEMMA UnbucketedMoves ==
    ASSUME NEW at, TableOK(at.rows), NEW vs, ValuesOK(vs), NEW m \in Nat, ~(m < pruneBefore),
           MinuteKey(m) \in DOMAIN at.rows, NEW key \in RollupsOf(m), NEW ws, ValuesOK(ws),
           Row(at.rows, key).events + (Total(EventsIn(MinuteKey(m), vs), vs).events - Row(at.rows, MinuteKey(m)).events)
               = Total(EventsIn(key, ws), ws).events,
           Row(at.rows, key).sum + (Total(EventsIn(MinuteKey(m), vs), vs).sum - Row(at.rows, MinuteKey(m)).sum)
               = Total(EventsIn(key, ws), ws).sum
    PROVE  Exact(Unbucketed(at, m, vs).rows, key, ws)
<1> DEFINE mk == MinuteKey(m)
           total == Total(EventsIn(mk, vs), vs)
           old == Row(at.rows, mk)
           delta == [events |-> total.events - old.events, sum |-> total.sum - old.sum, top |-> total.top]
           keys == RollupsOf(m)
           base == PutAll(at.rows, TotalsOf({mk}, vs))
<1>1. Unbucketed(at, m, vs).rows = MoveAll(base, keys, delta)
    BY KeysOfMinute DEF Unbucketed
<1>2. total \in Totals /\ old \in Totals
    BY EventsStored, TotalOfEvents, RowOK
<1>3. delta \in Totals /\ delta.events = total.events - old.events /\ delta.sum = total.sum - old.sum
    BY <1>2 DEF Totals
<1>4. key # mk
    BY KeysOfMinute
<1>5. TableOK(base) /\ Row(base, key) = Row(at.rows, key)
    BY <1>4, RowsSet
<1> HIDE DEF delta, base
<1>6. Row(base, key).events + delta.events = Total(EventsIn(key, ws), ws).events
      /\ Row(base, key).sum + delta.sum = Total(EventsIn(key, ws), ws).sum
    BY <1>3, <1>5
<1>7. Exact(MoveAll(base, keys, delta), key, ws)
    BY <1>3, <1>5, <1>6, ExactMoved
<1> QED
    BY <1>1, <1>7

(* A rollback to an ancestor: what stays, and the minutes it goes through. *)

Kept(ancestor) == Restrict(values, {b \in DOMAIN values : b <= ancestor})

\* The events of the minutes in S cut at the ancestor, the others as stored.
KeptIn(S, ancestor) == Restrict(values, {b \in DOMAIN values : MinuteOf[b] \in S => b <= ancestor})

Above(ancestor) == {k[2] : k \in {j \in DOMAIN rows : j[1] = "minute" /\ rows[j].top > ancestor}}

Lost(ancestor) == DOMAIN values \ DOMAIN Kept(ancestor)

PrunedLosing(ancestor) == {m \in {MinuteOf[b] : b \in Lost(ancestor)} : m < pruneBefore}

LEMMA KeptValues ==
    ASSUME BucketInv, NEW ancestor \in Nat, NEW S
    PROVE  /\ ValuesOK(values) /\ ValuesOK(Kept(ancestor)) /\ ValuesOK(KeptIn(S, ancestor))
           /\ DOMAIN Kept(ancestor) = {b \in DOMAIN values : b <= ancestor}
           /\ DOMAIN KeptIn(S, ancestor) = {b \in DOMAIN values : MinuteOf[b] \in S => b <= ancestor}
           /\ \A b \in DOMAIN Kept(ancestor) : Kept(ancestor)[b] = values[b]
           /\ \A b \in DOMAIN KeptIn(S, ancestor) : KeptIn(S, ancestor)[b] = values[b]
           /\ \A b \in DOMAIN values : b \in Nat /\ MinuteOf[b] \in Nat
<1>1. ValuesOK(values)
    BY DEF BucketInv, BucketTypes
<1>2. /\ DOMAIN Kept(ancestor) = {b \in DOMAIN values : b <= ancestor}
      /\ \A b \in DOMAIN Kept(ancestor) : Kept(ancestor)[b] = values[b]
    BY DEF Kept, Restrict
<1>3. /\ DOMAIN KeptIn(S, ancestor) = {b \in DOMAIN values : MinuteOf[b] \in S => b <= ancestor}
      /\ \A b \in DOMAIN KeptIn(S, ancestor) : KeptIn(S, ancestor)[b] = values[b]
    BY DEF KeptIn, Restrict
<1>4. ValuesOK(Kept(ancestor)) /\ ValuesOK(KeptIn(S, ancestor))
    BY <1>1, <1>2, <1>3 DEF ValuesOK
<1>5. \A b \in DOMAIN values : b \in Nat /\ MinuteOf[b] \in Nat
    BY <1>1, BucketAssumption DEF ValuesOK
<1> QED
    BY <1>1, <1>2, <1>3, <1>4, <1>5

\* The minutes a rollback goes through are minutes of stored events, and an
\* event it takes away belongs to one of them.
LEMMA RolledMinutes ==
    ASSUME BucketInv, NEW ancestor \in Nat
    PROVE  /\ IsFiniteSet(Above(ancestor)) /\ Above(ancestor) \subseteq Nat
           /\ IsFiniteSet(PrunedLosing(ancestor)) /\ PrunedLosing(ancestor) \subseteq Nat
           /\ \A m \in Above(ancestor) : /\ MinuteKey(m) \in DOMAIN rows
                                         /\ m < pruneBefore => m \in PrunedLosing(ancestor)
           /\ \A b \in DOMAIN values : ~(b <= ancestor) =>
                  IF MinuteOf[b] < pruneBefore THEN MinuteOf[b] \in PrunedLosing(ancestor)
                  ELSE MinuteOf[b] \in Above(ancestor)
           /\ \A k \in DOMAIN rows : k[1] = "minute" /\ k[2] \notin Above(ancestor) =>
                  /\ rows[k].top <= ancestor
                  /\ k = MinuteKey(k[2])
<1>1. /\ DOMAIN Kept(ancestor) = {b \in DOMAIN values : b <= ancestor}
      /\ \A b \in DOMAIN values : b \in Nat /\ MinuteOf[b] \in Nat
      /\ ValuesOK(values)
    BY KeptValues
<1>2. Lost(ancestor) = {b \in DOMAIN values : ~(b <= ancestor)}
    BY <1>1 DEF Lost
<1>3. ASSUME NEW k \in DOMAIN rows, k[1] = "minute"
      PROVE  /\ rows[k].top \in EventsIn(k, values) /\ rows[k].top \in DOMAIN values /\ rows[k].top \in Nat
             /\ k = MinuteKey(k[2]) /\ k[2] = MinuteOf[rows[k].top]
  <2>1. rows[k].top \in EventsIn(k, values)
      BY <1>3 DEF BucketInv, TopsStored
  <2>2. k = MinuteKey(MinuteOf[rows[k].top])
      BY <1>3, <2>1, MinuteKeyed
  <2>3. rows[k].top \in DOMAIN values
      BY <2>1 DEF EventsIn
  <2>4. k[2] = MinuteOf[rows[k].top]
      BY <2>2 DEF MinuteKey
  <2> QED
      BY <1>1, <2>1, <2>2, <2>3, <2>4
<1>4. IsFiniteSet(Minutes)
  <2> DEFINE f == [b \in BucketBlocks |-> MinuteOf[b]]
  <2>1. f \in Surjection(BucketBlocks, Minutes)
      BY DEF Minutes, Surjection
  <2> QED
      BY <2>1, FS_Surjection, BucketAssumption
<1>5. Above(ancestor) \subseteq Minutes /\ PrunedLosing(ancestor) \subseteq Minutes
    BY <1>1, <1>2, <1>3 DEF Above, PrunedLosing, Minutes, ValuesOK
<1>6. IsFiniteSet(Above(ancestor)) /\ IsFiniteSet(PrunedLosing(ancestor)) /\ Minutes \subseteq Nat
    BY <1>4, <1>5, FS_Subset, BucketAssumption DEF Minutes
<1>7. ASSUME NEW m \in Above(ancestor)
      PROVE  MinuteKey(m) \in DOMAIN rows /\ (m < pruneBefore => m \in PrunedLosing(ancestor))
  <2>1. PICK k \in DOMAIN rows : k[1] = "minute" /\ rows[k].top > ancestor /\ m = k[2]
      BY DEF Above
  <2>2. rows[k].top \in DOMAIN values /\ rows[k].top \in Nat /\ k = MinuteKey(m) /\ m = MinuteOf[rows[k].top]
      BY <1>3, <2>1
  <2>3. rows[k].top \in Lost(ancestor)
      BY <1>2, <2>1, <2>2
  <2> QED
      BY <2>2, <2>3 DEF PrunedLosing
<1>8. ASSUME NEW b \in DOMAIN values, ~(b <= ancestor)
      PROVE  IF MinuteOf[b] < pruneBefore THEN MinuteOf[b] \in PrunedLosing(ancestor)
             ELSE MinuteOf[b] \in Above(ancestor)
  <2> DEFINE m == MinuteOf[b]
             k == MinuteKey(m)
             E == EventsIn(k, values)
  <2>1. b \in Lost(ancestor) /\ m \in Nat /\ b \in Nat
      BY <1>1, <1>2, <1>8
  <2>2. CASE m < pruneBefore
      BY <2>1, <2>2 DEF PrunedLosing
  <2>3. CASE ~(m < pruneBefore)
    <3>1. m >= pruneBefore
        BY <2>1, <2>3 DEF BucketInv, BucketTypes
    <3>2. Row(rows, k) = Total(E, values)
        BY <2>1, <3>1 DEF BucketInv, MinutesExact
    <3>3. b \in E /\ E \in SUBSET DOMAIN values
        BY EventsOfKey, EventsStored
    <3> HIDE DEF E
    <3>4. Total(E, values).top = Max(E) /\ b <= Max(E) /\ Max(E) \in E /\ E \in SUBSET Nat
          /\ ~(Total(E, values).events <= 0)
        BY <1>1, <3>3, TotalOfEvents, HighestOf
    <3>5. k \in DOMAIN rows
        BY <3>2, <3>4 DEF Row, NoTotal
    <3>6. rows[k].top > ancestor
      <4>1. rows[k].top = Max(E)
          BY <3>2, <3>4, <3>5, Zenon DEF Row
      <4>2. Max(E) \in Nat /\ b <= Max(E)
          BY <3>4
      <4>3. Max(E) > ancestor
          BY <1>8, <2>1, <4>2
      <4> HIDE DEF k
      <4> QED
          BY <4>1, <4>3
    <3>7. k[1] = "minute" /\ k[2] = m
        BY DEF MinuteKey
    <3> HIDE DEF k
    <3>8. m \in Above(ancestor)
        BY <3>5, <3>6, <3>7 DEF Above
    <3> QED
        BY <2>3, <3>8
  <2> QED
      BY <2>2, <2>3
<1>9. \A k \in DOMAIN rows : k[1] = "minute" /\ k[2] \notin Above(ancestor) =>
          rows[k].top <= ancestor /\ k = MinuteKey(k[2])
    BY <1>3 DEF Above
<1> QED
    BY <1>5, <1>6, <1>7, <1>8, <1>9

\* The events of keys when one more minute is cut.
LEMMA CutOneMore ==
    ASSUME BucketInv, NEW ancestor \in Nat, NEW S, NEW m \in Nat, m \notin S
    PROVE  LET before == KeptIn(S, ancestor)
               after == KeptIn(S \cup {m}, ancestor)
               mk == MinuteKey(m)
           IN  /\ OnlyMinute(before, after, m)
               /\ Total(EventsIn(mk, before), before) = Total(EventsIn(mk, values), values)
               /\ Total(EventsIn(mk, after), after) = Total(EventsIn(mk, Kept(ancestor)), Kept(ancestor))
<1> DEFINE before == KeptIn(S, ancestor)
           after == KeptIn(S \cup {m}, ancestor)
           stays == Kept(ancestor)
           mk == MinuteKey(m)
<1>1. /\ ValuesOK(values) /\ ValuesOK(stays) /\ ValuesOK(before) /\ ValuesOK(after)
      /\ DOMAIN stays = {b \in DOMAIN values : b <= ancestor}
      /\ DOMAIN before = {b \in DOMAIN values : MinuteOf[b] \in S => b <= ancestor}
      /\ DOMAIN after = {b \in DOMAIN values : MinuteOf[b] \in S \cup {m} => b <= ancestor}
      /\ \A b \in DOMAIN stays : stays[b] = values[b]
      /\ \A b \in DOMAIN before : before[b] = values[b]
      /\ \A b \in DOMAIN after : after[b] = values[b]
    BY KeptValues
<1> HIDE DEF before, after, stays
<1>2. OnlyMinute(before, after, m)
  <2> SUFFICES ASSUME NEW b \in BucketBlocks, MinuteOf[b] # m
               PROVE  (b \in DOMAIN before <=> b \in DOMAIN after) /\ (b \in DOMAIN before => before[b] = after[b])
      BY DEF OnlyMinute
  <2> QED
      BY <1>1
<1>3. EventsIn(mk, before) = EventsIn(mk, values) /\ \A b \in EventsIn(mk, before) : before[b] = values[b]
  <2>1. EventsIn(mk, before) = {b \in DOMAIN before : MinuteOf[b] = m}
        /\ EventsIn(mk, values) = {b \in DOMAIN values : MinuteOf[b] = m}
      BY EventsOfKey
  <2> QED
      BY <1>1, <2>1
<1>4. EventsIn(mk, after) = EventsIn(mk, stays) /\ \A b \in EventsIn(mk, after) : after[b] = stays[b]
  <2>1. EventsIn(mk, after) = {b \in DOMAIN after : MinuteOf[b] = m}
        /\ EventsIn(mk, stays) = {b \in DOMAIN stays : MinuteOf[b] = m}
      BY EventsOfKey
  <2> QED
      BY <1>1, <2>1
<1>5. Total(EventsIn(mk, before), before) = Total(EventsIn(mk, values), values)
    BY <1>1, <1>3, TotalSame
<1>6. Total(EventsIn(mk, after), after) = Total(EventsIn(mk, stays), stays)
    BY <1>1, <1>4, TotalSame
<1> QED
    BY <1>2, <1>5, <1>6 DEF before, after, stays

\* The rows after the minutes in S of those with a row above the ancestor.
AboveDone(S, ancestor, at) ==
    /\ TableOK(at.rows)
    /\ \A m \in S : Row(at.rows, MinuteKey(m)) =
                        Total(EventsIn(MinuteKey(m), Kept(ancestor)), Kept(ancestor))
    /\ \A m \in S : MinuteKey(m) \in DOMAIN at.rows => EventsIn(MinuteKey(m), Kept(ancestor)) # {}
    /\ \A k : k[1] = "minute" /\ (\A m \in S : k # MinuteKey(m)) =>
           /\ Row(at.rows, k) = Row(rows, k)
           /\ k \in DOMAIN at.rows <=> k \in DOMAIN rows
           /\ k \in DOMAIN rows => at.rows[k] = rows[k]
    /\ \A h \in Nat : h * MinutesPerHour >= pruneBefore =>
           Exact(at.rows, HourKey(h), KeptIn(S, ancestor))
    /\ \A d \in Nat : /\ DayKey(d) \notin DOMAIN restores \cup phantoms
                      /\ \A m \in S : m < pruneBefore => DayOf(m) # d
                      => Exact(at.rows, DayKey(d), KeptIn(S, ancestor))

LEMMA AboveStep ==
    ASSUME BucketInv, NEW ancestor \in Nat, NEW S \in SUBSET Above(ancestor),
           NEW m \in Above(ancestor) \ S, NEW at, AboveDone(S, ancestor, at)
    PROVE  AboveDone(S \cup {m}, ancestor, Unbucketed(at, m, Kept(ancestor)))
<1> DEFINE T == S \cup {m}
           before == KeptIn(S, ancestor)
           after == KeptIn(T, ancestor)
           stays == Kept(ancestor)
           mk == MinuteKey(m)
           next == Unbucketed(at, m, stays)
<1>1. m \in Nat /\ S \subseteq Nat /\ mk \in DOMAIN rows
    BY RolledMinutes
<1>2. ValuesOK(values) /\ ValuesOK(stays) /\ ValuesOK(before) /\ ValuesOK(after) /\ pruneBefore \in Nat
    BY KeptValues DEF BucketInv, BucketTypes
<1>3. /\ OnlyMinute(before, after, m)
      /\ Total(EventsIn(mk, before), before) = Total(EventsIn(mk, values), values)
      /\ Total(EventsIn(mk, after), after) = Total(EventsIn(mk, stays), stays)
    BY <1>1, CutOneMore
<1>4. TableOK(at.rows)
    BY DEF AboveDone
<1>5. mk[1] = "minute" /\ \A n \in S : mk # MinuteKey(n)
    BY DistinctKeys DEF MinuteKey
<1>6. mk \in DOMAIN at.rows /\ Row(at.rows, mk) = Row(rows, mk)
    BY <1>1, <1>5 DEF AboveDone
<1> HIDE DEF before, after, stays, T
<1>7. /\ TableOK(next.rows) /\ Row(next.rows, mk) = Total(EventsIn(mk, stays), stays)
      /\ mk \in DOMAIN next.rows => EventsIn(mk, stays) # {}
      /\ \A k : /\ k # mk /\ k \notin RollupsOf(m) =>
                       /\ Row(next.rows, k) = Row(at.rows, k)
                       /\ k \in DOMAIN next.rows <=> k \in DOMAIN at.rows
                       /\ k \in DOMAIN at.rows => next.rows[k] = at.rows[k]
                /\ m < pruneBefore /\ k \in RollupsOf(m) => Exact(next.rows, k, stays)
    BY <1>1, <1>2, <1>4, UnbucketedRows
<1>8. ASSUME ~(m < pruneBefore), NEW key \in RollupsOf(m), Exact(at.rows, key, before)
      PROVE  Exact(next.rows, key, after)
  <2> DEFINE old == Total(EventsIn(mk, values), values)
             new == Total(EventsIn(mk, stays), stays)
  <2>1. Row(at.rows, mk) = old
      BY <1>1, <1>2, <1>6, <1>8 DEF BucketInv, MinutesExact
  <2>2. /\ Total(EventsIn(key, after), after).events =
                Total(EventsIn(key, before), before).events + (new.events - old.events)
        /\ Total(EventsIn(key, after), after).sum =
                Total(EventsIn(key, before), before).sum + (new.sum - old.sum)
      BY <1>1, <1>2, <1>3, OwnKeysMove
  <2> HIDE DEF old, new
  <2>3. /\ Row(at.rows, key).events + (new.events - Row(at.rows, mk).events)
               = Total(EventsIn(key, after), after).events
        /\ Row(at.rows, key).sum + (new.sum - Row(at.rows, mk).sum)
               = Total(EventsIn(key, after), after).sum
      BY <1>8, <2>1, <2>2 DEF Exact
  <2> QED
      BY <1>1, <1>2, <1>4, <1>6, <1>8, <2>3, UnbucketedMoves DEF new
<1>9. ASSUME NEW key, key # mk, key \notin RollupsOf(m), Exact(at.rows, key, before),
             Total(EventsIn(key, before), before) = Total(EventsIn(key, after), after)
      PROVE  Exact(next.rows, key, after)
    BY <1>7, <1>9 DEF Exact
<1>10. ASSUME NEW h \in Nat, h * MinutesPerHour >= pruneBefore PROVE Exact(next.rows, HourKey(h), after)
  <2>1. Exact(at.rows, HourKey(h), before)
      BY <1>10 DEF AboveDone, before
  <2>2. CASE h = HourOf(m)
    <3>1. ~(m < pruneBefore)
        BY <1>1, <1>2, <1>10, <2>2, HourOfMinute
    <3>2. HourKey(h) \in RollupsOf(m)
        BY <2>2, KeysOfMinute
    <3> QED
        BY <1>8, <2>1, <3>1, <3>2
  <2>3. CASE h # HourOf(m)
    <3>1. HourKey(h) # mk /\ HourKey(h) # HourKey(HourOf(m)) /\ HourKey(h) # DayKey(DayOf(m))
        BY <2>3, DistinctKeys
    <3>2. HourKey(h) \notin RollupsOf(m)
        BY <3>1, KeysOfMinute
    <3>3. Total(EventsIn(HourKey(h), before), before) = Total(EventsIn(HourKey(h), after), after)
        BY <1>1, <1>2, <1>3, <2>3, OtherKeysSame
    <3> QED
        BY <1>9, <2>1, <3>1, <3>2, <3>3
  <2> QED
      BY <2>2, <2>3
<1>11. ASSUME NEW d \in Nat, DayKey(d) \notin DOMAIN restores \cup phantoms,
              \A n \in T : n < pruneBefore => DayOf(n) # d
       PROVE  Exact(next.rows, DayKey(d), after)
  <2>1. Exact(at.rows, DayKey(d), before)
      BY <1>11 DEF AboveDone, before, T
  <2>2. CASE d = DayOf(m)
    <3>1. ~(m < pruneBefore)
        BY <1>11, <2>2 DEF T
    <3>2. DayKey(d) \in RollupsOf(m)
        BY <2>2, KeysOfMinute
    <3> QED
        BY <1>8, <2>1, <3>1, <3>2
  <2>3. CASE d # DayOf(m)
    <3>1. DayKey(d) # mk /\ DayKey(d) # HourKey(HourOf(m)) /\ DayKey(d) # DayKey(DayOf(m))
        BY <2>3, DistinctKeys
    <3>2. DayKey(d) \notin RollupsOf(m)
        BY <3>1, KeysOfMinute
    <3>3. Total(EventsIn(DayKey(d), before), before) = Total(EventsIn(DayKey(d), after), after)
        BY <1>1, <1>2, <1>3, <2>3, OtherKeysSame
    <3> QED
        BY <1>9, <2>1, <3>1, <3>2, <3>3
  <2> QED
      BY <2>2, <2>3
<1>12. ASSUME NEW n \in T
       PROVE  /\ Row(next.rows, MinuteKey(n)) = Total(EventsIn(MinuteKey(n), stays), stays)
              /\ MinuteKey(n) \in DOMAIN next.rows => EventsIn(MinuteKey(n), stays) # {}
  <2>1. CASE n = m
      BY <1>7, <2>1
  <2>2. CASE n # m
    <3>1. n \in S /\ MinuteKey(n) # mk /\ MinuteKey(n) \notin RollupsOf(m)
      <4>1. MinuteKey(n) # mk /\ MinuteKey(n) # HourKey(HourOf(m)) /\ MinuteKey(n) # DayKey(DayOf(m))
          BY <2>2, DistinctKeys
      <4> QED
          BY <2>2, <4>1, KeysOfMinute DEF T
    <3>2. /\ Row(at.rows, MinuteKey(n)) = Total(EventsIn(MinuteKey(n), stays), stays)
          /\ MinuteKey(n) \in DOMAIN at.rows => EventsIn(MinuteKey(n), stays) # {}
        BY <3>1 DEF AboveDone, stays
    <3> QED
        BY <1>7, <3>1, <3>2
  <2> QED
      BY <2>1, <2>2
<1>13. ASSUME NEW k, k[1] = "minute", \A n \in T : k # MinuteKey(n)
       PROVE  /\ Row(next.rows, k) = Row(rows, k)
              /\ k \in DOMAIN next.rows <=> k \in DOMAIN rows
              /\ k \in DOMAIN rows => next.rows[k] = rows[k]
  <2>1. k # mk /\ \A n \in S : k # MinuteKey(n)
      BY <1>13 DEF T
  <2>2. k \notin RollupsOf(m)
      BY <1>13, KeysOfMinute DEF HourKey, DayKey
  <2>3. /\ Row(at.rows, k) = Row(rows, k)
        /\ k \in DOMAIN at.rows <=> k \in DOMAIN rows
        /\ k \in DOMAIN rows => at.rows[k] = rows[k]
      BY <1>13, <2>1 DEF AboveDone
  <2> QED
      BY <1>7, <2>1, <2>2, <2>3
<1>14. AboveDone(T, ancestor, next)
  <2> HIDE DEF next
  <2> QED
      BY <1>7, <1>10, <1>11, <1>12, <1>13 DEF AboveDone, stays, after
<1> QED
    BY <1>14 DEF T, stays

LEMMA AboveRolled ==
    ASSUME BucketInv, NEW ancestor \in Nat
    PROVE  AboveDone(Above(ancestor), ancestor,
                     Rolled([rows |-> rows, written |-> {}], Above(ancestor), Kept(ancestor)))
<1> DEFINE base == [rows |-> rows, written |-> {}]
           A == Above(ancestor)
           good == {s \in SUBSET A : AboveDone(s, ancestor, Rolled(base, s, Kept(ancestor)))}
<1>1. IsFiniteSet(A)
    BY RolledMinutes
<1>2. {} \in good
  <2>1. Rolled(base, {}, Kept(ancestor)) = base
      BY RolledByPick, FS_EmptySet
  <2>2. base.rows = rows /\ TableOK(rows)
      BY DEF BucketInv, BucketTypes
  <2>3. \A key : Total(EventsIn(key, KeptIn({}, ancestor)), KeptIn({}, ancestor)) = Total(EventsIn(key, values), values)
    <3> DEFINE same == KeptIn({}, ancestor)
    <3>1. ValuesOK(values) /\ ValuesOK(same) /\ DOMAIN same = DOMAIN values /\ \A b \in DOMAIN same : same[b] = values[b]
      <4>1. /\ ValuesOK(values) /\ ValuesOK(same)
            /\ DOMAIN same = {b \in DOMAIN values : MinuteOf[b] \in {} => b <= ancestor}
            /\ \A b \in DOMAIN same : same[b] = values[b]
          BY KeptValues
      <4> HIDE DEF same
      <4>2. DOMAIN same = DOMAIN values
          BY <4>1
      <4> QED
          BY <4>1, <4>2
    <3> HIDE DEF same
    <3>2. ASSUME NEW key
          PROVE  Total(EventsIn(key, same), same) = Total(EventsIn(key, values), values)
      <4>1. EventsIn(key, same) = EventsIn(key, values) /\ \A b \in EventsIn(key, same) : same[b] = values[b]
          BY <3>1 DEF EventsIn
      <4> QED
          BY <3>1, <4>1, TotalSame
    <3>3. \A key : Total(EventsIn(key, same), same) = Total(EventsIn(key, values), values)
        BY <3>2
    <3> QED
        BY <3>3 DEF same
  <2>4. \A key : Exact(rows, key, values) => Exact(rows, key, KeptIn({}, ancestor))
      BY <2>3 DEF Exact
  <2> HIDE DEF base
  <2>5. AboveDone({}, ancestor, base)
      BY <2>2, <2>4 DEF AboveDone, BucketInv, HoursExact, DaysExact
  <2> QED
      BY <2>1, <2>5
<1>3. ASSUME NEW s \in SUBSET A, s # {}, \A x \in s : s \ {x} \in good PROVE s \in good
  <2> DEFINE m == Pick(s)
             t == s \ {m}
  <2>1. IsFiniteSet(s)
      BY <1>1, FS_Subset
  <2>2. m \in s /\ Rolled(base, s, Kept(ancestor)) = Unbucketed(Rolled(base, t, Kept(ancestor)), m, Kept(ancestor))
      BY <1>3, <2>1, RolledByPick
  <2>3. t \in good
      BY <1>3, <2>2
  <2>4. AboveDone(t, ancestor, Rolled(base, t, Kept(ancestor)))
      BY <2>3
  <2>5. t \in SUBSET A /\ m \in A \ t /\ t \cup {m} = s
      BY <2>2
  <2> HIDE DEF base, m, t, A
  <2>6. AboveDone(t \cup {m}, ancestor, Unbucketed(Rolled(base, t, Kept(ancestor)), m, Kept(ancestor)))
      BY <2>4, <2>5, AboveStep DEF A
  <2> QED
      BY <2>2, <2>5, <2>6
<1>4. good = SUBSET A
  <2> HIDE DEF good
  <2>1. good \in SUBSET (SUBSET A)
      BY DEF good
  <2> QED
      BY <1>1, <1>2, <1>3, <2>1, SubsetInduction
<1> QED
    BY <1>4

\* The rows after the minutes in S of the pruned ones, from those first had.
PrunedDone(S, ancestor, first, at) ==
    /\ TableOK(at.rows)
    /\ \A m \in S : MinuteKey(m) \in DOMAIN at.rows =>
           /\ at.rows[MinuteKey(m)] = Total(EventsIn(MinuteKey(m), Kept(ancestor)), Kept(ancestor))
           /\ EventsIn(MinuteKey(m), Kept(ancestor)) # {}
    /\ \A k : k[1] = "minute" /\ (\A m \in S : k # MinuteKey(m)) =>
           /\ Row(at.rows, k) = Row(first, k)
           /\ k \in DOMAIN at.rows <=> k \in DOMAIN first
           /\ k \in DOMAIN first => at.rows[k] = first[k]
    /\ \A k : (\E m \in S : k \in RollupsOf(m)) => Exact(at.rows, k, Kept(ancestor))
    /\ \A k : k[1] # "minute" /\ (\A m \in S : k \notin RollupsOf(m)) => Row(at.rows, k) = Row(first, k)

LEMMA PrunedStep ==
    ASSUME BucketInv, NEW ancestor \in Nat, NEW S \in SUBSET PrunedLosing(ancestor),
           NEW m \in PrunedLosing(ancestor) \ S, NEW first, NEW at, PrunedDone(S, ancestor, first, at)
    PROVE  PrunedDone(S \cup {m}, ancestor, first, Unbucketed(at, m, Kept(ancestor)))
<1> DEFINE T == S \cup {m}
           stays == Kept(ancestor)
           mk == MinuteKey(m)
           next == Unbucketed(at, m, stays)
<1>1. m \in Nat /\ S \subseteq Nat /\ m < pruneBefore
    BY RolledMinutes DEF PrunedLosing
<1>2. ValuesOK(stays) /\ TableOK(at.rows)
    BY KeptValues DEF PrunedDone
<1> HIDE DEF stays, T
<1>3. /\ TableOK(next.rows) /\ Row(next.rows, mk) = Total(EventsIn(mk, stays), stays)
      /\ mk \in DOMAIN next.rows => EventsIn(mk, stays) # {}
      /\ \A k : /\ k # mk /\ k \notin RollupsOf(m) =>
                       /\ Row(next.rows, k) = Row(at.rows, k)
                       /\ k \in DOMAIN next.rows <=> k \in DOMAIN at.rows
                       /\ k \in DOMAIN at.rows => next.rows[k] = at.rows[k]
                /\ k \in RollupsOf(m) => Exact(next.rows, k, stays)
    BY <1>1, <1>2, UnbucketedRows
<1> HIDE DEF next
<1>4. \A k : k[1] = "minute" => k \notin RollupsOf(m)
    BY KeysOfMinute DEF HourKey, DayKey
<1>5. mk[1] = "minute" /\ \A n : MinuteKey(n) = mk => n = m
    BY DistinctKeys DEF MinuteKey
<1>6. ASSUME NEW n \in T, MinuteKey(n) \in DOMAIN next.rows
      PROVE  /\ next.rows[MinuteKey(n)] = Total(EventsIn(MinuteKey(n), stays), stays)
             /\ EventsIn(MinuteKey(n), stays) # {}
  <2>1. CASE n = m
      BY <1>3, <1>6, <2>1 DEF Row
  <2>2. CASE n # m
    <3>1. n \in S /\ MinuteKey(n) # mk /\ MinuteKey(n) \notin RollupsOf(m)
        BY <1>4, <1>5, <2>2 DEF T, MinuteKey
    <3>2. MinuteKey(n) \in DOMAIN at.rows /\ next.rows[MinuteKey(n)] = at.rows[MinuteKey(n)]
        BY <1>3, <1>6, <3>1
    <3>3. /\ at.rows[MinuteKey(n)] = Total(EventsIn(MinuteKey(n), stays), stays)
          /\ EventsIn(MinuteKey(n), stays) # {}
        BY <3>1, <3>2 DEF PrunedDone, stays
    <3> QED
        BY <3>2, <3>3
  <2> QED
      BY <2>1, <2>2
<1>7. ASSUME NEW k, k[1] = "minute", \A n \in T : k # MinuteKey(n)
      PROVE  /\ Row(next.rows, k) = Row(first, k)
             /\ k \in DOMAIN next.rows <=> k \in DOMAIN first
             /\ k \in DOMAIN first => next.rows[k] = first[k]
  <2>1. k # mk /\ (\A n \in S : k # MinuteKey(n)) /\ k \notin RollupsOf(m)
      BY <1>4, <1>7 DEF T
  <2>2. /\ Row(at.rows, k) = Row(first, k)
        /\ k \in DOMAIN at.rows <=> k \in DOMAIN first
        /\ k \in DOMAIN first => at.rows[k] = first[k]
      BY <1>7, <2>1 DEF PrunedDone
  <2> QED
      BY <1>3, <2>1, <2>2
<1>8. ASSUME NEW k, NEW n \in T, k \in RollupsOf(n) PROVE Exact(next.rows, k, stays)
  <2>1. CASE k \in RollupsOf(m)
      BY <1>3, <2>1
  <2>2. CASE k \notin RollupsOf(m)
    <3>1. n \in S /\ k # mk
        BY <1>8, <2>2, KeysOfMinute, DistinctKeys DEF T
    <3>2. Exact(at.rows, k, stays)
        BY <1>8, <3>1 DEF PrunedDone, stays
    <3> QED
        BY <1>3, <2>2, <3>1, <3>2 DEF Exact
  <2> QED
      BY <2>1, <2>2
<1>9. ASSUME NEW k, k[1] # "minute", \A n \in T : k \notin RollupsOf(n) PROVE Row(next.rows, k) = Row(first, k)
  <2>1. k # mk /\ k \notin RollupsOf(m) /\ \A n \in S : k \notin RollupsOf(n)
      BY <1>5, <1>9 DEF T
  <2>2. Row(at.rows, k) = Row(first, k)
      BY <1>9, <2>1 DEF PrunedDone
  <2> QED
      BY <1>3, <2>1, <2>2
<1>10. PrunedDone(T, ancestor, first, next)
    BY <1>3, <1>6, <1>7, <1>8, <1>9 DEF PrunedDone, stays
<1> QED
    BY <1>10 DEF T, next, stays

LEMMA PrunedRolled ==
    ASSUME BucketInv, NEW ancestor \in Nat, NEW base, TableOK(base.rows)
    PROVE  PrunedDone(PrunedLosing(ancestor), ancestor, base.rows,
                      Rolled(base, PrunedLosing(ancestor), Kept(ancestor)))
<1> DEFINE A == PrunedLosing(ancestor)
           good == {s \in SUBSET A : PrunedDone(s, ancestor, base.rows, Rolled(base, s, Kept(ancestor)))}
<1>1. IsFiniteSet(A)
    BY RolledMinutes
<1>2. {} \in good
  <2>1. Rolled(base, {}, Kept(ancestor)) = base
      BY RolledByPick, FS_EmptySet
  <2>2. PrunedDone({}, ancestor, base.rows, base)
      BY DEF PrunedDone
  <2> QED
      BY <2>1, <2>2
<1>3. ASSUME NEW s \in SUBSET A, s # {}, \A x \in s : s \ {x} \in good PROVE s \in good
  <2> DEFINE m == Pick(s)
             t == s \ {m}
  <2>1. IsFiniteSet(s)
      BY <1>1, FS_Subset
  <2>2. m \in s /\ Rolled(base, s, Kept(ancestor)) = Unbucketed(Rolled(base, t, Kept(ancestor)), m, Kept(ancestor))
      BY <1>3, <2>1, RolledByPick
  <2>3. t \in good
      BY <1>3, <2>2
  <2>4. PrunedDone(t, ancestor, base.rows, Rolled(base, t, Kept(ancestor)))
      BY <2>3
  <2>5. t \in SUBSET A /\ m \in A \ t /\ t \cup {m} = s
      BY <2>2
  <2> HIDE DEF m, t, A
  <2>6. PrunedDone(t \cup {m}, ancestor, base.rows,
                   Unbucketed(Rolled(base, t, Kept(ancestor)), m, Kept(ancestor)))
      BY <2>4, <2>5, PrunedStep DEF A
  <2> QED
      BY <2>2, <2>5, <2>6
<1>4. good = SUBSET A
  <2> HIDE DEF good
  <2>1. good \in SUBSET (SUBSET A)
      BY DEF good
  <2> QED
      BY <1>1, <1>2, <1>3, <2>1, SubsetInduction
<1> QED
    BY <1>4

LEMMA RollbackKeeps ==
    ASSUME BucketInv, NEW ancestor \in Nat, RollbackBuckets(ancestor)
    PROVE  BucketInv'
<1> DEFINE stays == Kept(ancestor)
           A == Above(ancestor)
           P == PrunedLosing(ancestor)
           first == Rolled([rows |-> rows, written |-> {}], A, stays)
           end == Rolled(first, P, stays)
           cut == KeptIn(A, ancestor)
<1>1. /\ values' = stays /\ rows' = end.rows /\ restores' = Touched(restores, end.written)
      /\ missed' = IF restoring = NULL THEN {}
                    ELSE missed \cup ({KeyOf("day", MinuteOf[b]) : b \in Lost(ancestor)} \ end.written)
      /\ pruneBefore' = pruneBefore /\ restoring' = restoring /\ phantoms' = phantoms
    BY Zenon DEF RollbackBuckets, Kept, Lost, Above, PrunedLosing, Rolled
<1>2. /\ ValuesOK(values) /\ ValuesOK(stays) /\ ValuesOK(cut)
      /\ DOMAIN stays = {b \in DOMAIN values : b <= ancestor}
      /\ DOMAIN cut = {b \in DOMAIN values : MinuteOf[b] \in A => b <= ancestor}
      /\ \A b \in DOMAIN stays : stays[b] = values[b]
      /\ \A b \in DOMAIN cut : cut[b] = values[b]
      /\ \A b \in DOMAIN values : b \in Nat /\ MinuteOf[b] \in Nat
    BY KeptValues
<1>3. AboveDone(A, ancestor, first)
    BY AboveRolled
<1>4. PrunedDone(P, ancestor, first.rows, end)
  <2>1. TableOK(first.rows)
      BY <1>3 DEF AboveDone
  <2> QED
      BY <2>1, PrunedRolled
<1>5. /\ A \subseteq Nat /\ P \subseteq Nat /\ pruneBefore \in Nat
      /\ \A m \in P : m < pruneBefore
      /\ \A m \in A : m < pruneBefore => m \in P
      /\ \A b \in DOMAIN values : ~(b <= ancestor) =>
             IF MinuteOf[b] < pruneBefore THEN MinuteOf[b] \in P ELSE MinuteOf[b] \in A
      /\ \A k \in DOMAIN rows : k[1] = "minute" /\ k[2] \notin A => rows[k].top <= ancestor /\ k = MinuteKey(k[2])
    BY RolledMinutes DEF BucketInv, BucketTypes, PrunedLosing
<1>6. Lost(ancestor) = {b \in DOMAIN values : ~(b <= ancestor)}
    BY <1>2 DEF Lost
<1> HIDE DEF stays, A, P, first, end, cut
<1>7. MinutesExact'
  <2> SUFFICES ASSUME NEW m \in Nat, m >= pruneBefore
               PROVE  Row(rows', MinuteKey(m)) = Total(EventsIn(MinuteKey(m), stays), stays)
      BY <1>1 DEF MinutesExact
  <2> DEFINE k == MinuteKey(m)
  <2>1. k[1] = "minute" /\ k[2] = m
      BY DEF MinuteKey
  <2>2. \A n \in P : k # MinuteKey(n)
      BY <1>5, DistinctKeys
  <2>3. Row(rows', k) = Row(first.rows, k)
      BY <1>1, <1>4, <2>1, <2>2 DEF PrunedDone
  <2>4. CASE m \in A
      BY <1>3, <2>3, <2>4 DEF AboveDone, stays
  <2>5. CASE m \notin A
    <3>1. \A n \in A : k # MinuteKey(n)
        BY <2>5, DistinctKeys
    <3>2. Row(first.rows, k) = Row(rows, k)
        BY <1>3, <2>1, <3>1 DEF AboveDone
    <3>3. Row(rows, k) = Total(EventsIn(k, values), values)
        BY DEF BucketInv, MinutesExact
    <3> DEFINE E == EventsIn(k, values)
    <3>4. \A b \in E : b <= ancestor
      <4>1. CASE E = {}
          BY <4>1
      <4>2. CASE E # {}
        <5>1. E \in SUBSET DOMAIN values
            BY EventsStored
        <5> HIDE DEF E
        <5>2. Total(E, values).top = Max(E) /\ (\A b \in E : b <= Max(E)) /\ Max(E) \in E /\ E \in SUBSET Nat
              /\ ~(Total(E, values).events <= 0)
            BY <1>2, <4>2, <5>1, TotalOfEvents, HighestOf
        <5>3. k \in DOMAIN rows
            BY <3>3, <5>2 DEF Row, NoTotal, E
        <5>4. rows[k].top <= ancestor
            BY <1>5, <2>1, <2>5, <5>3
        <5>5. rows[k].top = Max(E)
          <6>1. Row(rows, k) = Total(E, values)
              BY <3>3 DEF E
          <6>2. Row(rows, k) = rows[k]
              BY <5>3 DEF Row
          <6> QED
              BY <5>2, <6>1, <6>2
        <5>6. Max(E) \in Nat /\ Max(E) <= ancestor
            BY <5>2, <5>4, <5>5
        <5>7. ASSUME NEW b \in E PROVE b <= ancestor
          <6>1. b \in Nat /\ b <= Max(E)
              BY <5>2
          <6> QED
              BY <5>6, <6>1
        <5> QED
            BY <5>7
      <4> QED
          BY <4>1, <4>2
    <3>5. EventsIn(k, values) = EventsIn(k, stays) /\ \A b \in EventsIn(k, values) : values[b] = stays[b]
      <4>1. EventsIn(k, values) = {b \in DOMAIN values : MinuteOf[b] = m}
            /\ EventsIn(k, stays) = {b \in DOMAIN stays : MinuteOf[b] = m}
          BY EventsOfKey
      <4> QED
          BY <1>2, <3>4, <4>1
    <3>6. Total(EventsIn(k, values), values) = Total(EventsIn(k, stays), stays)
        BY <1>2, <3>5, TotalSame
    <3> QED
        BY <2>3, <3>2, <3>3, <3>6
  <2> QED
      BY <2>4, <2>5
<1>8. TopsStored'
  <2> SUFFICES ASSUME NEW k \in DOMAIN rows', k[1] = "minute" PROVE rows'[k].top \in EventsIn(k, stays)
      BY <1>1 DEF TopsStored
  <2>1. ASSUME EventsIn(k, stays) # {}
        PROVE  Total(EventsIn(k, stays), stays).top \in EventsIn(k, stays)
    <3> DEFINE E == EventsIn(k, stays)
    <3>1. E \in SUBSET DOMAIN stays /\ E # {}
        BY <2>1, EventsStored
    <3> HIDE DEF E
    <3>2. Total(E, stays).top \in E
        BY <1>2, <3>1, TotalOfEvents, HighestOf
    <3> QED
        BY <3>2 DEF E
  <2>2. CASE \E m \in P : k = MinuteKey(m)
    <3>1. PICK m \in P : k = MinuteKey(m)
        BY <2>2
    <3>2. rows'[k] = Total(EventsIn(k, stays), stays) /\ EventsIn(k, stays) # {}
        BY <1>1, <1>4, <3>1 DEF PrunedDone, stays
    <3> QED
        BY <2>1, <3>2
  <2>3. CASE ~(\E m \in P : k = MinuteKey(m))
    <3>1. k \in DOMAIN first.rows /\ rows'[k] = first.rows[k]
        BY <1>1, <1>4, <2>3 DEF PrunedDone
    <3>2. CASE \E m \in A : k = MinuteKey(m)
      <4>1. PICK m \in A : k = MinuteKey(m)
          BY <3>2
      <4>2. first.rows[k] = Total(EventsIn(k, stays), stays) /\ EventsIn(k, stays) # {}
          BY <1>3, <3>1, <4>1 DEF AboveDone, Row, stays
      <4> QED
          BY <2>1, <3>1, <4>2
    <3>3. CASE ~(\E m \in A : k = MinuteKey(m))
      <4>1. k \in DOMAIN rows /\ rows'[k] = rows[k]
          BY <1>3, <3>1, <3>3 DEF AboveDone
      <4>2. rows[k].top \in EventsIn(k, values)
          BY <4>1 DEF BucketInv, TopsStored
      <4>3. k = MinuteKey(MinuteOf[rows[k].top]) /\ k[2] = MinuteOf[rows[k].top]
          BY <4>2, MinuteKeyed DEF MinuteKey
      <4>4. k[2] \notin A
          BY <3>3, <4>3
      <4>5. rows[k].top <= ancestor
          BY <1>5, <4>1, <4>4
      <4>6. rows[k].top \in EventsIn(k, stays)
          BY <1>2, <4>2, <4>5 DEF EventsIn
      <4> QED
          BY <4>1, <4>6
    <3> QED
        BY <3>2, <3>3
  <2> QED
      BY <2>2, <2>3
<1>9. ASSUME NEW key, Exact(first.rows, key, cut), key[1] # "minute", \A m \in P : key \notin RollupsOf(m),
             EventsIn(key, cut) = EventsIn(key, stays)
      PROVE  Exact(rows', key, stays)
  <2>1. Row(rows', key) = Row(first.rows, key)
      BY <1>1, <1>4, <1>9 DEF PrunedDone
  <2>2. \A b \in EventsIn(key, cut) : cut[b] = stays[b]
      BY <1>2, <1>9, EventsStored
  <2>3. Total(EventsIn(key, cut), cut) = Total(EventsIn(key, stays), stays)
      BY <1>2, <1>9, <2>2, TotalSame
  <2> QED
      BY <1>9, <2>1, <2>3 DEF Exact
<1>10. ASSUME NEW h \in Nat, h * MinutesPerHour >= pruneBefore PROVE Exact(rows', HourKey(h), stays)
  <2>1. Exact(first.rows, HourKey(h), cut)
      BY <1>3, <1>10 DEF AboveDone, cut
  <2>2. h * MinutesPerHour \in Nat
      BY BucketAssumption
  <2>3. \A m \in Nat : m < pruneBefore => HourOf(m) # h
      BY <1>5, <1>10, <2>2, HourOfMinute
  <2>4. \A m \in P : HourKey(h) \notin RollupsOf(m)
    <3> SUFFICES ASSUME NEW m \in P PROVE HourKey(h) \notin RollupsOf(m)
        OBVIOUS
    <3>1. HourKey(h) # HourKey(HourOf(m)) /\ HourKey(h) # DayKey(DayOf(m))
        BY <1>5, <2>3, DistinctKeys
    <3> QED
        BY <3>1, KeysOfMinute
  <2>5. EventsIn(HourKey(h), cut) = EventsIn(HourKey(h), stays)
    <3>1. EventsIn(HourKey(h), cut) = {b \in DOMAIN cut : HourOf(MinuteOf[b]) = h}
          /\ EventsIn(HourKey(h), stays) = {b \in DOMAIN stays : HourOf(MinuteOf[b]) = h}
        BY EventsOfKey
    <3>2. \A b \in DOMAIN values : HourOf(MinuteOf[b]) = h /\ ~(b <= ancestor) => MinuteOf[b] \in A
        BY <1>2, <1>5, <2>3
    <3> QED
        BY <1>2, <3>1, <3>2
  <2>6. HourKey(h)[1] # "minute"
      BY DEF HourKey
  <2> QED
      BY <1>9, <2>1, <2>4, <2>5, <2>6
<1>11. ASSUME NEW d \in Nat, DayKey(d) \notin DOMAIN restores \cup phantoms PROVE Exact(rows', DayKey(d), stays)
  <2>1. CASE \E m \in P : DayOf(m) = d
    <3>1. \E m \in P : DayKey(d) \in RollupsOf(m)
        BY <2>1, KeysOfMinute
    <3> QED
        BY <1>1, <1>4, <3>1 DEF PrunedDone, stays
  <2>2. CASE ~(\E m \in P : DayOf(m) = d)
    <3>1. Exact(first.rows, DayKey(d), cut)
        BY <1>3, <1>5, <1>11, <2>2 DEF AboveDone, cut
    <3>2. \A m \in P : DayKey(d) \notin RollupsOf(m)
      <4> SUFFICES ASSUME NEW m \in P PROVE DayKey(d) \notin RollupsOf(m)
          OBVIOUS
      <4>1. DayKey(d) # HourKey(HourOf(m)) /\ DayKey(d) # DayKey(DayOf(m))
          BY <2>2, DistinctKeys
      <4> QED
          BY <4>1, KeysOfMinute
    <3>3. EventsIn(DayKey(d), cut) = EventsIn(DayKey(d), stays)
      <4>1. EventsIn(DayKey(d), cut) = {b \in DOMAIN cut : DayOf(MinuteOf[b]) = d}
            /\ EventsIn(DayKey(d), stays) = {b \in DOMAIN stays : DayOf(MinuteOf[b]) = d}
          BY EventsOfKey
      <4>2. \A b \in DOMAIN values : DayOf(MinuteOf[b]) = d /\ ~(b <= ancestor) => MinuteOf[b] \in A
          BY <1>5, <2>2
      <4> QED
          BY <1>2, <4>1, <4>2
    <3>4. DayKey(d)[1] # "minute"
        BY DEF DayKey
    <3> QED
        BY <1>9, <3>1, <3>2, <3>3, <3>4
  <2> QED
      BY <2>1, <2>2
<1>12. /\ DOMAIN restores' = DOMAIN restores
       /\ \A k \in DOMAIN restores : restores'[k] = IF k \in end.written THEN restores[k] + 1 ELSE restores[k]
       /\ \A k \in DOMAIN restores : restores[k] \in Nat
    BY <1>1, TouchedKeys DEF BucketInv, BucketTypes
<1>13. HoursExact' /\ DaysExact' /\ HoursQueued'
    BY <1>1, <1>10, <1>11, <1>12 DEF HoursExact, DaysExact, HoursQueued, BucketInv
<1>14. RestoreHolds'
  <2>1. ASSUME NEW d \in Nat, DayKey(d) \in DOMAIN restores, restores'[DayKey(d)] = restores[DayKey(d)],
               restoring # NULL, DayKey(d) \notin missed'
        PROVE  SameDay(values, values', d)
    <3>1. DayKey(d) \notin end.written
        BY <1>12, <2>1
    <3>2. \A b \in Lost(ancestor) : KeyOf("day", MinuteOf[b]) # DayKey(d)
        BY <1>1, <2>1, <3>1
    <3>3. \A b \in DOMAIN values : DayOf(MinuteOf[b]) = d => b <= ancestor
        BY <1>6, <3>2, KeysOfMinute
    <3> QED
        BY <1>1, <1>2, <3>3 DEF SameDay
  <2>2. ValuesOK(values') /\ (restoring # NULL => missed \subseteq missed')
      BY <1>1, <1>2
  <2>3. \A k \in DOMAIN restores : restores'[k] \in Nat /\ restores[k] <= restores'[k]
      BY <1>12
  <2> QED
      BY <1>1, <1>12, <2>1, <2>2, <2>3, RestoreStands
<1>15. BucketTypes'
  <2>1. TableOK(rows')
      BY <1>1, <1>4 DEF PrunedDone
  <2>2. \A k \in DOMAIN restores' : /\ restores'[k] \in Nat
                                    /\ \E n \in Nat : k = HourKey(n) \/ k = DayKey(n)
      BY <1>12 DEF BucketInv, BucketTypes
  <2>3. ValuesOK(values')
      BY <1>1, <1>2
  <2> QED
      BY <1>1, <1>5, <2>1, <2>2, <2>3 DEF BucketTypes
<1> QED
    BY <1>7, <1>8, <1>13, <1>14, <1>15 DEF BucketInv

LEMMA BucketNextKeeps == BucketInv /\ [BucketNext]_bucketVars => BucketInv'
<1> SUFFICES ASSUME BucketInv, [BucketNext]_bucketVars PROVE BucketInv'
    OBVIOUS
<1>1. CASE \E block \in BucketBlocks : Bounded /\ (PriceEvent(block) \/ StoreRawEvent(block))
    BY <1>1, PriceKeeps, StoreRawKeeps
<1>2. CASE \E cutoff \in 1 .. Max(Minutes) + 1 :
               Bounded /\ (PruneBuckets(cutoff, "minute") \/ PruneBuckets(cutoff, "hour"))
  <2>1. Max(Minutes) \in Nat
    <3> DEFINE f == [b \in BucketBlocks |-> MinuteOf[b]]
    <3>1. f \in Surjection(BucketBlocks, Minutes)
        BY DEF Minutes, Surjection
    <3>2. IsFiniteSet(Minutes) /\ Minutes \in SUBSET Nat /\ Minutes # {}
        BY <3>1, FS_Surjection, BucketAssumption DEF Minutes
    <3> QED
        BY <3>2, HighestOf
  <2>2. \A cutoff \in 1 .. Max(Minutes) + 1 : cutoff \in Nat
      BY <2>1
  <2> QED
      BY <1>2, <2>2, PruneKeeps
<1>3. CASE \E ancestor \in BucketBlocks \cup {0} : Bounded /\ RollbackBuckets(ancestor)
  <2>1. \A ancestor \in BucketBlocks \cup {0} : ancestor \in Nat
      BY BucketAssumption
  <2> QED
      BY <1>3, <2>1, RollbackKeeps
<1>4. CASE \E wanted \in SUBSET DOMAIN restores : BeginRestore(wanted)
    BY <1>4, BeginKeeps
<1>5. CASE SumHour \/ StoreRestore \/ InterruptRestore
    BY <1>5, SumHourKeeps, StoreRestoreKeeps, InterruptKeeps
<1>6. CASE UNCHANGED bucketVars
  <2>1. UNCHANGED <<values, rows, pruneBefore, restores, restoring, missed, phantoms>>
      BY <1>6 DEF bucketVars
  <2>2. RestoreHolds'
      BY <2>1 DEF BucketInv, RestoreHolds
  <2> QED
      BY <2>1, <2>2, OnlyRestoring
<1> QED
    BY <1>1, <1>2, <1>3, <1>4, <1>5, <1>6 DEF BucketNext

(***************************************************************************)
(* Minutes and hours from the cutoff on, and every day without a queued    *)
(* restore (but for the days in phantoms), have the totals of the stored   *)
(* events, whatever is priced, added, pruned, rolled back and recomputed   *)
(* in between (_bucket, _rollup_buckets, prune_old_buckets, rollback and   *)
(* restore_pending_rollups).                                               *)
(***************************************************************************)
THEOREM BucketsAlwaysExact == BucketSpec => []TotalsExact
<1>1. BucketSpec => []BucketInv
    BY BucketInitHolds, BucketNextKeeps, PTL DEF BucketSpec
<1> QED
    BY <1>1, BucketsExact, PTL
-----------------------------------------------------------------------------
(* PriceRepair: the anchors of settled events.                             *)

\* The stored marks a place can be anchored to, the newest of them, and the
\* events that seed marks.
PlacesUpTo(places, n) == {m \in places : m <= n}
AnchorIn(places, n) == Fresh(Latest(PlacesUpTo(places, n)), n)
Seeds(places) == {p \in places \cap Sources : PoolAt[p] = "direct"}

LEMMA PlacesAreNumbers == /\ Len(PoolAt) \in Nat /\ Places = 1..Len(PoolAt)
                          /\ Sources \subseteq Places /\ MaxAge \in Nat
                          /\ \A p \in Places : PoolAt[p] \in {"direct", "cross"} /\ p # NULL
<1>1. PoolAt \in Seq({"direct", "cross"})
    BY PriceAssumption
<1>2. Len(PoolAt) \in Nat /\ DOMAIN PoolAt = 1..Len(PoolAt)
    BY <1>1, LenProperties
<1>3. \A p \in 1..Len(PoolAt) : PoolAt[p] \in {"direct", "cross"}
    BY <1>1, ElementOfSeq
<1>4. MaxAge \in Nat /\ NULL \notin Nat /\ Sources \subseteq Places
    BY PriceAssumption
<1> QED
    BY <1>2, <1>3, <1>4 DEF Places

LEMMA LatestOf ==
    ASSUME NEW S \in SUBSET Places
    PROVE  /\ S = {} => Latest(S) = NULL
           /\ S # {} => Latest(S) \in S /\ \A m \in S : m <= Latest(S)
<1>1. CASE S = {}
    BY <1>1 DEF Latest
<1>2. CASE S # {}
  <2>1. S \in SUBSET (0..Len(PoolAt)) /\ Len(PoolAt) \in Nat
      BY PlacesAreNumbers
  <2>2. Max(S) \in S /\ \A m \in S : m <= Max(S)
      BY <1>2, <2>1, HighestNumber
  <2> QED
      BY <1>2, <2>2 DEF Latest
<1> QED
    BY <1>1, <1>2

\* Latest is determined by being a member that no member exceeds.
LEMMA LatestIs ==
    ASSUME NEW S \in SUBSET Places, NEW x \in S, \A m \in S : m <= x
    PROVE  Latest(S) = x
<1>1. PICK y \in S : y = Latest(S) /\ x <= y /\ y <= x
    BY LatestOf
<1>2. x \in Nat /\ y \in Nat
    BY <1>1, PlacesAreNumbers
<1>3. x = y
    BY <1>1, <1>2
<1> QED
    BY <1>1, <1>3

\* A place joins a set of marks.
LEMMA LatestWith ==
    ASSUME NEW S \in SUBSET Places, NEW n \in Places
    PROVE  Latest(S \cup {n}) = IF Latest(S) = NULL \/ n >= Latest(S) THEN n ELSE Latest(S)
<1>1. \A p \in Places : p \in Nat /\ p # NULL
    BY PlacesAreNumbers
<1>2. S \cup {n} \in SUBSET Places
    OBVIOUS
<1>3. CASE S = {}
  <2>1. Latest(S \cup {n}) = n
      BY <1>1, <1>2, <1>3, LatestIs
  <2> QED
      BY <1>3, <2>1, LatestOf
<1>4. CASE S # {}
  <2>1. Latest(S) \in S /\ \A m \in S : m <= Latest(S)
      BY <1>4, LatestOf
  <2>2. CASE n >= Latest(S)
    <3>1. \A m \in S \cup {n} : m <= n
        BY <1>1, <2>1, <2>2
    <3>2. Latest(S \cup {n}) = n
        BY <1>2, <3>1, LatestIs
    <3> QED
        BY <2>2, <3>2
  <2>3. CASE ~(n >= Latest(S))
    <3>1. \A m \in S \cup {n} : m <= Latest(S)
        BY <1>1, <2>1, <2>3
    <3>2. Latest(S \cup {n}) = Latest(S)
        BY <1>2, <2>1, <3>1, LatestIs
    <3> QED
        BY <1>1, <2>1, <2>3, <3>2
  <2> QED
      BY <2>2, <2>3
<1> QED
    BY <1>3, <1>4

\* AnchorFor finds the newest mark up to a place, in the newest of all or in
\* the table.
LEMMA AnchorForOf ==
    ASSUME NEW w, NEW S \in SUBSET Places, NEW n \in Places, w.newest = Latest(S),
           w.marks = S \/ \A m \in S : m < n
    PROVE  AnchorFor(w, n) = AnchorIn(S, n)
<1>1. \A p \in Places : p \in Nat /\ p # NULL
    BY PlacesAreNumbers
<1>2. CASE w.newest = NULL \/ n > w.newest
  <2>1. \A m \in S : m <= n
      BY <1>1, <1>2, LatestOf
  <2>2. PlacesUpTo(S, n) = S
      BY <2>1 DEF PlacesUpTo
  <2> QED
      BY <1>2, <2>2 DEF AnchorFor, AnchorIn
<1>3. CASE ~(w.newest = NULL \/ n > w.newest)
  <2>1. w.newest \in S
      BY <1>3, LatestOf
  <2>2. w.marks = S
      BY <1>1, <1>3, <2>1
  <2> QED
      BY <1>3, <2>2 DEF AnchorFor, AnchorIn, PlacesUpTo
<1> QED
    BY <1>2, <1>3

-----------------------------------------------------------------------------
(* One event of a delivery.                                                *)

Tables == {"samples", "marks", "stateOf", "priced", "newest", "forward"}

QuotedAt(prices, c, n, quote) ==
    /\ prices = With(c.priced, n, quote)
    /\ n \in Sources => quote.ratio = OwnRatio(n)
    /\ PoolAt[n] = "cross" => quote.anchor = AnchorFor(c, n)

LEMMA PricedTables ==
    ASSUME NEW w, NEW n, NEW c, c = Unmarked(w, n), DOMAIN c = Tables
    PROVE  /\ DOMAIN Priced(w, n) = Tables
           /\ Priced(w, n).forward = c.forward
           /\ Priced(w, n).samples = IF n \in Sources /\ ~c.forward
                                     THEN With(c.samples, n, OwnRatio(n)) ELSE c.samples
           /\ Priced(w, n).marks = IF n \in Sources /\ PoolAt[n] = "direct" /\ ~c.forward
                                   THEN c.marks \cup {n} ELSE c.marks
           /\ Priced(w, n).newest = IF /\ n \in Sources /\ PoolAt[n] = "direct"
                                       /\ c.newest = NULL \/ n >= c.newest
                                    THEN n ELSE c.newest
           /\ \E quote : QuotedAt(Priced(w, n).priced, c, n, quote)
<1> DEFINE ratio == IF n \in Sources THEN OwnRatio(n) ELSE PoolRatio(c, n)
           seeds == n \in Sources /\ PoolAt[n] = "direct"
           q == Quote(c, n, ratio)
<1>1. Priced(w, n) = [c EXCEPT
            !.priced = With(@, n, q),
            !.samples = IF n \in Sources /\ ~c.forward THEN With(@, n, ratio) ELSE @,
            !.marks = IF seeds /\ ~c.forward THEN @ \cup {n} ELSE @,
            !.newest = IF seeds /\ (@ = NULL \/ n >= @) THEN n ELSE @]
  <2>1. c.forward = w.forward
    <3>1. CASE c = w
        BY <3>1
    <3>2. CASE c = [w EXCEPT !.marks = @ \ {n},
                             !.newest = IF @ = n THEN Latest(w.marks \ {n}) ELSE @]
        BY <3>2 DEF Tables
    <3> QED
        BY <3>1, <3>2 DEF Unmarked
  <2>2. Unmarked(w, n).forward = w.forward
      BY <2>1
  <2> QED
      BY <2>1, <2>2 DEF Priced
<1>2. n \in Sources => ratio = OwnRatio(n)
    OBVIOUS
<1>3. q.ratio = ratio /\ (PoolAt[n] = "cross" => q.anchor = AnchorFor(c, n))
    BY DEF Quote
<1> HIDE DEF ratio, q
<1>4. /\ DOMAIN Priced(w, n) = Tables
      /\ Priced(w, n).forward = c.forward
      /\ Priced(w, n).priced = With(c.priced, n, q)
    BY <1>1 DEF Tables
<1>5. Priced(w, n).samples = IF n \in Sources /\ ~c.forward
                             THEN With(c.samples, n, ratio) ELSE c.samples
    BY <1>1 DEF Tables
<1>6. /\ Priced(w, n).marks = IF seeds /\ ~c.forward THEN c.marks \cup {n} ELSE c.marks
      /\ Priced(w, n).newest = IF seeds /\ (c.newest = NULL \/ n >= c.newest) THEN n ELSE c.newest
    BY <1>1 DEF Tables
<1>7. QuotedAt(Priced(w, n).priced, c, n, q)
    BY <1>2, <1>3, <1>4 DEF QuotedAt
<1> QED
    BY <1>2, <1>4, <1>5, <1>6, <1>7

\* The pool's state is no concern of the other tables.
LEMMA AdvancedTables ==
    ASSUME NEW w, DOMAIN w = Tables, NEW n
    PROVE  /\ DOMAIN Advanced(w, n) = Tables
           /\ Advanced(w, n).forward = w.forward /\ Advanced(w, n).samples = w.samples
           /\ Advanced(w, n).marks = w.marks /\ Advanced(w, n).newest = w.newest
           /\ Advanced(w, n).priced = w.priced
<1>1. CASE Advanced(w, n) = w
    BY <1>1
<1>2. CASE Advanced(w, n) = [w EXCEPT !.stateOf[PoolAt[n]] =
                                 [at |-> n, ratio |-> w.priced[n].ratio]]
    BY <1>2 DEF Tables
<1> QED
    BY <1>1, <1>2 DEF Advanced

\* The tables after each place of a delivery.
AppliedUpTo(start, places, k, f) ==
    f = [n \in 0 .. k |->
            IF n = 0 THEN start
            ELSE IF n \in places THEN ApplyOne(f[n - 1], n) ELSE f[n - 1]]

LEMMA AppliedExists ==
    ASSUME NEW start, NEW places, NEW k \in Nat
    PROVE  \E f : AppliedUpTo(start, places, k, f)
<1> DEFINE good == {m \in Nat : \E f : AppliedUpTo(start, places, m, f)}
           then(f, n) == IF n \in places THEN ApplyOne(f[n - 1], n) ELSE f[n - 1]
<1>1. 0 \in good
  <2> DEFINE f == [n \in 0 .. 0 |-> start]
  <2>1. \A n \in 0 .. 0 : n = 0
      OBVIOUS
  <2>2. f = [n \in 0 .. 0 |-> IF n = 0 THEN start ELSE then(f, n)]
      BY <2>1
  <2> QED
      BY <2>2 DEF AppliedUpTo
<1>2. ASSUME NEW m \in good PROVE m + 1 \in good
  <2>1. PICK f : AppliedUpTo(start, places, m, f)
      BY <1>2
  <2>2. m \in Nat
      BY <1>2
  <2> DEFINE g == [n \in 0 .. (m + 1) |-> IF n <= m THEN f[n] ELSE then(f, n)]
  <2>3. \A n \in 0 .. m : f[n] = IF n = 0 THEN start ELSE then(f, n)
      BY <2>1 DEF AppliedUpTo
  <2>4. \A n \in 0 .. (m + 1) : n # 0 => g[n - 1] = f[n - 1]
      BY <2>2
  <2>5. \A n \in 0 .. (m + 1) : n # 0 => then(g, n) = then(f, n)
      BY <2>4
  <2>6. \A n \in 0 .. (m + 1) : g[n] = IF n = 0 THEN start ELSE then(f, n)
      BY <2>2, <2>3
  <2>7. \A n \in 0 .. (m + 1) : g[n] = IF n = 0 THEN start ELSE then(g, n)
      BY <2>5, <2>6
  <2>8. g = [n \in 0 .. (m + 1) |-> g[n]]
      OBVIOUS
  <2> HIDE DEF g
  <2>9. AppliedUpTo(start, places, m + 1, g)
      BY <2>7, <2>8 DEF AppliedUpTo
  <2> QED
      BY <2>2, <2>9
<1> HIDE DEF good
<1>3. good \in SUBSET Nat
    BY DEF good
<1>4. good = Nat
    BY <1>1, <1>2, <1>3, NumberInduction
<1> QED
    BY <1>4 DEF good

AppliedInOrder(start, places) == InChainOrder(ApplyOne, start, places)

AppliedWalk(f, start, places) ==
    /\ f[0] = start
    /\ \A n \in 1 .. Len(PoolAt) :
          f[n] = IF n \in places THEN ApplyOne(f[n - 1], n) ELSE f[n - 1]
    /\ AppliedInOrder(start, places) = f[Len(PoolAt)]

LEMMA AppliedWalks == ASSUME NEW start, NEW places PROVE \E f : AppliedWalk(f, start, places)
<1>1. Len(PoolAt) \in Nat
    BY PlacesAreNumbers
<1> DEFINE f == CHOOSE g : AppliedUpTo(start, places, Len(PoolAt), g)
<1>2. AppliedInOrder(start, places) = f[Len(PoolAt)]
    BY DEF AppliedInOrder, InChainOrder, AppliedUpTo
<1>3. AppliedUpTo(start, places, Len(PoolAt), f)
    BY <1>1, AppliedExists
<1> HIDE DEF f
<1>4. \A n \in 0 .. Len(PoolAt) :
         f[n] = IF n = 0 THEN start
                ELSE IF n \in places THEN ApplyOne(f[n - 1], n) ELSE f[n - 1]
    BY <1>3 DEF AppliedUpTo
<1>5. f[0] = start
    BY <1>1, <1>4
<1>6. \A n \in 1 .. Len(PoolAt) :
         f[n] = IF n \in places THEN ApplyOne(f[n - 1], n) ELSE f[n - 1]
    BY <1>1, <1>4
<1> QED
    BY <1>2, <1>5, <1>6 DEF AppliedWalk

-----------------------------------------------------------------------------
(* A whole delivery.                                                       *)

\* The tables once the places of D up to n are applied.
WalkedMarks(w, D, forward, n) ==
    /\ w.newest = Latest(marks \cup Seeds(PlacesUpTo(D, n)))
    /\ w.marks = IF forward THEN marks ELSE marks \cup Seeds(PlacesUpTo(D, n))

WalkedSamples(w, D, forward, n) ==
    /\ DOMAIN w.samples = IF forward THEN DOMAIN samples
                          ELSE DOMAIN samples \cup (PlacesUpTo(D, n) \cap Sources)
    /\ \A p \in DOMAIN w.samples :
          w.samples[p] = IF p \in PlacesUpTo(D, n) /\ ~forward THEN OwnRatio(p) ELSE samples[p]

WalkedPrices(w, D, n) ==
    /\ DOMAIN w.priced = DOMAIN priced \cup PlacesUpTo(D, n)
    /\ \A p \in DOMAIN priced \ PlacesUpTo(D, n) : w.priced[p] = priced[p]
    /\ \A p \in PlacesUpTo(D, n) :
          /\ p \in Sources => w.priced[p].ratio = OwnRatio(p)
          /\ PoolAt[p] = "cross" => w.priced[p].anchor = AnchorIn(marks \cup Seeds(D), p)

Walked(w, D, forward, n) ==
    /\ DOMAIN w = Tables /\ w.forward = forward
    /\ WalkedMarks(w, D, forward, n) /\ WalkedSamples(w, D, forward, n)
    /\ WalkedPrices(w, D, n)

\* What the tables are before: no mark is of the delivery, and a forward
\* delivery lies above every mark.
Deliverable(D, forward) ==
    /\ D \in SUBSET Places /\ marks \in SUBSET Places /\ DOMAIN samples \subseteq Sources
    /\ D \cap marks = {} /\ forward \in BOOLEAN
    /\ forward => \A m \in marks, p \in D : m < p

LEMMA UpToNext ==
    ASSUME NEW D \in SUBSET Places, NEW n \in Places
    PROVE  PlacesUpTo(D, n) = IF n \in D THEN PlacesUpTo(D, n - 1) \cup {n}
                              ELSE PlacesUpTo(D, n - 1)
<1>1. \A p \in Places : p \in Nat
    BY PlacesAreNumbers
<1>2. \A p \in D : p <= n <=> p <= n - 1 \/ p = n
    BY <1>1
<1>3. PlacesUpTo(D, n) = {p \in D : p <= n - 1 \/ p = n}
    BY <1>2 DEF PlacesUpTo
<1> QED
    BY <1>3 DEF PlacesUpTo

LEMMA WalkStep ==
    ASSUME NEW D, NEW forward, Deliverable(D, forward), NEW n \in D,
           NEW w, Walked(w, D, forward, n - 1)
    PROVE  Walked(ApplyOne(w, n), D, forward, n)
<1>1. \A p \in Places : p \in Nat /\ p # NULL /\ PoolAt[p] \in {"direct", "cross"}
    BY PlacesAreNumbers
<1> DEFINE done == PlacesUpTo(D, n - 1)
           next == PlacesUpTo(D, n)
           S == marks \cup Seeds(done)
<1>2. /\ n \in Places /\ D \in SUBSET Places /\ done \in SUBSET Places /\ S \in SUBSET Places
      /\ next = done \cup {n} /\ n \notin done
  <2>1. n \in Places /\ D \in SUBSET Places /\ marks \in SUBSET Places
      BY DEF Deliverable
  <2>2. n \notin done
      BY <1>1, <2>1 DEF PlacesUpTo
  <2>3. next = done \cup {n}
      BY <2>1, UpToNext
  <2> QED
      BY <2>1, <2>2, <2>3 DEF PlacesUpTo, Seeds
<1>3. n \notin w.marks
  <2>1. w.marks \subseteq marks \cup done
      BY DEF Walked, WalkedMarks, Seeds
  <2> QED
      BY <1>2, <2>1 DEF Deliverable
<1>4. Unmarked(w, n) = w
    BY <1>3 DEF Unmarked
<1> DEFINE v == Priced(w, n)
           seeded == n \in Sources /\ PoolAt[n] = "direct"
<1>5. /\ DOMAIN w = Tables /\ w.forward = forward /\ w.newest = Latest(S)
      /\ w.marks = IF forward THEN marks ELSE S
    BY DEF Walked, WalkedMarks
<1>6. /\ DOMAIN v = Tables /\ v.forward = forward
      /\ v.samples = IF n \in Sources /\ ~forward THEN With(w.samples, n, OwnRatio(n))
                     ELSE w.samples
      /\ v.marks = IF seeded /\ ~forward THEN w.marks \cup {n} ELSE w.marks
      /\ v.newest = IF seeded /\ (w.newest = NULL \/ n >= w.newest) THEN n ELSE w.newest
  <2>1. /\ DOMAIN v = Tables /\ v.forward = w.forward
        /\ v.samples = IF n \in Sources /\ ~w.forward THEN With(w.samples, n, OwnRatio(n))
                       ELSE w.samples
        /\ v.marks = IF seeded /\ ~w.forward THEN w.marks \cup {n} ELSE w.marks
        /\ v.newest = IF seeded /\ (w.newest = NULL \/ n >= w.newest) THEN n ELSE w.newest
      BY <1>4, <1>5, PricedTables, Zenon
  <2> HIDE DEF v, S
  <2> QED
      BY <1>5, <2>1, Zenon
<1>16. \E quote : QuotedAt(v.priced, w, n, quote)
    BY <1>4, <1>5, PricedTables
<1>7. PICK quote : /\ v.priced = With(w.priced, n, quote)
                   /\ n \in Sources => quote.ratio = OwnRatio(n)
                   /\ PoolAt[n] = "cross" => quote.anchor = AnchorFor(w, n)
    BY <1>16 DEF QuotedAt
<1>8. /\ DOMAIN ApplyOne(w, n) = Tables
      /\ ApplyOne(w, n).forward = v.forward /\ ApplyOne(w, n).samples = v.samples
      /\ ApplyOne(w, n).marks = v.marks /\ ApplyOne(w, n).newest = v.newest
      /\ ApplyOne(w, n).priced = v.priced
    BY <1>6, AdvancedTables DEF ApplyOne
<1> HIDE DEF v, done, next, S
<1>9. Seeds(next) = IF seeded THEN Seeds(done) \cup {n} ELSE Seeds(done)
    BY <1>2 DEF Seeds
<1>10. marks \cup Seeds(next) = IF seeded THEN S \cup {n} ELSE S
    BY <1>9 DEF S
<1>11. WalkedMarks(v, D, forward, n)
  <2>1. v.newest = Latest(marks \cup Seeds(next))
    <3>1. CASE seeded
      <4>1. Latest(S \cup {n}) = IF Latest(S) = NULL \/ n >= Latest(S) THEN n ELSE Latest(S)
          BY <1>2, LatestWith
      <4> QED
          BY <1>5, <1>6, <1>10, <3>1, <4>1
    <3>2. CASE ~seeded
        BY <1>5, <1>6, <1>10, <3>2
    <3> QED
        BY <3>1, <3>2
  <2>2. v.marks = IF forward THEN marks ELSE marks \cup Seeds(next)
      BY <1>5, <1>6, <1>10
  <2> QED
      BY <2>1, <2>2 DEF WalkedMarks, next
<1>12. WalkedSamples(v, D, forward, n)
  <2>1. /\ DOMAIN w.samples = IF forward THEN DOMAIN samples
                              ELSE DOMAIN samples \cup (done \cap Sources)
        /\ \A p \in DOMAIN w.samples :
              w.samples[p] = IF p \in done /\ ~forward THEN OwnRatio(p) ELSE samples[p]
      BY DEF Walked, WalkedSamples, done
  <2>2. n \notin Sources => n \notin DOMAIN w.samples
      BY <2>1 DEF Deliverable
  <2>3. DOMAIN v.samples = IF forward THEN DOMAIN samples
                           ELSE DOMAIN samples \cup (next \cap Sources)
      BY <1>2, <1>6, <2>1 DEF With
  <2>4. \A p \in DOMAIN v.samples :
           v.samples[p] = IF p \in next /\ ~forward THEN OwnRatio(p) ELSE samples[p]
      BY <1>2, <1>6, <2>1, <2>2 DEF With
  <2> QED
      BY <2>3, <2>4 DEF WalkedSamples, next
<1>13. WalkedPrices(v, D, n)
  <2>1. /\ DOMAIN w.priced = DOMAIN priced \cup done
        /\ \A p \in DOMAIN priced \ done : w.priced[p] = priced[p]
        /\ \A p \in done :
              /\ p \in Sources => w.priced[p].ratio = OwnRatio(p)
              /\ PoolAt[p] = "cross" => w.priced[p].anchor = AnchorIn(marks \cup Seeds(D), p)
      BY DEF Walked, WalkedPrices, done
  <2>2. /\ DOMAIN v.priced = DOMAIN w.priced \cup {n} /\ v.priced[n] = quote
        /\ \A p \in DOMAIN w.priced \ {n} : v.priced[p] = w.priced[p]
      BY <1>7 DEF With
  <2>3. PoolAt[n] = "cross" => quote.anchor = AnchorIn(marks \cup Seeds(D), n)
    <3>1. SUFFICES ASSUME PoolAt[n] = "cross" PROVE AnchorFor(w, n) = AnchorIn(marks \cup Seeds(D), n)
        BY <1>7
    <3>2. w.marks = S \/ \A m \in S : m < n
      <4>1. \A m \in done : m < n
          BY <1>1, <1>2 DEF done, PlacesUpTo
      <4>2. forward => \A m \in marks : m < n
          BY DEF Deliverable
      <4> QED
          BY <1>5, <4>1, <4>2 DEF S, Seeds
    <3>3. AnchorFor(w, n) = AnchorIn(S, n)
        BY <1>2, <1>5, <3>2, AnchorForOf
    <3>4. PlacesUpTo(S, n) = PlacesUpTo(marks \cup Seeds(D), n)
      <4>1. \A m \in Seeds(D) : m <= n => m \in Seeds(next)
          BY DEF Seeds, next, PlacesUpTo
      <4>2. Seeds(next) = Seeds(done)
          BY <1>9, <3>1
      <4>3. Seeds(done) \subseteq Seeds(D)
          BY DEF Seeds, done, PlacesUpTo
      <4> QED
          BY <4>1, <4>2, <4>3 DEF S, PlacesUpTo
    <3> QED
        BY <3>3, <3>4 DEF AnchorIn
  <2>4. DOMAIN v.priced = DOMAIN priced \cup next
      BY <1>2, <2>1, <2>2
  <2>5. \A p \in DOMAIN priced \ next : v.priced[p] = priced[p]
      BY <1>2, <2>1, <2>2
  <2>6. \A p \in next :
           /\ p \in Sources => v.priced[p].ratio = OwnRatio(p)
           /\ PoolAt[p] = "cross" => v.priced[p].anchor = AnchorIn(marks \cup Seeds(D), p)
      BY <1>2, <1>7, <2>1, <2>2, <2>3
  <2> QED
      BY <2>4, <2>5, <2>6 DEF WalkedPrices, next
<1> QED
    BY <1>6, <1>8, <1>11, <1>12, <1>13
    DEF Walked, WalkedMarks, WalkedSamples, WalkedPrices

LEMMA WalkStart ==
    ASSUME NEW D, NEW forward, Deliverable(D, forward), NEW stored
    PROVE  Walked([samples |-> samples, marks |-> marks, stateOf |-> stateOf, priced |-> priced,
                   newest |-> Latest(marks), forward |-> forward], D, forward, 0)
<1> DEFINE w == [samples |-> samples, marks |-> marks, stateOf |-> stateOf, priced |-> priced,
                 newest |-> Latest(marks), forward |-> forward]
<1>1. \A p \in Places : p \in Nat /\ p >= 1
    BY PlacesAreNumbers
<1>2. PlacesUpTo(D, 0) = {}
    BY <1>1 DEF PlacesUpTo, Deliverable
<1>3. marks \cup Seeds({}) = marks
    BY DEF Seeds
<1>4. /\ DOMAIN w = Tables /\ w.forward = forward /\ w.samples = samples /\ w.marks = marks
      /\ w.priced = priced /\ w.newest = Latest(marks)
    BY DEF Tables
<1> HIDE DEF w
<1>5. WalkedMarks(w, D, forward, 0)
    BY <1>2, <1>3, <1>4 DEF WalkedMarks
<1>6. WalkedSamples(w, D, forward, 0)
    BY <1>2, <1>4 DEF WalkedSamples
<1>7. WalkedPrices(w, D, 0)
    BY <1>2, <1>4 DEF WalkedPrices
<1>8. Walked(w, D, forward, 0)
    BY <1>4, <1>5, <1>6, <1>7 DEF Walked
<1> QED
    BY <1>8 DEF w

\* The tables after a delivery, before the flush of a forward one.
LEMMA DeliveryWalked ==
    ASSUME NEW D, NEW stored, NEW forward, forward = Forward(D, stored), Deliverable(D, forward)
    PROVE  \E w : Walked(w, D, forward, Len(PoolAt)) /\ Applied(D, stored) = Flushed(w, D)
<1> DEFINE start == [samples |-> samples, marks |-> marks, stateOf |-> stateOf,
                     priced |-> priced, newest |-> Latest(marks), forward |-> forward]
<1>1. Walked(start, D, forward, 0)
    BY WalkStart
<1>2. Applied(D, stored) = Flushed(AppliedInOrder(start, D), D)
    BY DEF Applied, AppliedInOrder
<1> HIDE DEF start
<1>3. PICK f : AppliedWalk(f, start, D)
    BY AppliedWalks
<1>4. Len(PoolAt) \in Nat /\ Places = 1 .. Len(PoolAt)
    BY PlacesAreNumbers
<1>5. Deliverable(D, forward) /\ D \in SUBSET Places
    BY DEF Deliverable
<1> DEFINE good == {n \in Nat : n <= Len(PoolAt) => Walked(f[n], D, forward, n)}
<1>6. 0 \in good
    BY <1>1, <1>3 DEF AppliedWalk
<1>7. ASSUME NEW n \in good PROVE n + 1 \in good
  <2>1. SUFFICES ASSUME n + 1 <= Len(PoolAt) PROVE Walked(f[n + 1], D, forward, n + 1)
      OBVIOUS
  <2>2. n \in Nat /\ n + 1 \in 1 .. Len(PoolAt) /\ (n + 1) - 1 = n
      BY <1>4, <2>1
  <2>3. Walked(f[n], D, forward, n)
      BY <1>4, <2>1, <2>2
  <2>4. f[n + 1] = IF n + 1 \in D THEN ApplyOne(f[n], n + 1) ELSE f[n]
      BY <1>3, <2>2 DEF AppliedWalk
  <2>5. CASE n + 1 \in D
      BY <1>5, <2>2, <2>3, <2>4, <2>5, WalkStep
  <2>6. CASE n + 1 \notin D
    <3>1. PlacesUpTo(D, n + 1) = PlacesUpTo(D, n)
      <4>1. n + 1 \in Places
          BY <1>4, <2>2
      <4>2. PlacesUpTo(D, n + 1) = PlacesUpTo(D, (n + 1) - 1)
          BY <1>5, <2>6, <4>1, UpToNext
      <4> QED
          BY <2>2, <4>2
    <3>2. f[n + 1] = f[n]
        BY <2>4, <2>6
    <3> QED
        BY <2>3, <3>1, <3>2 DEF Walked, WalkedMarks, WalkedSamples, WalkedPrices
  <2> QED
      BY <2>5, <2>6
<1>8. good \in SUBSET Nat
    OBVIOUS
<1> HIDE DEF good
<1>9. good = Nat
    BY <1>6, <1>7, <1>8, NumberInduction
<1>10. Walked(f[Len(PoolAt)], D, forward, Len(PoolAt))
    BY <1>4, <1>9 DEF good
<1> QED
    BY <1>2, <1>3, <1>10 DEF AppliedWalk

LEMMA FlushedTables ==
    ASSUME NEW w, DOMAIN w = Tables, NEW D
    PROVE  /\ Flushed(w, D).forward = w.forward /\ Flushed(w, D).priced = w.priced
           /\ Flushed(w, D).marks = IF w.forward THEN w.marks \cup Seeds(D) ELSE w.marks
           /\ Flushed(w, D).samples =
                 IF w.forward
                 THEN [p \in DOMAIN w.samples \cup (D \cap Sources) |->
                          IF p \in D THEN w.priced[p].ratio ELSE w.samples[p]]
                 ELSE w.samples
<1>1. CASE ~w.forward
    BY <1>1 DEF Flushed
<1>2. CASE w.forward
  <2> DEFINE table == [p \in DOMAIN w.samples \cup (D \cap Sources) |->
                          IF p \in D THEN w.priced[p].ratio ELSE w.samples[p]]
  <2>1. Flushed(w, D) = [w EXCEPT !.samples = table, !.marks = @ \cup Seeds(D)]
      BY <1>2 DEF Flushed, Seeds
  <2> HIDE DEF table
  <2>2. /\ Flushed(w, D).forward = w.forward /\ Flushed(w, D).priced = w.priced
        /\ Flushed(w, D).marks = w.marks \cup Seeds(D) /\ Flushed(w, D).samples = table
      BY <2>1 DEF Tables
  <2> QED
      BY <1>2, <2>2 DEF table
<1> QED
    BY <1>1, <1>2

\* What a delivery leaves in the tables.
Delivered(w, D, forward) ==
    /\ w.forward = forward /\ w.marks = marks \cup Seeds(D)
    /\ DOMAIN w.samples = DOMAIN samples \cup (D \cap Sources)
    /\ \A p \in DOMAIN samples \ D : w.samples[p] = samples[p]
    /\ DOMAIN w.priced = DOMAIN priced \cup D
    /\ \A p \in DOMAIN priced \ D : w.priced[p] = priced[p]
    /\ \A p \in D :
          /\ p \in Sources => w.samples[p] = OwnRatio(p) /\ w.priced[p].ratio = OwnRatio(p)
          /\ PoolAt[p] = "cross" => w.priced[p].anchor = AnchorIn(marks \cup Seeds(D), p)

LEMMA AppliedTables ==
    ASSUME NEW D, NEW stored, NEW forward, forward = Forward(D, stored), Deliverable(D, forward)
    PROVE  Delivered(Applied(D, stored), D, forward)
<1> DEFINE w == Applied(D, stored)
<1>1. PICK v : Walked(v, D, forward, Len(PoolAt)) /\ w = Flushed(v, D)
    BY DeliveryWalked
<1> HIDE DEF w
<1>2. PlacesUpTo(D, Len(PoolAt)) = D
  <2>1. \A p \in D : p <= Len(PoolAt)
      BY PlacesAreNumbers DEF Deliverable
  <2> QED
      BY <2>1 DEF PlacesUpTo
<1>3. /\ DOMAIN v = Tables /\ v.forward = forward
      /\ v.marks = IF forward THEN marks ELSE marks \cup Seeds(D)
    BY <1>1, <1>2 DEF Walked, WalkedMarks
<1>4. /\ DOMAIN v.samples = IF forward THEN DOMAIN samples
                            ELSE DOMAIN samples \cup (D \cap Sources)
      /\ \A p \in DOMAIN v.samples :
            v.samples[p] = IF p \in D /\ ~forward THEN OwnRatio(p) ELSE samples[p]
    BY <1>1, <1>2 DEF Walked, WalkedSamples
<1>5. /\ DOMAIN v.priced = DOMAIN priced \cup D
      /\ \A p \in DOMAIN priced \ D : v.priced[p] = priced[p]
      /\ \A p \in D : /\ p \in Sources => v.priced[p].ratio = OwnRatio(p)
                      /\ PoolAt[p] = "cross" => v.priced[p].anchor = AnchorIn(marks \cup Seeds(D), p)
    BY <1>1, <1>2 DEF Walked, WalkedPrices
<1>6. /\ w.forward = v.forward /\ w.priced = v.priced
      /\ w.marks = IF v.forward THEN v.marks \cup Seeds(D) ELSE v.marks
      /\ w.samples = IF v.forward
                     THEN [p \in DOMAIN v.samples \cup (D \cap Sources) |->
                              IF p \in D THEN v.priced[p].ratio ELSE v.samples[p]]
                     ELSE v.samples
  <2>1. /\ Flushed(v, D).forward = v.forward /\ Flushed(v, D).priced = v.priced
        /\ Flushed(v, D).marks = IF v.forward THEN v.marks \cup Seeds(D) ELSE v.marks
        /\ Flushed(v, D).samples =
              IF v.forward
              THEN [p \in DOMAIN v.samples \cup (D \cap Sources) |->
                       IF p \in D THEN v.priced[p].ratio ELSE v.samples[p]]
              ELSE v.samples
      BY <1>3, FlushedTables, Zenon
  <2> QED
      BY <1>1, <2>1
<1>7. w.marks = marks \cup Seeds(D)
    BY <1>3, <1>6
<1>8. /\ DOMAIN w.samples = DOMAIN samples \cup (D \cap Sources)
      /\ \A p \in DOMAIN samples \ D : w.samples[p] = samples[p]
      /\ \A p \in D : p \in Sources => w.samples[p] = OwnRatio(p)
  <2>1. CASE forward
      BY <1>3, <1>4, <1>5, <1>6, <2>1
  <2>2. CASE ~forward
      BY <1>3, <1>4, <1>6, <2>2
  <2> QED
      BY <2>1, <2>2
<1>9. w.forward = forward
    BY <1>3, <1>6
<1>10. Delivered(w, D, forward)
    BY <1>5, <1>6, <1>7, <1>8, <1>9 DEF Delivered
<1> QED
    BY <1>10 DEF w

-----------------------------------------------------------------------------
(* The inductive invariant: while no rollback has priced a queued event,   *)
(* whatever is not queued is settled.                                      *)

PriceTables ==
    /\ storedAt \in SUBSET Places /\ pending \subseteq storedAt /\ DOMAIN priced = storedAt
    /\ DOMAIN samples \subseteq storedAt \cap Sources
    /\ marks \subseteq {p \in DOMAIN samples : PoolAt[p] = "direct"}

MarksUnqueued == marks \cap pending = {}

SourcesSettled ==
    \A p \in (storedAt \cap Sources) \ pending :
        /\ p \in DOMAIN samples /\ samples[p] = OwnRatio(p) /\ priced[p].ratio = OwnRatio(p)
        /\ PoolAt[p] = "direct" => p \in marks

AnchorsSettled ==
    \A p \in storedAt \ pending : PoolAt[p] = "cross" => priced[p].anchor = AnchorIn(marks, p)

Settled == PriceTables /\ MarksUnqueued /\ SourcesSettled /\ AnchorsSettled

LEMMA DisturbedIs ==
    ASSUME NEW w, NEW D, NEW stored
    PROVE  \A p : p \in Disturbed(w, D, stored) <=>
                     /\ ~w.forward /\ p \notin D
                     /\ \E q \in D : Changed(w, q) /\ p \in Successors(w, q, stored)
BY DEF Disturbed

\* A late mark queues every event whose anchor it changes.
LEMMA LateMark ==
    ASSUME NEW D, NEW stored, NEW w, Deliverable(D, FALSE), D \in SUBSET stored,
           stored \in SUBSET Places, ~w.forward, w.marks = marks \cup Seeds(D),
           NEW p \in stored \ D, PoolAt[p] = "cross", p \notin Disturbed(w, D, stored)
    PROVE  AnchorIn(marks \cup Seeds(D), p) = AnchorIn(marks, p)
<1> DEFINE S == PlacesUpTo(marks \cup Seeds(D), p)
           T == PlacesUpTo(marks, p)
<1>1. /\ \A q \in Places : q \in Nat /\ q # NULL
      /\ MaxAge \in Nat
    BY PlacesAreNumbers
<1>2. S \in SUBSET Places /\ T \in SUBSET S /\ p \in Nat /\ \A m \in S : m <= p
    BY <1>1 DEF PlacesUpTo, Seeds, Deliverable
<1> HIDE DEF S, T
<1>3. CASE S = {}
  <2>1. T = S
      BY <1>2, <1>3
  <2> QED
      BY <2>1 DEF AnchorIn, S, T
<1>4. CASE S # {}
  <2>1. PICK x \in S : x = Latest(S) /\ \A m \in S : m <= x
      BY <1>2, <1>4, LatestOf
  <2>2. CASE x \in T
    <3>1. Latest(T) = x
        BY <1>2, <2>1, <2>2, LatestIs
    <3> QED
        BY <2>1, <3>1 DEF AnchorIn, S, T
  <2>3. CASE x \notin T
    <3>1. x \in Seeds(D) /\ x \notin marks /\ x \in D /\ x \in Sources /\ x \in w.marks
          /\ PoolAt[x] = "direct" /\ x <= p
        BY <2>3 DEF S, T, PlacesUpTo, Seeds
    <3>2. x \in Nat /\ p - x \in Int
        BY <1>1, <1>2
    <3>3. ~(p - x <= MaxAge)
      <4>1. SUFFICES ASSUME p - x <= MaxAge PROVE FALSE
          OBVIOUS
      <4>2. p # x /\ p > x
          BY <1>2, <3>1, <3>2
      <4>3. Changed(w, x)
          BY <3>1 DEF Changed
      <4> DEFINE nextMark == {m \in w.marks : m > x}
      <4>4. nextMark = {} \/ p < Min(nextMark)
        <5>1. nextMark \in SUBSET Nat
            BY <1>1 DEF Deliverable, Seeds
        <5>2. \A m \in nextMark : m \in Nat /\ ~(m <= p)
          <6>1. SUFFICES ASSUME NEW m \in nextMark, m <= p PROVE FALSE
              BY <5>1
          <6>2. m \in S
              BY <6>1 DEF S, PlacesUpTo
          <6> QED
              BY <2>1, <3>2, <5>1, <6>2
        <5>3. ASSUME nextMark # {} PROVE p < Min(nextMark)
          <6> HIDE DEF nextMark
          <6>1. Min(nextMark) \in nextMark
              BY <5>1, <5>3, LowestNumber
          <6> QED
              BY <1>2, <5>2, <6>1
        <5> QED
            BY <5>3
      <4>5. p \in Successors(w, x, stored)
          BY <3>1, <4>1, <4>2, <4>4 DEF Successors
      <4>6. p \in Disturbed(w, D, stored)
          BY <3>1, <4>3, <4>5, DisturbedIs
      <4> QED
          BY <4>6
    <3>4. Fresh(x, p) = NULL
        BY <3>3 DEF Fresh
    <3>5. Fresh(Latest(T), p) = NULL
      <4>1. CASE T = {}
          BY <1>2, <4>1, LatestOf DEF Fresh
      <4>2. CASE T # {}
        <5>1. PICK y \in T : y = Latest(T)
            BY <1>2, <4>2, LatestOf
        <5>2. y \in Nat /\ y <= x
            BY <1>1, <1>2, <2>1
        <5>3. ~(p - y <= MaxAge)
            BY <1>1, <1>2, <3>2, <3>3, <5>2
        <5> QED
            BY <5>1, <5>3 DEF Fresh
      <4> QED
          BY <4>1, <4>2
    <3> QED
        BY <2>1, <3>4, <3>5 DEF AnchorIn, S, T
  <2> QED
      BY <2>2, <2>3
<1> QED
    BY <1>3, <1>4

\* No mark is disturbed: it has a sample of its own.
LEMMA MarkUndisturbed ==
    ASSUME NEW D, NEW stored, NEW w, stored \in SUBSET Places, D \in SUBSET stored,
           DOMAIN w.samples \subseteq Places, NEW p \in DOMAIN w.samples, PoolAt[p] = "direct"
    PROVE  p \notin Disturbed(w, D, stored)
<1>1. \A q \in Places : q \in Nat
    BY PlacesAreNumbers
<1>2. SUFFICES ASSUME p \in Disturbed(w, D, stored) PROVE FALSE
    OBVIOUS
<1>3. PICK q \in D : p \in Successors(w, q, stored)
    BY <1>2, DisturbedIs
<1> DEFINE nextSample == {s \in DOMAIN w.samples : s > q /\ PoolAt[s] = PoolAt[q]}
<1>4. /\ p \in stored /\ p > q /\ PoolAt[p] = PoolAt[q]
      /\ nextSample = {} \/ p < Min(nextSample)
    BY <1>3 DEF Successors
<1>5. p \in nextSample /\ p \in Nat
    BY <1>1, <1>4
<1>6. nextSample \in SUBSET Nat
    BY <1>1
<1> HIDE DEF nextSample
<1>7. Min(nextSample) \in Nat /\ Min(nextSample) <= p
    BY <1>5, <1>6, LowestNumber
<1> QED
    BY <1>4, <1>5, <1>7

\* A projection keeps what is settled, of the events it prices and of those
\* it does not queue.
LEMMA ProjectKeeps ==
    ASSUME Settled, NEW D, NEW stored, NEW queue,
           stored \in SUBSET Places, stored = storedAt \cup D, D \cap marks = {},
           queue \subseteq pending, queue \cap D = {}, pending \subseteq queue \cup D,
           storedAt' = stored, decimals' = decimals, ProjectPrice(D, stored, queue)
    PROVE  Settled'
<1> DEFINE all == marks \cup Seeds(D)
<1>17. PICK forward : forward = Forward(D, stored)
    OBVIOUS
<1>1. PICK w : w = Applied(D, stored)
    OBVIOUS
<1>2. /\ samples' = w.samples /\ marks' = w.marks /\ priced' = w.priced
      /\ pending' = queue \cup Disturbed(w, D, stored)
    BY <1>1 DEF ProjectPrice
<1>3. /\ storedAt \in SUBSET Places /\ pending \subseteq storedAt /\ DOMAIN priced = storedAt
      /\ DOMAIN samples \subseteq storedAt \cap Sources
      /\ marks \subseteq {p \in DOMAIN samples : PoolAt[p] = "direct"}
    BY DEF Settled, PriceTables
<1>4. forward => \A m \in marks, p \in D : m < p
  <2>1. SUFFICES ASSUME forward, NEW m \in marks, NEW p \in D PROVE m < p
      OBVIOUS
  <2>2. \A q \in Places : q \in Nat
      BY PlacesAreNumbers
  <2>3. Min(D) \in Nat /\ Min(D) <= p
      BY <2>2, LowestNumber
  <2>4. m < Min(D)
      BY <1>3, <1>17, <2>1 DEF Forward
  <2> QED
      BY <1>3, <2>2, <2>3, <2>4
<1>5. Deliverable(D, forward)
  <2>1. forward \in BOOLEAN
      BY <1>17 DEF Forward
  <2> QED
      BY <1>3, <1>4, <2>1 DEF Deliverable
<1>6. /\ w.forward = forward /\ w.marks = all
      /\ DOMAIN w.samples = DOMAIN samples \cup (D \cap Sources)
      /\ \A p \in DOMAIN samples \ D : w.samples[p] = samples[p]
      /\ DOMAIN w.priced = stored
      /\ \A p \in storedAt \ D : w.priced[p] = priced[p]
      /\ \A p \in D :
            /\ p \in Sources => w.samples[p] = OwnRatio(p) /\ w.priced[p].ratio = OwnRatio(p)
            /\ PoolAt[p] = "cross" => w.priced[p].anchor = AnchorIn(all, p)
  <2>1. Delivered(w, D, forward)
      BY <1>1, <1>5, <1>17, AppliedTables
  <2>2. DOMAIN w.priced = stored
      BY <1>3, <2>1 DEF Delivered
  <2> QED
      BY <1>3, <2>1, <2>2 DEF Delivered
<1>7. Disturbed(w, D, stored) \subseteq stored \ D
  <2>1. \A q : Successors(w, q, stored) \subseteq stored
      BY DEF Successors
  <2>2. ASSUME NEW p \in Disturbed(w, D, stored) PROVE p \in stored \ D
    <3>1. PICK q \in D : p \in Successors(w, q, stored)
        BY <2>2, DisturbedIs
    <3> QED
        BY <2>1, <2>2, <3>1, DisturbedIs
  <2> QED
      BY <2>2
<1> DEFINE new == queue \cup Disturbed(w, D, stored)
<1>8. all \subseteq {p \in DOMAIN w.samples : PoolAt[p] = "direct"}
    BY <1>3, <1>6 DEF Seeds
<1>9. PriceTables'
  <2>1. new \subseteq stored
      BY <1>3, <1>7
  <2>2. DOMAIN w.samples \subseteq stored \cap Sources
      BY <1>3, <1>6
  <2> QED
      BY <1>2, <1>6, <1>8, <2>1, <2>2 DEF PriceTables
<1>10. all \cap new = {}
  <2>1. all \cap queue = {}
      BY DEF Settled, MarksUnqueued, Seeds
  <2>2. DOMAIN w.samples \subseteq Places
      BY <1>3, <1>6
  <2>3. \A p \in all : p \notin Disturbed(w, D, stored)
      BY <1>8, <2>2, MarkUndisturbed
  <2> QED
      BY <2>1, <2>3
<1>11. MarksUnqueued'
    BY <1>2, <1>6, <1>10 DEF MarksUnqueued
<1>12. \A p \in stored \ new : p \in D \/ p \in storedAt \ pending
    BY <1>3
<1>13. ASSUME NEW p \in (stored \cap Sources) \ new
       PROVE  /\ p \in DOMAIN w.samples /\ w.samples[p] = OwnRatio(p)
              /\ w.priced[p].ratio = OwnRatio(p) /\ (PoolAt[p] = "direct" => p \in all)
  <2>1. CASE p \in D
      BY <1>6, <1>13, <2>1 DEF Seeds
  <2>2. CASE p \in (storedAt \ pending) \ D
    <3>1. /\ p \in DOMAIN samples /\ samples[p] = OwnRatio(p) /\ priced[p].ratio = OwnRatio(p)
          /\ PoolAt[p] = "direct" => p \in marks
        BY <1>13, <2>2 DEF Settled, SourcesSettled
    <3> QED
        BY <1>6, <2>2, <3>1
  <2> QED
      BY <1>12, <2>1, <2>2
<1>14. SourcesSettled'
  <2>1. \A p : OwnRatio(p)' = OwnRatio(p)
      BY DEF OwnRatio
  <2>2. SUFFICES ASSUME NEW p \in (stored \cap Sources) \ new
                 PROVE  /\ p \in DOMAIN w.samples /\ w.samples[p] = OwnRatio(p)
                        /\ w.priced[p].ratio = OwnRatio(p)
                        /\ PoolAt[p] = "direct" => p \in all
    <3> HIDE DEF new, all
    <3> QED
        BY <1>2, <1>6, <2>1 DEF SourcesSettled, new
  <2> QED
      BY <1>13
<1>15. ASSUME NEW p \in stored \ new, PoolAt[p] = "cross"
       PROVE  w.priced[p].anchor = AnchorIn(all, p)
  <2>1. CASE p \in D
      BY <1>6, <1>15, <2>1
  <2>2. CASE p \in (storedAt \ pending) \ D
    <3>1. w.priced[p].anchor = AnchorIn(marks, p)
        BY <1>6, <1>15, <2>2 DEF Settled, AnchorsSettled
    <3>2. CASE forward
      <4>1. \A q \in Places : q \in Nat
          BY PlacesAreNumbers
      <4>2. \A q \in D : ~(q <= p)
        <5>1. SUFFICES ASSUME NEW q \in D PROVE ~(q <= p)
            OBVIOUS
        <5>2. Min(D) \in Nat /\ Min(D) <= q
            BY <4>1, LowestNumber
        <5>3. p < Min(D)
            BY <1>17, <2>2, <3>2 DEF Forward
        <5> QED
            BY <1>15, <4>1, <5>2, <5>3
      <4>3. PlacesUpTo(all, p) = PlacesUpTo(marks, p)
          BY <4>2 DEF PlacesUpTo, Seeds
      <4> QED
          BY <3>1, <4>3 DEF AnchorIn
    <3>3. CASE ~forward
      <4>1. Deliverable(D, FALSE) /\ ~w.forward /\ p \in stored \ D
          BY <1>5, <1>6, <2>2, <3>3 DEF Deliverable
      <4>2. AnchorIn(all, p) = AnchorIn(marks, p)
          BY <1>6, <1>15, <4>1, LateMark
      <4> QED
          BY <3>1, <4>2
    <3> QED
        BY <3>2, <3>3
  <2> QED
      BY <1>12, <1>15, <2>1, <2>2
<1>16. AnchorsSettled'
  <2>1. \A p : AnchorIn(all, p) = AnchorIn(marks', p)
      BY <1>2, <1>6
  <2>2. \A p \in storedAt' \ pending' : PoolAt[p] = "cross" => priced'[p].anchor = AnchorIn(marks', p)
      BY <1>2, <1>15, <2>1
  <2> QED
      BY <2>2 DEF AnchorsSettled
<1> QED
    BY <1>9, <1>11, <1>14, <1>16 DEF Settled

-----------------------------------------------------------------------------
(* A rollback: the sources it prices again stay as they were.              *)

\* The tables after each source a rollback prices.
PricedUpTo(start, places, k, f) ==
    f = [n \in 0 .. k |->
            IF n = 0 THEN start
            ELSE IF n \in places THEN Priced(f[n - 1], n) ELSE f[n - 1]]

LEMMA PricedExists ==
    ASSUME NEW start, NEW places, NEW k \in Nat
    PROVE  \E f : PricedUpTo(start, places, k, f)
<1> DEFINE good == {m \in Nat : \E f : PricedUpTo(start, places, m, f)}
           then(f, n) == IF n \in places THEN Priced(f[n - 1], n) ELSE f[n - 1]
<1>1. 0 \in good
  <2> DEFINE f == [n \in 0 .. 0 |-> start]
  <2>1. \A n \in 0 .. 0 : n = 0
      OBVIOUS
  <2>2. f = [n \in 0 .. 0 |-> IF n = 0 THEN start ELSE then(f, n)]
      BY <2>1
  <2> QED
      BY <2>2 DEF PricedUpTo
<1>2. ASSUME NEW m \in good PROVE m + 1 \in good
  <2>1. PICK f : PricedUpTo(start, places, m, f)
      BY <1>2
  <2>2. m \in Nat
      BY <1>2
  <2> DEFINE g == [n \in 0 .. (m + 1) |-> IF n <= m THEN f[n] ELSE then(f, n)]
  <2>3. \A n \in 0 .. m : f[n] = IF n = 0 THEN start ELSE then(f, n)
      BY <2>1 DEF PricedUpTo
  <2>4. \A n \in 0 .. (m + 1) : n # 0 => g[n - 1] = f[n - 1]
      BY <2>2
  <2>5. \A n \in 0 .. (m + 1) : n # 0 => then(g, n) = then(f, n)
      BY <2>4
  <2>6. \A n \in 0 .. (m + 1) : g[n] = IF n = 0 THEN start ELSE then(f, n)
      BY <2>2, <2>3
  <2>7. \A n \in 0 .. (m + 1) : g[n] = IF n = 0 THEN start ELSE then(g, n)
      BY <2>5, <2>6
  <2>8. g = [n \in 0 .. (m + 1) |-> g[n]]
      OBVIOUS
  <2> HIDE DEF g
  <2>9. PricedUpTo(start, places, m + 1, g)
      BY <2>7, <2>8 DEF PricedUpTo
  <2> QED
      BY <2>2, <2>9
<1> HIDE DEF good
<1>3. good \in SUBSET Nat
    BY DEF good
<1>4. good = Nat
    BY <1>1, <1>2, <1>3, NumberInduction
<1> QED
    BY <1>4 DEF good

PricedInOrder(start, places) == InChainOrder(Priced, start, places)

PricedWalk(f, start, places) ==
    /\ f[0] = start
    /\ \A n \in 1 .. Len(PoolAt) :
          f[n] = IF n \in places THEN Priced(f[n - 1], n) ELSE f[n - 1]
    /\ PricedInOrder(start, places) = f[Len(PoolAt)]

LEMMA PricedWalks == ASSUME NEW start, NEW places PROVE \E f : PricedWalk(f, start, places)
<1>1. Len(PoolAt) \in Nat
    BY PlacesAreNumbers
<1> DEFINE f == CHOOSE g : PricedUpTo(start, places, Len(PoolAt), g)
<1>2. PricedInOrder(start, places) = f[Len(PoolAt)]
    BY DEF PricedInOrder, InChainOrder, PricedUpTo
<1>3. PricedUpTo(start, places, Len(PoolAt), f)
    BY <1>1, PricedExists
<1> HIDE DEF f
<1>4. \A n \in 0 .. Len(PoolAt) :
         f[n] = IF n = 0 THEN start
                ELSE IF n \in places THEN Priced(f[n - 1], n) ELSE f[n - 1]
    BY <1>3 DEF PricedUpTo
<1>5. f[0] = start
    BY <1>1, <1>4
<1>6. \A n \in 1 .. Len(PoolAt) :
         f[n] = IF n \in places THEN Priced(f[n - 1], n) ELSE f[n - 1]
    BY <1>1, <1>4
<1> QED
    BY <1>2, <1>5, <1>6 DEF PricedWalk

\* The tables a rollback leaves, whatever sources it has priced: M are the
\* marks left, held the events, table the samples.
Rewound(w, M, table, held) ==
    /\ DOMAIN w = Tables /\ w.forward = FALSE /\ w.marks = M /\ w.newest = Latest(M)
    /\ DOMAIN w.samples = DOMAIN table /\ \A p \in DOMAIN table : w.samples[p] = table[p]
    /\ DOMAIN w.priced = held
    /\ \A p \in held \ pending :
          /\ p \in Sources => w.priced[p].ratio = OwnRatio(p)
          /\ PoolAt[p] = "cross" => w.priced[p].anchor = AnchorIn(M, p)

LEMMA RewoundStep ==
    ASSUME NEW M \in SUBSET Places, NEW table, NEW held, NEW w, Rewound(w, M, table, held),
           NEW n \in Sources, n \in held \ pending, n \in DOMAIN table, table[n] = OwnRatio(n),
           PoolAt[n] = "direct" <=> n \in M
    PROVE  Rewound(Priced(w, n), M, table, held)
<1>1. /\ n \in Places /\ \A p \in Places : PoolAt[p] \in {"direct", "cross"}
      /\ \A p \in Places : p \in Nat /\ p # NULL
    BY PlacesAreNumbers
<1> DEFINE R == M \ {n}
<1>2. PICK c : c = Unmarked(w, n)
    OBVIOUS
<1>3. /\ DOMAIN w = Tables /\ w.forward = FALSE /\ w.marks = M /\ w.newest = Latest(M)
      /\ DOMAIN w.samples = DOMAIN table /\ \A p \in DOMAIN table : w.samples[p] = table[p]
      /\ DOMAIN w.priced = held
    BY DEF Rewound
<1>4. \A p \in held \ pending :
          /\ p \in Sources => w.priced[p].ratio = OwnRatio(p)
          /\ PoolAt[p] = "cross" => w.priced[p].anchor = AnchorIn(M, p)
    BY DEF Rewound
<1>5. /\ DOMAIN c = Tables /\ c.forward = FALSE /\ c.marks = R /\ c.newest = Latest(R)
      /\ c.samples = w.samples /\ c.priced = w.priced
  <2>1. CASE n \notin M
    <3>1. c = w /\ R = M
        BY <1>2, <1>3, <2>1 DEF Unmarked
    <3> QED
        BY <1>3, <3>1
  <2>2. CASE n \in M
    <3>1. Latest(R) = IF Latest(M) = n THEN Latest(R) ELSE Latest(M)
      <4>1. Latest(M) \in M /\ \A m \in M : m <= Latest(M)
          BY <2>2, LatestOf
      <4>2. SUFFICES ASSUME Latest(M) # n PROVE Latest(R) = Latest(M)
          OBVIOUS
      <4>3. PICK x \in R : x = Latest(M) /\ \A m \in R : m <= x
          BY <4>1, <4>2
      <4>4. R \in SUBSET Places
          OBVIOUS
      <4>5. Latest(R) = x
          BY <4>3, <4>4, LatestIs
      <4> QED
          BY <4>3, <4>5
    <3>2. c = [w EXCEPT !.marks = @ \ {n}, !.newest = IF @ = n THEN Latest(w.marks \ {n}) ELSE @]
        BY <1>2, <1>3, <2>2 DEF Unmarked
    <3> DEFINE latest == IF w.newest = n THEN Latest(w.marks \ {n}) ELSE w.newest
    <3>3. latest = Latest(R)
        BY <1>3, <3>1
    <3>4. c = [w EXCEPT !.marks = @ \ {n}, !.newest = latest]
        BY <3>2, Zenon
    <3> HIDE DEF latest
    <3>5. /\ DOMAIN c = Tables /\ c.forward = w.forward /\ c.marks = w.marks \ {n}
          /\ c.newest = latest /\ c.samples = w.samples /\ c.priced = w.priced
        BY <1>3, <3>4 DEF Tables
    <3> QED
        BY <1>3, <3>3, <3>5
  <2> QED
      BY <2>1, <2>2
<1> DEFINE v == Priced(w, n)
<1>6. /\ DOMAIN v = Tables /\ v.forward = c.forward
      /\ v.samples = IF n \in Sources /\ ~c.forward THEN With(c.samples, n, OwnRatio(n))
                     ELSE c.samples
      /\ v.marks = IF n \in Sources /\ PoolAt[n] = "direct" /\ ~c.forward
                   THEN c.marks \cup {n} ELSE c.marks
      /\ v.newest = IF n \in Sources /\ PoolAt[n] = "direct" /\ (c.newest = NULL \/ n >= c.newest)
                    THEN n ELSE c.newest
    BY <1>2, <1>5, PricedTables
<1>16. \E quote : QuotedAt(v.priced, c, n, quote)
    BY <1>2, <1>5, PricedTables
<1>7. PICK quote : /\ v.priced = With(c.priced, n, quote)
                   /\ n \in Sources => quote.ratio = OwnRatio(n)
                   /\ PoolAt[n] = "cross" => quote.anchor = AnchorFor(c, n)
    BY <1>16 DEF QuotedAt
<1> HIDE DEF v
<1>8. v.marks = M
    BY <1>5, <1>6
<1>9. v.newest = Latest(M)
  <2>1. CASE n \in M
    <3>1. R \in SUBSET Places /\ R \cup {n} = M
        BY <2>1
    <3>2. Latest(R \cup {n}) = IF Latest(R) = NULL \/ n >= Latest(R) THEN n ELSE Latest(R)
        BY <1>1, <3>1, LatestWith
    <3>3. v.newest = IF Latest(R) = NULL \/ n >= Latest(R) THEN n ELSE Latest(R)
        BY <1>5, <1>6, <2>1
    <3> QED
        BY <3>1, <3>2, <3>3
  <2>2. CASE n \notin M
    <3>1. R = M
        BY <2>2
    <3> QED
        BY <1>5, <1>6, <2>2, <3>1
  <2> QED
      BY <2>1, <2>2
<1>10. v.samples = With(w.samples, n, OwnRatio(n))
    BY <1>5, <1>6
<1>11. DOMAIN v.samples = DOMAIN table /\ \A p \in DOMAIN table : v.samples[p] = table[p]
    BY <1>3, <1>10 DEF With
<1>12. /\ DOMAIN v.priced = held /\ v.priced[n] = quote
       /\ \A p \in held \ {n} : v.priced[p] = w.priced[p]
    BY <1>3, <1>5, <1>7 DEF With
<1>13. PoolAt[n] = "cross" => quote.anchor = AnchorIn(M, n)
  <2>1. SUFFICES ASSUME PoolAt[n] = "cross" PROVE AnchorFor(c, n) = AnchorIn(M, n)
      BY <1>7
  <2>2. R = M
      BY <2>1
  <2>3. c.newest = Latest(M) /\ c.marks = M
      BY <1>5, <2>2
  <2> QED
      BY <1>1, <2>3, AnchorForOf
<1>14. \A p \in held \ pending :
          /\ p \in Sources => v.priced[p].ratio = OwnRatio(p)
          /\ PoolAt[p] = "cross" => v.priced[p].anchor = AnchorIn(M, p)
    BY <1>4, <1>7, <1>12, <1>13
<1>15. Rewound(v, M, table, held)
    BY <1>5, <1>6, <1>8, <1>9, <1>11, <1>12, <1>14 DEF Rewound
<1> QED
    BY <1>15 DEF v

LEMMA RewoundWalk ==
    ASSUME NEW M \in SUBSET Places, NEW table, NEW held, NEW again, again \subseteq held \ pending,
           again \subseteq Sources \cap DOMAIN table,
           \A n \in again : table[n] = OwnRatio(n) /\ (PoolAt[n] = "direct" <=> n \in M),
           NEW base, Rewound(base, M, table, held)
    PROVE  Rewound(PricedInOrder(base, again), M, table, held)
<1>1. PICK f : PricedWalk(f, base, again)
    BY PricedWalks
<1>2. Len(PoolAt) \in Nat /\ Places = 1 .. Len(PoolAt) /\ again \subseteq Places
    BY PlacesAreNumbers
<1> DEFINE good == {n \in Nat : n <= Len(PoolAt) => Rewound(f[n], M, table, held)}
<1>3. 0 \in good
    BY <1>1 DEF PricedWalk
<1>4. ASSUME NEW n \in good PROVE n + 1 \in good
  <2>1. SUFFICES ASSUME n + 1 <= Len(PoolAt) PROVE Rewound(f[n + 1], M, table, held)
      OBVIOUS
  <2>2. n \in Nat /\ n + 1 \in 1 .. Len(PoolAt) /\ (n + 1) - 1 = n
      BY <1>2, <2>1
  <2>3. Rewound(f[n], M, table, held)
      BY <1>2, <2>1, <2>2
  <2>4. f[n + 1] = IF n + 1 \in again THEN Priced(f[n], n + 1) ELSE f[n]
      BY <1>1, <2>2 DEF PricedWalk
  <2>5. CASE n + 1 \in again
    <3>1. Rewound(Priced(f[n], n + 1), M, table, held)
        BY <2>3, <2>5, RewoundStep
    <3> QED
        BY <2>4, <2>5, <3>1
  <2>6. CASE n + 1 \notin again
      BY <2>3, <2>4, <2>6
  <2> QED
      BY <2>5, <2>6
<1>5. good \in SUBSET Nat
    OBVIOUS
<1> HIDE DEF good
<1>6. good = Nat
    BY <1>3, <1>4, <1>5, NumberInduction
<1>7. Rewound(f[Len(PoolAt)], M, table, held)
    BY <1>2, <1>6 DEF good
<1> QED
    BY <1>1, <1>7 DEF PricedWalk

\* The sources a rollback prices again, and the tables it starts from.
RepricedOf(pool, ancestor) ==
    LET last == Latest({p \in storedAt \cap Sources : p <= ancestor /\ PoolAt[p] = pool})
    IN  IF stateOf[pool] # NULL /\ stateOf[pool].at > ancestor /\ last # NULL
        THEN {last} ELSE {}

Again(ancestor) == RepricedOf("direct", ancestor) \cup RepricedOf("cross", ancestor)

Restricted(f, ancestor) == [p \in PlacesUpTo(DOMAIN f, ancestor) |-> f[p]]

RollbackBase(ancestor) ==
    [samples |-> Restricted(samples, ancestor), marks |-> PlacesUpTo(marks, ancestor),
     stateOf |-> stateOf, priced |-> Restricted(priced, ancestor),
     newest |-> Latest(PlacesUpTo(marks, ancestor)), forward |-> FALSE]

LEMMA RollbackIs ==
    ASSUME NEW ancestor, RollbackPrices(ancestor), NEW w,
           w = PricedInOrder(RollbackBase(ancestor), Again(ancestor))
    PROVE  /\ hasty' = (hasty \/ Again(ancestor) \cap pending # {})
           /\ storedAt' = PlacesUpTo(storedAt, ancestor)
           /\ samples' = w.samples /\ marks' = w.marks /\ priced' = w.priced
           /\ pending' = PlacesUpTo(pending, ancestor) /\ decimals' = decimals
BY DEF RollbackPrices, PricedInOrder, RollbackBase, Again, RepricedOf, Restricted, PlacesUpTo

LEMMA AgainStored ==
    ASSUME NEW ancestor, storedAt \in SUBSET Places
    PROVE  Again(ancestor) \subseteq PlacesUpTo(storedAt, ancestor) \cap Sources
<1>1. \A p \in Places : p # NULL
    BY PlacesAreNumbers
<1>2. ASSUME NEW pool PROVE RepricedOf(pool, ancestor) \subseteq PlacesUpTo(storedAt, ancestor) \cap Sources
  <2> DEFINE S == {p \in storedAt \cap Sources : p <= ancestor /\ PoolAt[p] = pool}
  <2>1. S \in SUBSET Places /\ S \subseteq PlacesUpTo(storedAt, ancestor) \cap Sources
      BY DEF PlacesUpTo
  <2>2. RepricedOf(pool, ancestor) \subseteq {Latest(S)}
        /\ (Latest(S) = NULL => RepricedOf(pool, ancestor) = {})
      BY DEF RepricedOf
  <2> HIDE DEF S
  <2>3. Latest(S) = NULL \/ Latest(S) \in S
      BY <2>1, LatestOf
  <2> QED
      BY <2>1, <2>2, <2>3
<1> QED
    BY <1>2 DEF Again

LEMMA RollbackPricesKeeps ==
    ASSUME Settled, NEW ancestor \in 0 .. Len(PoolAt), RollbackPrices(ancestor), ~hasty'
    PROVE  Settled'
<1> DEFINE again == Again(ancestor)
           held == PlacesUpTo(storedAt, ancestor)
           M == PlacesUpTo(marks, ancestor)
           table == Restricted(samples, ancestor)
           prices == Restricted(priced, ancestor)
           base == RollbackBase(ancestor)
<1>1. PICK w : w = PricedInOrder(base, again)
    OBVIOUS
<1>2. /\ again \cap pending = {}
      /\ storedAt' = held
      /\ samples' = w.samples /\ marks' = w.marks /\ priced' = w.priced
      /\ pending' = PlacesUpTo(pending, ancestor) /\ decimals' = decimals
    BY <1>1, RollbackIs
<1>3. /\ storedAt \in SUBSET Places /\ pending \subseteq storedAt /\ DOMAIN priced = storedAt
      /\ DOMAIN samples \subseteq storedAt \cap Sources
      /\ marks \subseteq {p \in DOMAIN samples : PoolAt[p] = "direct"}
      /\ marks \cap pending = {}
    BY DEF Settled, PriceTables, MarksUnqueued
<1>4. \A p \in (storedAt \cap Sources) \ pending :
        /\ p \in DOMAIN samples /\ samples[p] = OwnRatio(p) /\ priced[p].ratio = OwnRatio(p)
        /\ PoolAt[p] = "direct" => p \in marks
    BY DEF Settled, SourcesSettled
<1>5. again \subseteq held \cap Sources
    BY <1>3, AgainStored
<1>6. \A p \in again : p \in storedAt /\ p <= ancestor /\ p \in Sources /\ p \notin pending
    BY <1>2, <1>5 DEF PlacesUpTo
<1>7. /\ DOMAIN table = PlacesUpTo(DOMAIN samples, ancestor)
      /\ \A p \in DOMAIN table : table[p] = samples[p]
      /\ DOMAIN prices = held /\ \A p \in held : prices[p] = priced[p]
    BY <1>3 DEF Restricted, PlacesUpTo
<1>8. /\ DOMAIN base = Tables /\ base.forward = FALSE /\ base.marks = M /\ base.newest = Latest(M)
      /\ base.samples = table /\ base.priced = prices
    BY DEF RollbackBase, Tables
<1> HIDE DEF again, table, prices, base, held, M
<1>9. \A p \in storedAt : p <= ancestor => AnchorIn(M, p) = AnchorIn(marks, p)
  <2>1. SUFFICES ASSUME NEW p \in storedAt, p <= ancestor PROVE PlacesUpTo(M, p) = PlacesUpTo(marks, p)
      BY DEF AnchorIn
  <2>2. \A q \in Places : q \in Nat
      BY PlacesAreNumbers
  <2>3. \A m \in marks : m <= p => m <= ancestor
      BY <1>3, <2>1, <2>2
  <2> QED
      BY <2>3 DEF M, PlacesUpTo
<1>10. Rewound(base, M, table, held)
  <2>1. ASSUME NEW p \in held \ pending
        PROVE  /\ p \in Sources => prices[p].ratio = OwnRatio(p)
               /\ PoolAt[p] = "cross" => prices[p].anchor = AnchorIn(M, p)
    <3>1. p \in storedAt \ pending /\ p <= ancestor
        BY <2>1 DEF held, PlacesUpTo
    <3>2. PoolAt[p] = "cross" => priced[p].anchor = AnchorIn(marks, p)
        BY <3>1 DEF Settled, AnchorsSettled
    <3> QED
        BY <1>4, <1>7, <1>9, <2>1, <3>1, <3>2
  <2> QED
      BY <1>7, <1>8, <2>1 DEF Rewound
<1>11. Rewound(w, M, table, held)
  <2>1. M \in SUBSET Places
      BY <1>3 DEF M, PlacesUpTo
  <2>2. again \subseteq held \ pending
      BY <1>2, <1>5
  <2>3. again \subseteq Sources \cap DOMAIN table
      BY <1>4, <1>6, <1>7 DEF PlacesUpTo
  <2>4. ASSUME NEW n \in again PROVE table[n] = OwnRatio(n) /\ (PoolAt[n] = "direct" <=> n \in M)
    <3>1. n \in (storedAt \cap Sources) \ pending /\ n <= ancestor
        BY <1>6
    <3> QED
        BY <1>3, <1>4, <1>7, <2>3, <3>1 DEF M, PlacesUpTo
  <2> QED
      BY <1>1, <1>10, <2>1, <2>2, <2>3, <2>4, RewoundWalk
<1>12. /\ w.marks = M /\ DOMAIN w.samples = DOMAIN table
       /\ \A p \in DOMAIN table : w.samples[p] = table[p]
       /\ DOMAIN w.priced = held
       /\ \A p \in held \ pending :
             /\ p \in Sources => w.priced[p].ratio = OwnRatio(p)
             /\ PoolAt[p] = "cross" => w.priced[p].anchor = AnchorIn(M, p)
    BY <1>11 DEF Rewound
<1>13. held \ PlacesUpTo(pending, ancestor) = held \ pending
    BY DEF held, PlacesUpTo
<1>14. PriceTables'
  <2>1. held \in SUBSET Places /\ PlacesUpTo(pending, ancestor) \subseteq held
      BY <1>3 DEF held, PlacesUpTo
  <2>2. DOMAIN table \subseteq held \cap Sources
      BY <1>3, <1>7 DEF held, PlacesUpTo
  <2>3. M \subseteq {p \in DOMAIN table : PoolAt[p] = "direct"}
      BY <1>3, <1>7 DEF M, PlacesUpTo
  <2> QED
      BY <1>2, <1>12, <2>1, <2>2, <2>3 DEF PriceTables
<1>15. MarksUnqueued'
    BY <1>2, <1>3, <1>12 DEF MarksUnqueued, M, PlacesUpTo
<1>16. SourcesSettled'
  <2>1. ASSUME NEW p \in (held \cap Sources) \ pending
        PROVE  /\ p \in DOMAIN w.samples /\ w.samples[p] = OwnRatio(p)
               /\ w.priced[p].ratio = OwnRatio(p) /\ (PoolAt[p] = "direct" => p \in M)
    <3>1. p \in (storedAt \cap Sources) \ pending /\ p <= ancestor
        BY <2>1 DEF held, PlacesUpTo
    <3>2. p \in DOMAIN table
        BY <1>4, <1>7, <3>1 DEF PlacesUpTo
    <3> QED
        BY <1>4, <1>7, <1>12, <2>1, <3>1, <3>2 DEF M, PlacesUpTo
  <2>2. \A p : OwnRatio(p)' = OwnRatio(p)
      BY <1>2 DEF OwnRatio
  <2>3. (held \cap Sources) \ PlacesUpTo(pending, ancestor) = (held \cap Sources) \ pending
      BY <1>13
  <2> QED
      BY <1>2, <1>12, <2>1, <2>2, <2>3 DEF SourcesSettled
<1>17. AnchorsSettled'
  <2>1. marks' = M
      BY <1>2, <1>12
  <2>2. \A p \in storedAt' \ pending' : PoolAt[p] = "cross" => priced'[p].anchor = AnchorIn(marks', p)
      BY <1>2, <1>12, <1>13, <2>1
  <2> QED
      BY <2>2 DEF AnchorsSettled
<1> QED
    BY <1>14, <1>15, <1>16, <1>17 DEF Settled

LEMMA StoreProjectedKeeps ==
    ASSUME Settled, NEW delivery \in Deliveries, StoreProjected(delivery)
    PROVE  Settled'
<1>1. /\ storedAt \in SUBSET Places /\ pending \subseteq storedAt /\ marks \subseteq storedAt
    BY DEF Settled, PriceTables
<1>2. /\ delivery \in SUBSET (Places \ storedAt)
      /\ storedAt' = storedAt \cup delivery /\ decimals' = decimals
      /\ ProjectPrice(delivery, storedAt \cup delivery, pending)
    BY DEF StoreProjected, Deliveries
<1>3. storedAt \cup delivery \in SUBSET Places
    BY <1>1, <1>2
<1>4. delivery \cap marks = {} /\ pending \cap delivery = {}
    BY <1>1, <1>2
<1> QED
    BY <1>2, <1>3, <1>4, ProjectKeeps

LEMMA ReprojectKeeps ==
    ASSUME Settled, NEW oldest, NEW newest, Reproject(oldest, newest)
    PROVE  Settled'
<1> DEFINE delivery == {p \in pending : \/ Cardinality({q \in pending : q < p}) < oldest
                                        \/ Cardinality({q \in pending : q > p}) < newest}
<1>1. /\ storedAt \in SUBSET Places /\ pending \subseteq storedAt /\ marks \cap pending = {}
    BY DEF Settled, PriceTables, MarksUnqueued
<1>2. /\ delivery \subseteq pending
      /\ storedAt' = storedAt /\ decimals' = decimals
      /\ ProjectPrice(delivery, storedAt, pending \ delivery)
    BY DEF Reproject
<1> HIDE DEF delivery
<1>3. /\ storedAt = storedAt \cup delivery /\ delivery \cap marks = {}
      /\ pending \ delivery \subseteq pending /\ (pending \ delivery) \cap delivery = {}
      /\ pending \subseteq (pending \ delivery) \cup delivery
    BY <1>1, <1>2
<1> QED
    BY <1>1, <1>2, <1>3, ProjectKeeps

LEMMA RawEventsKeep ==
    ASSUME Settled, NEW delivery \in Deliveries, StoreRaw(delivery)
    PROVE  Settled'
<1>1. /\ storedAt \in SUBSET Places /\ pending \subseteq storedAt /\ DOMAIN priced = storedAt
      /\ DOMAIN samples \subseteq storedAt \cap Sources
      /\ marks \subseteq {p \in DOMAIN samples : PoolAt[p] = "direct"} /\ marks \cap pending = {}
    BY DEF Settled, PriceTables, MarksUnqueued
<1>2. /\ delivery \in SUBSET (Places \ storedAt) /\ storedAt' = storedAt \cup delivery
      /\ pending' = pending \cup delivery
      /\ decimals' = decimals /\ samples' = samples /\ marks' = marks
      /\ DOMAIN priced' = storedAt \cup delivery /\ \A p \in storedAt : priced'[p] = priced[p]
    BY <1>1 DEF StoreRaw, Deliveries
<1>3. storedAt' \ pending' \subseteq storedAt \ pending
    BY <1>2
<1>4. PriceTables'
    BY <1>1, <1>2 DEF PriceTables
<1>5. MarksUnqueued'
    BY <1>1, <1>2 DEF MarksUnqueued
<1>6. SourcesSettled'
  <2>1. \A p : OwnRatio(p)' = OwnRatio(p)
      BY <1>2 DEF OwnRatio
  <2> QED
      BY <1>2, <1>3, <2>1 DEF Settled, SourcesSettled
<1>7. AnchorsSettled'
  <2>1. \A p \in storedAt' \ pending' : PoolAt[p] = "cross" => priced'[p].anchor = AnchorIn(marks', p)
      BY <1>2, <1>3 DEF Settled, AnchorsSettled
  <2> QED
      BY <2>1 DEF AnchorsSettled
<1> QED
    BY <1>4, <1>5, <1>6, <1>7 DEF Settled

LEMMA LearnDecimalsKeeps ==
    ASSUME Settled, LearnDecimals
    PROVE  Settled'
<1>1. /\ storedAt \in SUBSET Places /\ pending \subseteq storedAt /\ DOMAIN priced = storedAt
      /\ DOMAIN samples \subseteq storedAt \cap Sources
      /\ marks \subseteq {p \in DOMAIN samples : PoolAt[p] = "direct"} /\ marks \cap pending = {}
    BY DEF Settled, PriceTables, MarksUnqueued
<1>2. /\ storedAt' = storedAt /\ samples' = samples /\ marks' = marks /\ priced' = priced
      /\ pending' = pending \cup {p \in storedAt : PoolAt[p] = "cross"}
    BY DEF LearnDecimals
<1>3. \A p \in storedAt' \ pending' : p \in storedAt \ pending /\ PoolAt[p] = "direct"
    BY <1>1, <1>2, PlacesAreNumbers
<1>4. PriceTables'
    BY <1>1, <1>2 DEF PriceTables
<1>5. MarksUnqueued'
    BY <1>1, <1>2 DEF MarksUnqueued
<1>6. SourcesSettled'
  <2>1. \A p : PoolAt[p] = "direct" => OwnRatio(p)' = OwnRatio(p)
      BY DEF OwnRatio
  <2> QED
      BY <1>2, <1>3, <2>1 DEF Settled, SourcesSettled
<1>7. AnchorsSettled'
    BY <1>3 DEF AnchorsSettled
<1> QED
    BY <1>4, <1>5, <1>6, <1>7 DEF Settled

LEMMA SettledMarks ==
    ASSUME ~hasty => Settled
    PROVE  MarksSettled
<1>1. SUFFICES ASSUME pending = {}, ~hasty, NEW p \in storedAt
               PROVE  /\ p \in Sources => priced[p].ratio = OwnRatio(p)
                      /\ PoolAt[p] = "cross" => priced[p].anchor = TrueAnchor(p)
    BY DEF MarksSettled
<1>2. Settled /\ p \in storedAt \ pending
    BY <1>1
<1>3. p \in Sources => priced[p].ratio = OwnRatio(p)
    BY <1>2 DEF Settled, SourcesSettled
<1>4. PoolAt[p] = "cross" => priced[p].anchor = AnchorIn(marks, p)
    BY <1>2 DEF Settled, AnchorsSettled
<1>5. marks = {m \in storedAt \cap Sources : PoolAt[m] = "direct"}
    BY <1>1, <1>2 DEF Settled, PriceTables, SourcesSettled
<1>6. PlacesUpTo(marks, p) = {m \in storedAt \cap Sources : m <= p /\ PoolAt[m] = "direct"}
    BY <1>5 DEF PlacesUpTo
<1>7. AnchorIn(marks, p) = TrueAnchor(p)
    BY <1>6 DEF AnchorIn, TrueAnchor
<1> QED
    BY <1>3, <1>4, <1>7

\* Once the repair queue is empty, every stored source has its own price and
\* every cross-pool event the anchor in force at its place, up to a rollback
\* that prices a queued source: a late sample queues whatever it disturbs
\* (_queue_successors), and a rollback disturbs nothing it keeps.
THEOREM MarksAlwaysSettled == PriceSpec => []MarksSettled
<1> DEFINE Inv == hasty \in BOOLEAN /\ (~hasty => Settled)
<1>1. PriceInit => Inv
  <2> SUFFICES ASSUME PriceInit PROVE Inv
      OBVIOUS
  <2>1. /\ storedAt = {} /\ marks = {} /\ pending = {} /\ hasty = FALSE
        /\ DOMAIN samples = {} /\ DOMAIN priced = {}
      BY DEF PriceInit
  <2> QED
      BY <2>1 DEF Settled, PriceTables, MarksUnqueued, SourcesSettled, AnchorsSettled
<1>2. Inv /\ [PriceNext]_priceVars => Inv'
  <2> SUFFICES ASSUME Inv, [PriceNext]_priceVars PROVE Inv'
      OBVIOUS
  <2>1. ASSUME NEW delivery \in Deliveries, StoreProjected(delivery) PROVE Inv'
    <3>1. hasty' = hasty
        BY <2>1 DEF StoreProjected
    <3> QED
        BY <2>1, <3>1, StoreProjectedKeeps
  <2>2. ASSUME NEW delivery \in Deliveries, StoreRaw(delivery) PROVE Inv'
    <3>1. hasty' = hasty
        BY <2>2 DEF StoreRaw
    <3> QED
        BY <2>2, <3>1, RawEventsKeep
  <2>3. ASSUME NEW oldest, NEW newest, Reproject(oldest, newest) PROVE Inv'
    <3>1. hasty' = hasty
        BY <2>3 DEF Reproject
    <3> QED
        BY <2>3, <3>1, ReprojectKeeps
  <2>4. CASE LearnDecimals
    <3>1. hasty' = hasty
        BY <2>4 DEF LearnDecimals
    <3> QED
        BY <2>4, <3>1, LearnDecimalsKeeps
  <2>5. ASSUME NEW ancestor \in 0 .. Len(PoolAt), RollbackPrices(ancestor) PROVE Inv'
    <3>1. hasty' \in BOOLEAN /\ (~hasty' => ~hasty)
        BY <2>5 DEF RollbackPrices
    <3> QED
        BY <2>5, <3>1, RollbackPricesKeeps
  <2>6. CASE UNCHANGED priceVars
      BY <2>6 DEF priceVars, Settled, PriceTables, MarksUnqueued, SourcesSettled,
                  AnchorsSettled, OwnRatio, AnchorIn, Fresh, Latest, PlacesUpTo
  <2> QED
      BY <2>1, <2>2, <2>3, <2>4, <2>5, <2>6 DEF PriceNext
<1>3. Inv => MarksSettled
    BY SettledMarks
<1> QED
    BY <1>1, <1>2, <1>3, PTL DEF PriceSpec

=============================================================================
