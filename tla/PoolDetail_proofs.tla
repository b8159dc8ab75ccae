-------------------------- MODULE PoolDetail_proofs --------------------------
(***************************************************************************)
(* What the detail of a pool shows is the chain's: its curve, where it is  *)
(* called complete, and its events in the intervals called covered, for    *)
(* chains of any length with any number of reorganisations of any depth,   *)
(* and for every interleaving of the two threads, the index and the chain. *)
(***************************************************************************)
EXTENDS PoolDetail, SequenceTheorems, FiniteSetTheorems, WellFoundedInduction, TLAPS

\* Block a lies on the branch that ends in h.
On(a, h) == Len(a) <= Len(h) /\ a = Ancestor(h, Len(a))

\* A block the chain has shown: no fork on its path is newer than the newest,
\* and unless it is canonical the chain has another block at one of its heights.
Seen(h) ==
    /\ h \in Hashes
    /\ \A i \in 1..Len(h) : h[i] <= forks
    /\ Canonical(h) \/ \E i \in 1..Len(h) : i <= Len(chain) /\ h[i] # chain[i]

ChainOK ==
    /\ chain \in Hashes /\ forks \in 0..MaxForks
    /\ \A i \in 1..Len(chain) : chain[i] <= forks

Fields == {"needsSeed", "cursor", "net", "state", "verified", "dirty", "fed", "swaps", "lp",
           "start", "through", "pending", "base", "floor", "frontier", "complete", "ranges"}

FeedOK ==
    /\ kind \in {"v2", "v3", "v4"}
    /\ \A b \in feed.blocks : Seen(b)
    /\ feed.carried \subseteq feed.blocks

(***************************************************************************)
(* A selection that follows the chain.                                     *)
(***************************************************************************)

\* What is covered lies at or below the cursor and is there.
HasEvents(v) ==
    /\ v.start = NULL <=> v.through = NULL
    /\ v.start # NULL =>
          /\ v.start \in Nat /\ v.through \in Nat /\ v.through <= Len(v.cursor)
          /\ Swaps(v.cursor, v.start, v.through) \subseteq v.swaps
          /\ kind = "v3" => Shapes(v.cursor, v.start, v.through) \subseteq v.lp
    /\ v.floor \in Nat /\ v.floor <= Len(v.cursor) + 1
    /\ v.base \in Nat /\ v.base <= Len(v.cursor) + 1
    /\ kind = "v3" => Shapes(v.cursor, v.floor, v.base - 1) \subseteq v.lp

\* The curve was read at a block of the cursor's branch, and nothing between
\* that block and the last verified one changed its shape.
HasCurve(v) ==
    /\ v.state \in Hashes /\ On(v.state, v.cursor)
    /\ v.verified \in Int /\ v.verified <= Len(v.cursor)
    /\ v.dirty \in Int \cup {NULL}
    /\ Shapes(v.cursor, Len(v.state) + 1, v.verified) = {}

Follows(v) == v.cursor \in Hashes /\ HasEvents(v) /\ HasCurve(v)

ViewOK ==
    /\ DOMAIN view = Fields
    /\ view.needsSeed \in BOOLEAN
    /\ view.cursor # NULL => Seen(view.cursor)
    /\ ~view.needsSeed => Follows(view)

\* The words were read where the curve had the shape it has at block h.
Words(v, h) == \A w \in DOMAIN v.net : SameCurve(v.net[w], h)

Loading == poll.pc = "confirm" /\ poll.loaded

\* What the live thread has in hand before its confirmation.
PollOK ==
    /\ poll.pc = "confirm" =>
          /\ Seen(poll.head) /\ poll.mode \in {"seed", "advance", "same"}
          /\ poll.mode = "seed" =>
                /\ view.needsSeed /\ ~errand.same /\ view.dirty = NULL
                /\ view.start = NULL /\ view.through = NULL
                /\ Concentrated => poll.loaded
          /\ poll.mode # "seed" =>
                ~view.needsSeed /\ (Canonical(poll.head) => On(view.cursor, poll.head))
          /\ poll.mode = "same" => poll.head = view.cursor
          /\ poll.loaded /\ ~torn /\ Canonical(poll.head) => Words(view, poll.head)
    /\ ~torn /\ ~view.needsSeed /\ Concentrated /\ ~Loading => Words(view, view.state)

\* What the maintenance thread has in hand.
ErrandOK ==
    /\ DOMAIN errand = {"pc", "at", "from", "to", "mark", "logs", "same"}
    /\ errand.pc \in {"recent", "olderRead"} =>
        /\ Seen(errand.at) /\ errand.from \in Nat /\ errand.logs \subseteq Hashes
        /\ errand.same /\ ~view.needsSeed =>
              On(errand.at, view.cursor) /\ view.base <= Len(errand.at) + 1
        /\ errand.pc = "recent" =>
              /\ errand.to = Len(errand.at) /\ errand.from <= errand.to + 1
              /\ Canonical(errand.at) =>
                    Swaps(errand.at, errand.from, errand.to) \cup Shapes(errand.at, errand.from, errand.to)
                        \subseteq errand.logs
              /\ errand.same /\ ~view.needsSeed /\ view.through # NULL =>
                    errand.from = view.through + 1
        /\ errand.pc = "olderRead" =>
              /\ errand.to \in Nat /\ errand.from <= errand.to /\ errand.to <= Len(errand.at)
              /\ Shapes(errand.at, errand.from, errand.to) \subseteq errand.logs

DetailInv == ChainOK /\ FeedOK /\ ViewOK /\ PollOK /\ ErrandOK

-----------------------------------------------------------------------------
(* Hashes are bounded sequences.                                           *)

Blocks == UNION { [1..n -> 0..MaxForks] : n \in 0..MaxHeight }

LEMMA HashesAre == Hashes = Blocks
BY ChainAssumption DEF Hashes, BoundedSeq, SeqOf, Blocks

LEMMA HashLength ==
    ASSUME NEW h \in Hashes
    PROVE  /\ h \in Seq(0..MaxForks) /\ Len(h) \in 0..MaxHeight /\ Len(h) \in Nat
           /\ \A i \in 1..Len(h) : h[i] \in 0..MaxForks /\ h[i] \in Nat
<1>1. PICK n \in 0..MaxHeight : h \in [1..n -> 0..MaxForks]
    BY HashesAre DEF Blocks
<1>2. h \in Seq(0..MaxForks) /\ Len(h) = n
    BY <1>1, ChainAssumption
<1> QED
    BY <1>1, <1>2, ChainAssumption

LEMMA SeqIsHash ==
    ASSUME NEW h \in Seq(0..MaxForks), Len(h) <= MaxHeight
    PROVE  h \in Hashes
<1>1. Len(h) \in 0..MaxHeight /\ h \in [1..Len(h) -> 0..MaxForks]
    BY ChainAssumption
<1> QED
    BY <1>1, HashesAre DEF Blocks

LEMMA HashEqual ==
    ASSUME NEW a \in Hashes, NEW b \in Hashes, Len(a) = Len(b),
           \A i \in 1..Len(a) : a[i] = b[i]
    PROVE  a = b
BY HashLength, SeqEqual

LEMMA AncestorIs ==
    ASSUME NEW h \in Hashes, NEW n \in 0..Len(h)
    PROVE  /\ Ancestor(h, n) \in Hashes /\ Len(Ancestor(h, n)) = n
           /\ \A i \in 1..n : Ancestor(h, n)[i] = h[i]
<1>1. h \in Seq(0..MaxForks) /\ Len(h) \in 0..MaxHeight /\ n \in Nat
    BY HashLength
<1>2. \A i \in 1..n : h[i] \in 0..MaxForks
    BY <1>1, HashLength
<1>3. /\ SubSeq(h, 1, n) \in Seq(0..MaxForks)
      /\ Len(SubSeq(h, 1, n)) = IF 1 <= n THEN n - 1 + 1 ELSE 0
      /\ \A i \in 1..(n - 1 + 1) : SubSeq(h, 1, n)[i] = h[1 + i - 1]
    BY <1>1, <1>2, SubSeqProperties
<1>4. Ancestor(h, n) \in Seq(0..MaxForks) /\ Len(Ancestor(h, n)) = n
    BY <1>1, <1>3 DEF Ancestor
<1>5. \A i \in 1..n : Ancestor(h, n)[i] = h[i]
    BY <1>1, <1>3 DEF Ancestor
<1> QED
    BY <1>1, <1>4, <1>5, SeqIsHash, ChainAssumption

\* One block below another, height by height.
LEMMA OnIs ==
    ASSUME NEW a \in Hashes, NEW h \in Hashes
    PROVE  On(a, h) <=> Len(a) <= Len(h) /\ \A i \in 1..Len(a) : a[i] = h[i]
<1> SUFFICES ASSUME Len(a) <= Len(h)
             PROVE  a = Ancestor(h, Len(a)) <=> \A i \in 1..Len(a) : a[i] = h[i]
    BY DEF On
<1>1. Len(a) \in 0..Len(h)
    BY HashLength
<1>2. /\ Ancestor(h, Len(a)) \in Hashes /\ Len(Ancestor(h, Len(a))) = Len(a)
      /\ \A i \in 1..Len(a) : Ancestor(h, Len(a))[i] = h[i]
    BY <1>1, AncestorIs
<1>3. ASSUME \A i \in 1..Len(a) : a[i] = h[i] PROVE a = Ancestor(h, Len(a))
    BY <1>2, <1>3, HashEqual
<1>4. ASSUME a = Ancestor(h, Len(a)) PROVE \A i \in 1..Len(a) : a[i] = h[i]
    BY <1>2, <1>4
<1> QED
    BY <1>3, <1>4

LEMMA OnTransitive ==
    ASSUME NEW a \in Hashes, NEW b \in Hashes, NEW h \in Hashes, On(a, b), On(b, h)
    PROVE  On(a, h)
BY OnIs, HashLength

LEMMA OnItself ==
    ASSUME NEW h \in Hashes
    PROVE  On(h, h)
BY OnIs, HashLength

\* Blocks on one branch are ordered by their numbers.
LEMMA OnSameBranch ==
    ASSUME NEW a \in Hashes, NEW b \in Hashes, NEW h \in Hashes,
           On(a, h), On(b, h), Len(a) <= Len(b)
    PROVE  On(a, b)
BY OnIs, HashLength

LEMMA OnSameNumber ==
    ASSUME NEW a \in Hashes, NEW h \in Hashes, On(a, h), Len(a) = Len(h)
    PROVE  a = h
BY OnIs, HashEqual

LEMMA CanonicalIs == \A h : Canonical(h) <=> On(h, chain)
BY DEF Canonical, At, On

\* eth_getBlockByNumber answers with the canonical block of that number.
LEMMA AtIs ==
    ASSUME ChainOK, NEW n \in 0..Len(chain)
    PROVE  /\ At(n) \in Hashes /\ Len(At(n)) = n
           /\ Canonical(At(n)) /\ Seen(At(n))
<1>1. chain \in Hashes /\ Len(chain) \in Nat
    BY HashLength DEF ChainOK
<1>2. /\ At(n) \in Hashes /\ Len(At(n)) = n
      /\ \A i \in 1..n : At(n)[i] = chain[i]
    BY <1>1, AncestorIs DEF At
<1>3. Canonical(At(n))
    BY <1>1, <1>2 DEF Canonical
<1>4. \A i \in 1..n : At(n)[i] <= forks
    BY <1>1, <1>2 DEF ChainOK
<1> QED
    BY <1>2, <1>3, <1>4 DEF Seen

LEMMA CanonicalAt ==
    ASSUME NEW h, Canonical(h)
    PROVE  At(Len(h)) = h
BY DEF Canonical

-----------------------------------------------------------------------------
(* What a branch holds for the pool.                                       *)

\* Up to a block of its own, a branch holds what that block's branch holds.
LEMMA BranchOn ==
    ASSUME NEW a \in Hashes, NEW h \in Hashes, On(a, h),
           NEW from \in Nat, NEW to \in Int, to <= Len(a)
    PROVE  /\ Branch(a, from, to) = Branch(h, from, to)
           /\ Swaps(a, from, to) = Swaps(h, from, to)
           /\ Shapes(a, from, to) = Shapes(h, from, to)
<1>1. Len(a) \in Nat /\ Len(h) \in Nat /\ Len(a) <= Len(h)
    BY HashLength DEF On
<1>2. ASSUME NEW n \in 0..Len(a) PROVE Ancestor(a, n) = Ancestor(h, n)
  <2>1. n \in 0..Len(h)
      BY <1>1
  <2>2. /\ Ancestor(a, n) \in Hashes /\ Len(Ancestor(a, n)) = n
        /\ \A i \in 1..n : Ancestor(a, n)[i] = a[i]
      BY AncestorIs
  <2>3. /\ Ancestor(h, n) \in Hashes /\ Len(Ancestor(h, n)) = n
        /\ \A i \in 1..n : Ancestor(h, n)[i] = h[i]
      BY <2>1, AncestorIs
  <2>4. \A i \in 1..n : a[i] = h[i]
      BY <1>1, OnIs
  <2> QED
      BY <2>2, <2>3, <2>4, HashEqual
<1>3. \A n \in from..to : n \in 0..Len(a) /\ n <= Len(a) /\ n <= Len(h)
    BY <1>1
<1>4. Branch(a, from, to) = Branch(h, from, to)
    BY <1>2, <1>3 DEF Branch
<1> QED
    BY <1>4 DEF Swaps, Shapes

LEMMA NoInterval ==
    ASSUME NEW h, NEW from \in Int, NEW to \in Int, to < from
    PROVE  Swaps(h, from, to) = {} /\ Shapes(h, from, to) = {}
<1>1. from..to = {}
    OBVIOUS
<1> QED
    BY <1>1 DEF Swaps, Shapes, Branch

\* Curves with no change of shape between them.
LEMMA SameShape ==
    ASSUME NEW a \in Hashes, NEW h \in Hashes, On(a, h), Shapes(h, Len(a) + 1, Len(h)) = {}
    PROVE  SameCurve(a, h)
<1>1. Len(a) \in Nat /\ Len(h) \in Nat /\ Len(a) <= Len(h)
    BY HashLength DEF On
<1>2. Shapes(a, 1, Len(a)) = Shapes(h, 1, Len(a))
    BY <1>1, BranchOn
<1>3. Shapes(h, 1, Len(h)) \subseteq Shapes(h, 1, Len(a)) \cup Shapes(h, Len(a) + 1, Len(h))
  <2>1. \A n \in 1..Len(h) : n \in 1..Len(a) \/ n \in (Len(a) + 1)..Len(h)
      BY <1>1
  <2> QED
      BY <2>1 DEF Shapes, Branch
<1>4. Shapes(h, 1, Len(a)) \subseteq Shapes(h, 1, Len(h)) \cup Shapes(h, 1, Len(h))
  <2>1. \A n \in 1..Len(a) : n \in 1..Len(h) \/ n \in 1..Len(h)
      BY <1>1
  <2> QED
      BY <2>1 DEF Shapes, Branch
<1> QED
    BY <1>2, <1>3, <1>4 DEF SameCurve

-----------------------------------------------------------------------------
(* The chain moves: no block that left it comes back.                      *)

LEMMA ChainSteps ==
    ASSUME ChainOK, Mine \/ Reorganise
    PROVE  ChainOK' /\ \A h : Seen(h) => Seen(h)' /\ (Canonical(h)' => Canonical(h))
<1> DEFINE n == Len(chain)
<1>1. /\ chain \in Hashes /\ chain \in Seq(0..MaxForks) /\ n \in 0..MaxHeight /\ n \in Nat
      /\ forks \in Nat /\ MaxHeight \in Nat /\ MaxForks \in Nat
      /\ \A i \in 1..n : chain[i] \in 0..MaxForks /\ chain[i] <= forks
    BY HashLength, ChainAssumption DEF ChainOK
<1>2. PICK k \in 0..n :
          /\ chain' = Append(At(k), forks') /\ forks' \in 0..MaxForks /\ forks <= forks'
          /\ k < MaxHeight
          /\ k = n \/ forks' = forks + 1
  <2>1. CASE Mine
    <3>1. At(n) = chain
      <4>1. On(chain, chain)
          BY <1>1, OnItself
      <4> QED
          BY <4>1 DEF On, At
    <3> QED
        BY <1>1, <2>1, <3>1 DEF Mine, ChainOK
  <2>2. CASE Reorganise
    <3>1. PICK k \in 0..(n - 1) : chain' = Append(At(k), forks + 1)
        BY <2>2 DEF Reorganise
    <3>2. forks < MaxForks /\ forks' = forks + 1
        BY <2>2 DEF Reorganise
    <3>3. k \in 0..n /\ k < MaxHeight
        BY <1>1
    <3>4. forks' \in 0..MaxForks /\ forks <= forks'
        BY <1>1, <3>2
    <3>5. chain' = Append(At(k), forks')
        BY <3>1, <3>2
    <3> QED
        BY <3>2, <3>3, <3>4, <3>5
  <2> QED
      BY <2>1, <2>2
<1>3. /\ At(k) \in Hashes /\ At(k) \in Seq(0..MaxForks) /\ Len(At(k)) = k
      /\ \A i \in 1..k : At(k)[i] = chain[i]
  <2>1. /\ At(k) \in Hashes /\ Len(At(k)) = k
        /\ \A i \in 1..k : At(k)[i] = chain[i]
      BY <1>1, AncestorIs DEF At
  <2> QED
      BY <2>1, HashLength
<1>4. /\ chain' \in Seq(0..MaxForks) /\ Len(chain') = k + 1
      /\ \A i \in 1..k : chain'[i] = chain[i]
      /\ chain'[k + 1] = forks'
  <2> DEFINE a == At(k)  f == forks'
  <2>1. a \in Seq(0..MaxForks) /\ f \in 0..MaxForks
      BY <1>2, <1>3
  <2> HIDE DEF a, f
  <2>3. /\ Append(a, f) \in Seq(0..MaxForks) /\ Len(Append(a, f)) = Len(a) + 1
        /\ \A i \in 1..Len(a) : Append(a, f)[i] = a[i]
        /\ Append(a, f)[Len(a) + 1] = f
      BY <2>1, AppendProperties
  <2>2. /\ Append(At(k), forks') \in Seq(0..MaxForks)
        /\ Len(Append(At(k), forks')) = Len(At(k)) + 1
        /\ \A i \in 1..Len(At(k)) : Append(At(k), forks')[i] = At(k)[i]
        /\ Append(At(k), forks')[Len(At(k)) + 1] = forks'
      BY <2>3 DEF a, f
  <2> QED
      BY <1>2, <1>3, <2>2
<1>5. chain' \in Hashes
  <2>1. Len(chain') <= MaxHeight
      BY <1>1, <1>2, <1>4
  <2> QED
      BY <1>4, <2>1, SeqIsHash
<1>6. ChainOK'
    BY <1>1, <1>2, <1>4, <1>5 DEF ChainOK
<1>7. ASSUME NEW h, Seen(h) PROVE Seen(h)' /\ (Canonical(h)' => Canonical(h))
  <2>1. h \in Hashes /\ Len(h) \in Nat /\ (\A i \in 1..Len(h) : h[i] \in Nat /\ h[i] <= forks)
      BY <1>7, HashLength DEF Seen
  <2>2. Canonical(h) <=> Len(h) <= n /\ \A i \in 1..Len(h) : h[i] = chain[i]
      BY <1>1, <2>1, CanonicalIs, OnIs
  <2>3. Canonical(h)' <=> Len(h) <= k + 1 /\ \A i \in 1..Len(h) : h[i] = chain'[i]
    <3>1. Canonical(h)' <=> Len(h) <= Len(chain') /\ h = Ancestor(chain', Len(h))
        BY DEF Canonical, At, Ancestor
    <3>2. On(h, chain') <=> Len(h) <= Len(chain') /\ \A i \in 1..Len(h) : h[i] = chain'[i]
        BY <1>5, <2>1, OnIs
    <3> QED
        BY <1>4, <3>1, <3>2 DEF On
  <2>4. \A i \in 1..Len(h) : h[i] <= forks'
      BY <1>1, <1>2, <2>1
  <2>5. CASE Canonical(h)
    <3>1. CASE Len(h) <= k
      <4>1. \A i \in 1..Len(h) : i \in 1..k /\ h[i] = chain[i]
          BY <1>2, <2>1, <2>2, <2>5, <3>1
      <4>2. Canonical(h)'
          BY <1>2, <1>4, <2>1, <2>3, <3>1, <4>1
      <4> QED
          BY <2>1, <2>4, <2>5, <4>2 DEF Seen
    <3>2. CASE Len(h) > k
      <4>1. k < n /\ forks' = forks + 1
          BY <1>1, <1>2, <2>1, <2>2, <2>5, <3>2
      <4>2. k + 1 \in 1..Len(h) /\ h[k + 1] # chain'[k + 1]
          BY <1>1, <1>2, <1>4, <2>1, <3>2, <4>1
      <4>3. k + 1 <= Len(chain')
          BY <1>2, <1>4
      <4> QED
          BY <2>1, <2>4, <2>5, <4>2, <4>3 DEF Seen
    <3> QED
        BY <1>2, <2>1, <3>1, <3>2
  <2>6. CASE ~Canonical(h)
    <3>1. PICK i \in 1..Len(h) : i <= n /\ h[i] # chain[i]
        BY <1>7, <2>6 DEF Seen
    <3>2. CASE i <= k
      <4>1. i \in 1..k /\ h[i] # chain'[i]
          BY <1>4, <3>1, <3>2
      <4>2. ~Canonical(h)'
          BY <2>3, <3>1, <4>1
      <4>3. i <= Len(chain')
          BY <1>2, <1>4, <3>2
      <4> QED
          BY <2>1, <2>4, <3>1, <4>1, <4>2, <4>3 DEF Seen
    <3>3. CASE i > k
      <4>1. k < n /\ forks' = forks + 1 /\ k + 1 \in 1..Len(h)
          BY <1>1, <1>2, <2>1, <3>1, <3>3
      <4>2. h[k + 1] # chain'[k + 1] /\ k + 1 <= Len(chain')
          BY <1>1, <1>2, <1>4, <2>1, <4>1
      <4>3. ~Canonical(h)'
          BY <2>3, <4>1, <4>2
      <4> QED
          BY <2>1, <2>4, <4>1, <4>2, <4>3 DEF Seen
    <3> QED
        BY <1>2, <3>1, <3>2, <3>3
  <2> QED
      BY <2>5, <2>6
<1> QED
    BY <1>6, <1>7

LEMMA SeenStill ==
    ASSUME UNCHANGED chain, UNCHANGED forks
    PROVE  /\ \A h : Canonical(h)' <=> Canonical(h)
           /\ \A h : Seen(h)' <=> Seen(h)
           /\ \A n : At(n)' = At(n)
           /\ ChainOK' <=> ChainOK
<1>1. \A h : Canonical(h)' <=> Canonical(h)
    BY DEF Canonical, At, Ancestor
<1>2. \A h : Seen(h)' <=> Seen(h)
    BY <1>1 DEF Seen
<1> QED
    BY <1>1, <1>2 DEF ChainOK, At, Ancestor

-----------------------------------------------------------------------------
(* Least and greatest numbers.                                             *)

LEMMA LeastNumber ==
    ASSUME NEW S \in SUBSET Nat, S # {}
    PROVE  \E n \in S : \A m \in S : n <= m
<1> DEFINE below == {0..k : k \in S}
           R == StrictSubsetOrdering(Nat)
<1>1. \A k \in S : 0..k \in FiniteSubsetsOf(Nat)
    BY FS_Interval DEF FiniteSubsetsOf
<1>2. below \subseteq FiniteSubsetsOf(Nat) /\ below # {}
    BY <1>1
<1>3. IsWellFoundedOn(R, FiniteSubsetsOf(Nat))
    BY FS_StrictSubsetOrderingWellFounded
<1> HIDE DEF below, R
<1>4. PICK x \in below : \A y \in below : <<y, x>> \notin R
    BY <1>2, <1>3, WFMin
<1>5. PICK k \in S : x = 0..k
    BY <1>4 DEF below
<1>6. ASSUME NEW m \in S, m < k PROVE FALSE
  <2>1. 0..m \in below
      BY <1>6 DEF below
  <2>2. k \in 0..k /\ k \notin 0..m /\ 0..m \subseteq 0..k
      BY <1>6
  <2>3. 0..m \in SUBSET Nat /\ 0..k \in SUBSET Nat
      OBVIOUS
  <2>4. <<0..m, 0..k>> \in R
      BY <2>2, <2>3 DEF R, StrictSubsetOrdering
  <2> QED
      BY <1>4, <1>5, <2>1, <2>4
<1> QED
    BY <1>6

\* The greatest is the bound less the least distance to it.
LEMMA GreatestNumber ==
    ASSUME NEW n \in Nat, NEW S \in SUBSET (0..n), S # {}
    PROVE  Max(S) \in S
<1> DEFINE distances == {n - k : k \in S}
<1>1. distances \in SUBSET Nat /\ distances # {}
  <2>1. \A k \in S : k \in 0..n /\ n - k \in Nat
      OBVIOUS
  <2>2. distances \subseteq Nat
      BY <2>1
  <2>3. PICK k \in S : TRUE
      OBVIOUS
  <2>4. n - k \in distances
      BY <2>3
  <2> QED
      BY <2>2, <2>4
<1> HIDE DEF distances
<1>2. PICK d \in distances : \A e \in distances : d <= e
    BY <1>1, LeastNumber
<1>3. PICK k \in S : d = n - k
    BY <1>2 DEF distances
<1>4. \A j \in S : n - j \in distances
    BY DEF distances
<1>5. \A j \in S : j <= k
    BY <1>2, <1>3, <1>4
<1> QED
    BY <1>3, <1>5 DEF Max

LEMMA LeastIs ==
    ASSUME NEW S \in SUBSET Nat, S # {}
    PROVE  Min(S) \in S /\ Min(S) \in Nat /\ Min(S) \in Int /\ \A m \in S : Min(S) <= m
<1> DEFINE least == Min(S)
<1>1. least \in S /\ \A m \in S : least <= m
    BY LeastNumber DEF Min
<1> HIDE DEF least
<1>2. least \in Nat /\ least \in Int
    BY <1>1
<1> QED
    BY <1>1, <1>2 DEF least

LEMMA OfTwo ==
    ASSUME NEW a \in Int, NEW b \in Int
    PROVE  /\ Min({a, b}) \in {a, b} /\ Min({a, b}) <= a /\ Min({a, b}) <= b
           /\ Max({a, b}) \in {a, b} /\ a <= Max({a, b}) /\ b <= Max({a, b})
<1>1. \E x \in {a, b} : \A y \in {a, b} : x <= y
    OBVIOUS
<1>2. \E x \in {a, b} : \A y \in {a, b} : x >= y
    OBVIOUS
<1>3. Min({a, b}) \in {a, b} /\ \A y \in {a, b} : Min({a, b}) <= y
    BY <1>1 DEF Min
<1>4. Max({a, b}) \in {a, b} /\ \A y \in {a, b} : Max({a, b}) >= y
    BY <1>2 DEF Max
<1> QED
    BY <1>3, <1>4

LEMMA Numbered ==
    ASSUME NEW S \in SUBSET Hashes
    PROVE  Numbers(S) \in SUBSET (0..MaxHeight) /\ Numbers(S) \in SUBSET Nat
BY HashLength DEF Numbers

LEMMA EarliestIs ==
    ASSUME NEW d \in Int \cup {NULL}, NEW S \in SUBSET Nat
    PROVE  Earliest(d, S) \in Int \cup {NULL}
<1>1. CASE S = {}
    BY <1>1 DEF Earliest
<1>2. CASE S # {}
  <2>1. Min(S) \in Int
      BY <1>2, LeastIs
  <2>2. CASE d = NULL
      BY <1>2, <2>1, <2>2 DEF Earliest
  <2>3. CASE d # NULL
    <3>1. Min({Min(S), d}) \in Int
        BY <2>1, <2>3, OfTwo
    <3> QED
        BY <1>2, <2>3, <3>1 DEF Earliest
  <2> QED
      BY <2>2, <2>3
<1> QED
    BY <1>1, <1>2

-----------------------------------------------------------------------------
(* The selection's updates, field by field.                                *)

\* Everything but what the events change.
Alike(v, w) ==
    /\ DOMAIN w = Fields
    /\ w.needsSeed = v.needsSeed /\ w.cursor = v.cursor /\ w.net = v.net /\ w.state = v.state
    /\ w.base = v.base

LEMMA RememberedIs ==
    ASSUME NEW v, DOMAIN v = Fields, NEW shapes
    PROVE  LET w == Remembered(v, shapes) IN
           /\ Alike(v, w) /\ w.verified = v.verified /\ w.dirty = v.dirty
           /\ w.swaps = v.swaps /\ w.lp = v.lp /\ w.start = v.start /\ w.through = v.through
           /\ w.floor = v.floor /\ w.complete = v.complete
BY DEF Remembered, Alike, Fields

LEMMA WithEventsIs ==
    ASSUME NEW v, DOMAIN v = Fields, NEW seen \in SUBSET Hashes, v.dirty \in Int \cup {NULL}
    PROVE  LET w == WithEvents(v, seen) IN
           /\ Alike(v, w) /\ w.verified = v.verified /\ w.dirty \in Int \cup {NULL}
           /\ v.swaps \subseteq w.swaps /\ v.lp \subseteq w.lp
           /\ w.start = v.start /\ w.through = v.through /\ w.floor = v.floor
<1> DEFINE lp == CurrentLp(seen)
           d == [v EXCEPT !.dirty = Earliest(@, Above(v, lp))]
           s == WithSwaps(d, seen)
           e == WithLp(s, lp)
<1>1. Above(v, lp) \in SUBSET Nat
    BY Numbered DEF Above, CurrentLp
<1>2. Earliest(v.dirty, Above(v, lp)) \in Int \cup {NULL}
    BY <1>1, EarliestIs
<1>3. /\ Alike(v, d) /\ d.verified = v.verified /\ d.dirty \in Int \cup {NULL}
      /\ d.swaps = v.swaps /\ d.lp = v.lp
      /\ d.start = v.start /\ d.through = v.through /\ d.floor = v.floor
    BY <1>2 DEF Alike, Fields
<1> HIDE DEF d, lp
<1>4. /\ Alike(v, s) /\ s.verified = v.verified /\ s.dirty = d.dirty
      /\ v.swaps \subseteq s.swaps /\ s.lp = v.lp
      /\ s.start = v.start /\ s.through = v.through /\ s.floor = v.floor
    BY <1>3 DEF Alike, Fields, WithSwaps
<1> HIDE DEF s
<1>5. /\ Alike(v, e) /\ e.verified = v.verified /\ e.dirty = d.dirty
      /\ v.swaps \subseteq e.swaps /\ v.lp \subseteq e.lp
      /\ e.start = v.start /\ e.through = v.through /\ e.floor = v.floor
    BY <1>4 DEF Alike, Fields, WithLp
<1>6. WithEvents(v, seen) = Remembered(e, lp)
    BY DEF WithEvents, e, s, d, lp
<1> HIDE DEF e
<1>7. DOMAIN e = Fields
    BY <1>5 DEF Alike
<1> QED
    BY <1>3, <1>5, <1>6, <1>7, RememberedIs DEF Alike

LEMMA SyncedIs ==
    ASSUME FeedOK, NEW v, DOMAIN v = Fields, NEW n,
           v.dirty \in Int \cup {NULL}, v.state \in Hashes, v.verified \in Int
    PROVE  LET w == Synced(v, n) IN
           /\ Alike(v, w) /\ w.dirty \in Int \cup {NULL}
           /\ w.verified \in Int /\ w.verified <= v.verified
           /\ v.swaps \subseteq w.swaps /\ v.lp \subseteq w.lp
           /\ w.start = v.start /\ w.through = v.through /\ w.floor = v.floor
<1> DEFINE seen == {b \in feed.carried : Len(b) <= n}
           on == WithEvents(v, seen)
<1>1. seen \in SUBSET Hashes
    BY DEF FeedOK, Seen
<1>2. /\ Alike(v, on) /\ on.verified = v.verified /\ on.dirty \in Int \cup {NULL}
      /\ v.swaps \subseteq on.swaps /\ v.lp \subseteq on.lp
      /\ on.start = v.start /\ on.through = v.through /\ on.floor = v.floor
    BY <1>1, WithEventsIs
<1>3. Synced(v, n) = [on EXCEPT !.fed = "same",
                         !.verified = IF on.state # NULL /\ on.dirty # NULL
                                      THEN Min({Or(@, Len(on.state)), on.dirty - 1}) ELSE @]
    BY DEF Synced
<1> HIDE DEF on
<1>4. NULL \notin Int /\ NULL \notin Hashes
    BY DetailAssumption
<1>5. ASSUME on.dirty # NULL
      PROVE  LET m == Min({Or(on.verified, Len(on.state)), on.dirty - 1})
             IN  m \in Int /\ m <= v.verified
  <2>1. Or(on.verified, Len(on.state)) = v.verified
      BY <1>2, <1>4 DEF Or
  <2>2. on.dirty - 1 \in Int
      BY <1>2, <1>5
  <2> QED
      BY <2>1, <2>2, OfTwo
<1> QED
    BY <1>2, <1>3, <1>5 DEF Alike, Fields

\* What a view shows stays good when it learns more and claims less.
LEMMA FollowsStill ==
    ASSUME NEW v, NEW w, Follows(v), Alike(v, w), w.dirty \in Int \cup {NULL},
           w.verified \in Int, w.verified <= v.verified,
           v.swaps \subseteq w.swaps, v.lp \subseteq w.lp,
           w.start = v.start, w.through = v.through, w.floor = v.floor
    PROVE  Follows(w)
<1>1. HasEvents(w)
    BY DEF Follows, HasEvents, Alike
<1>2. w.state = v.state /\ w.cursor = v.cursor /\ v.state \in Hashes
    BY DEF Follows, HasCurve, Alike
<1>3. Shapes(w.cursor, Len(w.state) + 1, w.verified) \subseteq Shapes(v.cursor, Len(v.state) + 1, v.verified)
  <2>1. \A n \in (Len(v.state) + 1)..w.verified : n \in (Len(v.state) + 1)..v.verified
      BY <1>2, HashLength DEF Follows, HasCurve
  <2> QED
      BY <1>2, <2>1 DEF Shapes, Branch
<1>4. w.verified <= Len(w.cursor)
    BY <1>2, HashLength DEF Follows, HasCurve
<1> QED
    BY <1>1, <1>2, <1>3, <1>4 DEF Follows, HasCurve

LEMMA SyncedFollows ==
    ASSUME FeedOK, NEW v, DOMAIN v = Fields, Follows(v), NEW n
    PROVE  Follows(Synced(v, n)) /\ Alike(v, Synced(v, n)) /\ Synced(v, n).through = v.through
<1>1. v.dirty \in Int \cup {NULL} /\ v.state \in Hashes /\ v.verified \in Int
    BY DEF Follows, HasCurve
<1> DEFINE w == Synced(v, n)
<1>2. /\ Alike(v, w) /\ w.dirty \in Int \cup {NULL}
      /\ w.verified \in Int /\ w.verified <= v.verified
      /\ v.swaps \subseteq w.swaps /\ v.lp \subseteq w.lp
      /\ w.start = v.start /\ w.through = v.through /\ w.floor = v.floor
    BY <1>1, SyncedIs
<1> HIDE DEF w
<1>3. Follows(w)
    BY <1>2, FollowsStill
<1> QED
    BY <1>2, <1>3 DEF w

\* The cursor moves up its branch.
LEMMA FollowsUp ==
    ASSUME NEW v, DOMAIN v = Fields, Follows(v), NEW h \in Hashes, On(v.cursor, h), NEW p
    PROVE  Follows([v EXCEPT !.cursor = h, !.pending = p])
<1> DEFINE w == [v EXCEPT !.cursor = h, !.pending = p]
<1>1. /\ w.cursor = h /\ w.start = v.start /\ w.through = v.through /\ w.floor = v.floor
      /\ w.base = v.base /\ w.swaps = v.swaps /\ w.lp = v.lp
      /\ w.state = v.state /\ w.verified = v.verified /\ w.dirty = v.dirty
    BY DEF Fields
<1> HIDE DEF w
<1>2. /\ v.cursor \in Hashes /\ Len(v.cursor) \in Nat /\ Len(h) \in Nat
      /\ Len(v.cursor) <= Len(h)
    BY HashLength DEF Follows, On
<1>3. HasEvents(w)
  <2>1. ASSUME v.start # NULL
        PROVE  /\ Swaps(v.cursor, v.start, v.through) = Swaps(h, v.start, v.through)
               /\ Shapes(v.cursor, v.start, v.through) = Shapes(h, v.start, v.through)
    <3>1. v.start \in Nat /\ v.through \in Int /\ v.through <= Len(v.cursor)
        BY <2>1 DEF Follows, HasEvents
    <3> QED
        BY <1>2, <3>1, BranchOn
  <2>2. Shapes(v.cursor, v.floor, v.base - 1) = Shapes(h, v.floor, v.base - 1)
    <3>1. v.floor \in Nat /\ v.base - 1 \in Int /\ v.base - 1 <= Len(v.cursor)
        BY <1>2 DEF Follows, HasEvents
    <3> QED
        BY <1>2, <3>1, BranchOn
  <2>3. HasEvents(v)
      BY DEF Follows
  <2> QED
      BY <1>1, <1>2, <2>1, <2>2, <2>3 DEF HasEvents
<1>4. HasCurve(w)
  <2>1. HasCurve(v)
      BY DEF Follows
  <2>2. On(v.state, h)
      BY <1>2, <2>1, OnTransitive DEF HasCurve
  <2>3. Len(v.state) + 1 \in Nat
      BY <2>1, HashLength DEF HasCurve
  <2>4. Shapes(v.cursor, Len(v.state) + 1, v.verified) = Shapes(h, Len(v.state) + 1, v.verified)
      BY <1>2, <2>1, <2>3, BranchOn DEF HasCurve
  <2> QED
      BY <1>1, <1>2, <2>1, <2>2, <2>4 DEF HasCurve
<1> QED
    BY <1>1, <1>3, <1>4 DEF Follows, w

\* The curve is the one of the cursor's block.
LEMMA CurveRead ==
    ASSUME NEW v, DOMAIN v = Fields, v.cursor \in Hashes, HasEvents(v)
    PROVE  LET w == WithCurve(v) IN
           /\ Follows(w) /\ DOMAIN w = Fields /\ w.state = v.cursor /\ w.cursor = v.cursor
           /\ w.net = v.net /\ w.needsSeed = v.needsSeed
           /\ w.base = v.base /\ w.through = v.through
<1> DEFINE w == WithCurve(v)
<1>1. /\ w.cursor = v.cursor /\ w.start = v.start /\ w.through = v.through /\ w.floor = v.floor
      /\ w.base = v.base /\ w.swaps = v.swaps /\ w.lp = v.lp /\ w.net = v.net
      /\ w.needsSeed = v.needsSeed /\ DOMAIN w = Fields
      /\ w.state = v.cursor /\ w.verified = Len(v.cursor) /\ w.dirty = NULL
    BY DEF Fields, WithCurve
<1> HIDE DEF w
<1>2. Len(v.cursor) \in Nat
    BY HashLength
<1>3. HasEvents(w)
    BY <1>1 DEF HasEvents
<1>4. Shapes(v.cursor, Len(v.cursor) + 1, Len(v.cursor)) = {}
    BY <1>2, NoInterval
<1>5. On(v.cursor, v.cursor)
    BY OnItself
<1>6. HasCurve(w)
    BY <1>1, <1>2, <1>4, <1>5 DEF HasCurve
<1> QED
    BY <1>1, <1>3, <1>6 DEF Follows, w

-----------------------------------------------------------------------------
(* How the parts of the invariant pass from a state to the next.           *)

LEMMA Absence == NULL \notin Int /\ NULL \notin Hashes
BY DetailAssumption

LEMMA ViewNext ==
    ASSUME UNCHANGED <<chain, forks, kind>>, NEW w, view' = w, DOMAIN w = Fields,
           w.needsSeed \in BOOLEAN, w.cursor # NULL => Seen(w.cursor),
           ~w.needsSeed => Follows(w)
    PROVE  ViewOK'
<1>1. ~w.needsSeed => Follows(view)'
    BY DEF Follows, HasEvents, HasCurve
<1>2. w.cursor # NULL => Seen(view.cursor)'
    BY DEF Seen, Canonical, At
<1> QED
    BY <1>1, <1>2 DEF ViewOK

\* A selection that must be seeded keeps the maintenance thread's errand, if
\* it has one, from being published.
LEMMA ErrandOfSeed ==
    ASSUME DetailInv, UNCHANGED <<chain, forks, kind>>, view'.needsSeed,
           errand' = errand \/ errand' = [errand EXCEPT !.same = FALSE]
    PROVE  ErrandOK'
<1>1. /\ DOMAIN errand' = DOMAIN errand
      /\ errand'.pc = errand.pc /\ errand'.at = errand.at /\ errand'.from = errand.from
      /\ errand'.to = errand.to /\ errand'.logs = errand.logs
    BY DEF DetailInv, ErrandOK
<1>2. Seen(errand.at)' <=> Seen(errand.at)
    BY <1>1 DEF Seen, Canonical, At
<1>3. Canonical(errand.at)' <=> Canonical(errand.at)
    BY <1>1 DEF Canonical, At
<1> QED
    BY <1>1, <1>2, <1>3 DEF DetailInv, ErrandOK

\* The errand's own block and the cursor above it stay as they are.
LEMMA ErrandSame ==
    ASSUME DetailInv, UNCHANGED <<chain, forks, kind, errand>>,
           view.cursor \in Hashes, view'.cursor \in Hashes,
           ~view'.needsSeed => ~view.needsSeed /\ On(view.cursor, view'.cursor),
           view'.base = view.base, view'.through = view.through
    PROVE  ErrandOK'
<1>1. Seen(errand.at)' <=> Seen(errand.at)
    BY DEF Seen, Canonical, At
<1>2. Canonical(errand.at)' <=> Canonical(errand.at)
    BY DEF Canonical, At
<1>3. ASSUME errand.pc \in {"recent", "olderRead"}, errand.same, ~view'.needsSeed
      PROVE  On(errand.at, view'.cursor)
  <2>1. errand.at \in Hashes /\ On(errand.at, view.cursor)
      BY <1>3 DEF DetailInv, ErrandOK, Seen
  <2> QED
      BY <1>3, <2>1, OnTransitive
<1> QED
    BY <1>1, <1>2, <1>3 DEF DetailInv, ErrandOK

\* The live thread's reading after a step of another.
LEMMA PollSame ==
    ASSUME DetailInv, UNCHANGED <<chain, forks, kind, poll, torn>>,
           view'.needsSeed = view.needsSeed, view'.cursor = view.cursor, view'.net = view.net,
           view'.state = view.state, view'.dirty = view.dirty, view'.start = view.start,
           view'.through = view.through, errand'.same => errand.same
    PROVE  PollOK'
<1>1. Seen(poll.head)' <=> Seen(poll.head)
    BY DEF Seen, Canonical, At
<1>2. Canonical(poll.head)' <=> Canonical(poll.head)
    BY DEF Canonical, At
<1> QED
    BY <1>1, <1>2 DEF DetailInv, PollOK, Words, Loading, Concentrated

\* At rest the live thread has nothing in hand.
LEMMA PollAtRest ==
    ASSUME UNCHANGED kind, poll' = RestingPoll,
           NEW w, view' = w,
           ~torn' /\ ~w.needsSeed /\ Concentrated => Words(w, w.state)
    PROVE  PollOK'
BY DEF PollOK, RestingPoll, Loading, Concentrated, Words

LEMMA FeedSame ==
    ASSUME FeedOK, UNCHANGED <<chain, forks, kind, feed>>
    PROVE  FeedOK'
BY SeenStill DEF FeedOK

LEMMA RestingErrand ==
    ASSUME errand' = RestingJob
    PROVE  ErrandOK'
BY DEF ErrandOK, RestingJob

-----------------------------------------------------------------------------
(* The chain and the index.                                                *)

LEMMA ChainMovesInv ==
    ASSUME DetailInv, ChainMoves
    PROVE  DetailInv'
<1>1. /\ ChainOK' /\ \A h : Seen(h) => Seen(h)' /\ (Canonical(h)' => Canonical(h))
      /\ UNCHANGED <<kind, feed, view, poll, errand, torn>>
    BY ChainSteps DEF ChainMoves, detailVars, DetailInv
<1>2. FeedOK'
    BY <1>1 DEF DetailInv, FeedOK
<1>3. ViewOK'
  <2>1. PICK c : c = view.cursor
      OBVIOUS
  <2>2. c # NULL => Seen(c)'
      BY <1>1, <2>1 DEF DetailInv, ViewOK
  <2>3. c # NULL => Seen(view.cursor)'
      BY <1>1, <2>1, <2>2 DEF Seen, Canonical, At
  <2>4. ~view.needsSeed => Follows(view)'
      BY <1>1 DEF DetailInv, ViewOK, Follows, HasEvents, HasCurve
  <2> QED
      BY <1>1, <2>1, <2>3, <2>4 DEF DetailInv, ViewOK
<1>4. PollOK'
  <2>1. PICK c : c = poll.head
      OBVIOUS
  <2>2. (Seen(c) => Seen(c)') /\ (Seen(c) => (Canonical(c)' => Canonical(c)))
      BY <1>1
  <2>3. Seen(poll.head) => Seen(poll.head)' /\ (Canonical(poll.head)' => Canonical(poll.head))
      BY <1>1, <2>1, <2>2 DEF Seen, Canonical, At
  <2> QED
      BY <1>1, <2>3 DEF DetailInv, PollOK, Words, Loading, Concentrated
<1>5. ErrandOK'
  <2>1. PICK c : c = errand.at
      OBVIOUS
  <2>2. (Seen(c) => Seen(c)') /\ (Seen(c) => (Canonical(c)' => Canonical(c)))
      BY <1>1
  <2>3. Seen(errand.at) => Seen(errand.at)' /\ (Canonical(errand.at)' => Canonical(errand.at))
      BY <1>1, <2>1, <2>2 DEF Seen, Canonical, At
  <2> QED
      BY <1>1, <2>3 DEF DetailInv, ErrandOK
<1> QED
    BY <1>1, <1>2, <1>3, <1>4, <1>5 DEF DetailInv

LEMMA TopSeen ==
    ASSUME FeedOK, TopBlock # NULL
    PROVE  Seen(TopBlock)
<1>1. feed.blocks # {} /\ feed.blocks \in SUBSET Hashes
    BY DEF TopBlock, FeedOK, Seen
<1>2. Numbers(feed.blocks) \in SUBSET (0..MaxHeight) /\ Numbers(feed.blocks) # {}
    BY <1>1, Numbered DEF Numbers
<1>3. Max(Numbers(feed.blocks)) \in Numbers(feed.blocks)
    BY <1>2, GreatestNumber, ChainAssumption
<1>4. \E b \in feed.blocks : Len(b) = Max(Numbers(feed.blocks))
    BY <1>3 DEF Numbers
<1>5. TopBlock \in feed.blocks
    BY <1>1, <1>4 DEF TopBlock
<1> QED
    BY <1>5 DEF FeedOK

\* Only the epoch it last synchronised with changes in the selection.
LEMMA ObserveBlockInv ==
    ASSUME DetailInv, \E n \in 1..Len(chain) : ObserveBlock(At(n))
    PROVE  DetailInv'
<1>1. PICK n \in 1..Len(chain) : ObserveBlock(At(n))
    OBVIOUS
<1>2. /\ UNCHANGED <<chain, forks, kind, poll, errand, torn>>
      /\ \E kept \in SUBSET feed.blocks :
            feed' = [blocks |-> kept \cup {At(n)}, carried |-> feed.carried \cap (kept \cup {At(n)})]
      /\ view' = view \/ \E f : view' = [view EXCEPT !.fed = f]
  <2>1. UNCHANGED <<chain, forks, kind, poll, errand, torn>>
      BY <1>1 DEF ObserveBlock
  <2>2. view' = view \/ \E f : view' = [view EXCEPT !.fed = f]
      BY <1>1 DEF ObserveBlock
  <2> DEFINE on == TopBlock = NULL \/ Continues(At(n))
             kept == {b \in (IF on THEN feed.blocks ELSE {}) : Len(b) > Len(At(n)) - KeptBlocks}
  <2>3. feed' = [blocks |-> kept \cup {At(n)}, carried |-> feed.carried \cap (kept \cup {At(n)})]
      BY <1>1 DEF ObserveBlock
  <2>4. kept \in SUBSET feed.blocks
      OBVIOUS
  <2> QED
      BY <2>1, <2>2, <2>3, <2>4
<1>3. Seen(At(n))
  <2>1. n \in 0..Len(chain)
      BY HashLength DEF DetailInv, ChainOK
  <2> QED
      BY <2>1, AtIs DEF DetailInv
<1>4. FeedOK'
    BY <1>2, <1>3, SeenStill DEF DetailInv, FeedOK
<1>5. /\ DOMAIN view' = Fields /\ view'.needsSeed = view.needsSeed /\ view'.cursor = view.cursor
      /\ view'.net = view.net /\ view'.state = view.state /\ view'.verified = view.verified
      /\ view'.dirty = view.dirty /\ view'.swaps = view.swaps /\ view'.lp = view.lp
      /\ view'.start = view.start /\ view'.through = view.through /\ view'.base = view.base
      /\ view'.floor = view.floor
    BY <1>2 DEF DetailInv, ViewOK, Fields
<1>6. ViewOK'
    BY <1>2, <1>5 DEF DetailInv, ViewOK, Follows, HasEvents, HasCurve, Seen, Canonical, At
<1>7. PollOK'
    BY <1>2, <1>5, PollSame
<1>8. ErrandOK'
    BY <1>2, <1>5 DEF DetailInv, ErrandOK, Seen, Canonical, At
<1> QED
    BY <1>2, <1>4, <1>6, <1>7, <1>8, SeenStill DEF DetailInv

LEMMA ObserveEventsInv ==
    ASSUME DetailInv, \E h \in feed.blocks : ObserveEvents(h)
    PROVE  DetailInv'
<1>1. PICK h \in feed.blocks : ObserveEvents(h)
    OBVIOUS
<1>2. /\ UNCHANGED <<chain, forks, kind, view, poll, errand, torn>>
      /\ feed' = [feed EXCEPT !.carried = @ \cup {h}]
    BY <1>1 DEF ObserveEvents
<1>3. feed'.blocks = feed.blocks /\ feed'.carried \subseteq feed.carried \cup {h}
    BY <1>2
<1>4. FeedOK'
    BY <1>2, <1>3, SeenStill DEF DetailInv, FeedOK
<1>5. ViewOK' /\ PollOK' /\ ErrandOK'
  <2>1. ViewOK'
      BY <1>2 DEF DetailInv, ViewOK, Follows, HasEvents, HasCurve, Seen, Canonical, At
  <2>2. PollOK'
      BY <1>2, PollSame
  <2>3. ErrandOK'
      BY <1>2 DEF DetailInv, ErrandOK, Seen, Canonical, At
  <2> QED
      BY <2>1, <2>2, <2>3
<1> QED
    BY <1>2, <1>4, <1>5, SeenStill DEF DetailInv

-----------------------------------------------------------------------------
(* The live thread.                                                        *)

LEMMA HeadsSeen ==
    ASSUME DetailInv, NEW h \in PollHeads
    PROVE  Seen(h)
<1>1. CASE h \in {At(n) : n \in Max({1, Len(chain) - HeadLag})..Len(chain)}
  <2>1. PICK n \in Max({1, Len(chain) - HeadLag})..Len(chain) : h = At(n)
      BY <1>1
  <2>2. Len(chain) \in Nat /\ HeadLag \in Nat
      BY HashLength, DetailAssumption DEF DetailInv, ChainOK
  <2> DEFINE low == Max({1, Len(chain) - HeadLag})
  <2>3. low \in Int /\ 1 <= low
    <3> DEFINE lag == Len(chain) - HeadLag
    <3>1. lag \in Int /\ 1 \in Int
        BY <2>2
    <3> HIDE DEF lag
    <3>2. Max({1, lag}) \in {1, lag} /\ 1 <= Max({1, lag})
        BY <3>1, OfTwo
    <3> QED
        BY <3>1, <3>2 DEF lag
  <2> HIDE DEF low
  <2>4. n \in low..Len(chain)
      BY <2>1 DEF low
  <2>5. n \in 0..Len(chain)
      BY <2>2, <2>3, <2>4
  <2> QED
      BY <2>1, <2>5, AtIs DEF DetailInv
<1>2. CASE h = TopBlock /\ h # NULL
    BY <1>2, TopSeen DEF DetailInv
<1>3. CASE h = view.cursor /\ h # NULL
    BY <1>3 DEF DetailInv, ViewOK
<1> QED
    BY <1>1, <1>2, <1>3 DEF PollHeads

\* The words of a loaded curve have the shape of the block they are read at,
\* if that block is canonical.
LEMMA LoadedWords ==
    ASSUME NEW v, NEW words, NEW h, Canonical(h),
           NEW net, net = LoadedCurve(v, words, Len(h)),
           \/ \A u \in words : net[u] = At(Len(h))
           \/ Reusable(v, Len(h)) => Words(v, h)
    PROVE  DOMAIN net = words /\ \A u \in words : SameCurve(net[u], h)
<1>1. At(Len(h)) = h
    BY CanonicalAt
<1>2. SameCurve(h, h)
    BY DEF SameCurve
<1> DEFINE reused == IF Reusable(v, Len(h)) THEN DOMAIN v.net \cap words ELSE {}
<1>3. net = [u \in words |-> IF u \in reused THEN v.net[u] ELSE At(Len(h))]
    BY DEF LoadedCurve
<1>4. ASSUME NEW u \in words PROVE SameCurve(net[u], h)
  <2>1. CASE net[u] = At(Len(h))
      BY <1>1, <1>2, <2>1
  <2>2. CASE net[u] # At(Len(h))
    <3>1. u \in reused /\ net[u] = v.net[u]
        BY <1>3, <2>2
    <3>2. Reusable(v, Len(h)) /\ u \in DOMAIN v.net
        BY <3>1
    <3> QED
        BY <2>2, <3>1, <3>2 DEF Words
  <2> QED
      BY <2>1, <2>2
<1> QED
    BY <1>3, <1>4

LEMMA ClearedIs ==
    /\ DOMAIN Cleared = Fields /\ Cleared.needsSeed = TRUE /\ Cleared.cursor = view.cursor
    /\ Cleared.dirty = NULL /\ Cleared.start = NULL /\ Cleared.through = NULL
    /\ Cleared.state = NULL /\ Cleared.verified = NULL
BY DEF Cleared, FreshView, Fields

\* A view that must be seeded, whatever else it holds.
LEMMA SeedingViewOK ==
    ASSUME DetailInv, UNCHANGED <<chain, forks, kind>>, NEW w, view' = w,
           DOMAIN w = Fields, w.needsSeed = TRUE, w.cursor = view.cursor
    PROVE  ViewOK'
BY ViewNext DEF DetailInv, ViewOK

LEMMA SeedReadInv ==
    ASSUME DetailInv, NEW h \in PollHeads, SeedRead(h)
    PROVE  DetailInv'
<1>1. UNCHANGED <<chain, forks, kind, feed>>
    BY DEF SeedRead, envVars
<1>2. errand' = [errand EXCEPT !.same = FALSE] /\ poll.pc = "rest"
    BY DEF SeedRead, Polls
<1>3. Seen(h)
    BY HeadsSeen
<1>4. /\ DOMAIN view' = Fields /\ view'.needsSeed = TRUE /\ view'.cursor = view.cursor
      /\ view'.dirty = NULL /\ view'.start = NULL /\ view'.through = NULL
      /\ poll'.pc = "confirm" /\ poll'.mode = "seed" /\ poll'.head = h
      /\ Concentrated => poll'.loaded
      /\ poll'.loaded /\ Canonical(h) => Words(view', h)
  <2>1. CASE Concentrated
    <3>1. Loads("seed", h, Cleared, FirstPaint)
        BY <2>1 DEF SeedRead
    <3>2. /\ view' = [Cleared EXCEPT !.net = LoadedCurve(Cleared, FirstPaint, Len(h))]
          /\ poll' = [CoreRead("seed", h) EXCEPT !.loaded = TRUE]
        BY <3>1 DEF Loads
    <3> DEFINE net == LoadedCurve(Cleared, FirstPaint, Len(h))
    <3>3. /\ DOMAIN view' = Fields /\ view'.needsSeed = TRUE /\ view'.cursor = view.cursor
          /\ view'.dirty = NULL /\ view'.start = NULL /\ view'.through = NULL
          /\ view'.net = net
        BY <3>2, ClearedIs DEF Fields
    <3>4. ~Reusable(Cleared, Len(h))
        BY ClearedIs DEF Reusable
    <3>5. Canonical(h) => DOMAIN net = FirstPaint /\ \A u \in FirstPaint : SameCurve(net[u], h)
        BY <3>4, LoadedWords
    <3>6. Canonical(h) => Words(view', h)
        BY <3>3, <3>5 DEF Words
    <3>7. /\ poll'.pc = "confirm" /\ poll'.mode = "seed" /\ poll'.head = h
          /\ poll'.loaded
        BY <3>2 DEF CoreRead
    <3> QED
        BY <3>3, <3>6, <3>7
  <2>2. CASE ~Concentrated
    <3>1. view' = Cleared /\ poll' = CoreRead("seed", h)
        BY <2>2 DEF SeedRead
    <3> QED
        BY <2>2, <3>1, ClearedIs DEF CoreRead
  <2> QED
      BY <2>1, <2>2
<1>5. ViewOK'
    BY <1>1, <1>4, SeedingViewOK
<1>6. ErrandOK'
    BY <1>1, <1>2, <1>4, ErrandOfSeed
<1>7. PollOK'
  <2>1. errand'.same = FALSE
      BY <1>2 DEF DetailInv, ErrandOK
  <2>2. Seen(poll.head)'
      BY <1>1, <1>3, <1>4 DEF Seen, Canonical, At
  <2>3. Canonical(poll.head)' <=> Canonical(h)
      BY <1>1, <1>4 DEF Canonical, At
  <2> QED
      BY <1>1, <1>4, <2>1, <2>2, <2>3 DEF PollOK, Concentrated, Words
<1>8. FeedOK' /\ ChainOK'
    BY <1>1, FeedSame, SeenStill DEF DetailInv
<1> QED
    BY <1>5, <1>6, <1>7, <1>8 DEF DetailInv

\* What the selection reads about a block it may move to.
LEMMA CoreReadInv ==
    ASSUME DetailInv, ~view.needsSeed, poll.pc = "rest", NEW v, NEW h, Seen(h),
           NEW mode \in {"advance", "same"},
           UNCHANGED <<chain, forks, kind, feed, errand>>,
           Alike(view, v), Follows(v), v.through = view.through,
           Canonical(h) => On(view.cursor, h), mode = "same" => h = view.cursor,
           mode = "advance" => Len(view.cursor) < Len(h),
           \/ view' = v /\ poll' = CoreRead(mode, h) /\ torn' = torn
           \/ \E words : Concentrated /\ Loads(mode, h, v, words)
    PROVE  DetailInv'
<1>1. Seen(view.cursor) /\ Follows(view) /\ view.cursor \in Hashes
    BY Absence DEF DetailInv, ViewOK, Follows
<1>2. Concentrated /\ ~torn => Words(view, view.state)
    BY DEF DetailInv, PollOK, Loading
<1>3. /\ DOMAIN view' = Fields /\ view'.needsSeed = view.needsSeed /\ view'.cursor = view.cursor
      /\ view'.through = view.through /\ view'.base = view.base /\ view'.state = view.state
      /\ Follows(view')
      /\ poll'.pc = "confirm" /\ poll'.mode = mode /\ poll'.head = h
      /\ poll'.loaded /\ ~torn' /\ Canonical(h) => Words(view', h)
      /\ ~poll'.loaded => torn' = torn /\ view'.net = view.net
  <2>1. CASE view' = v /\ poll' = CoreRead(mode, h) /\ torn' = torn
      BY <2>1 DEF Alike, CoreRead
  <2>2. CASE \E words : Concentrated /\ Loads(mode, h, v, words)
    <3> PICK words : Concentrated /\ Loads(mode, h, v, words)
        BY <2>2
    <3> DEFINE net == LoadedCurve(v, words, Len(h))
    <3>1. /\ view' = [v EXCEPT !.net = net]
          /\ torn' = (torn /\ \E w \in words : view'.net[w] # At(Len(h)))
          /\ poll' = [CoreRead(mode, h) EXCEPT !.loaded = TRUE]
        BY DEF Loads
    <3> HIDE DEF net
    <3>2. /\ DOMAIN view' = Fields /\ view'.net = net
          /\ view'.needsSeed = view.needsSeed /\ view'.cursor = view.cursor
          /\ view'.through = view.through /\ view'.base = view.base /\ view'.state = view.state
          /\ view'.verified = v.verified /\ view'.dirty = v.dirty /\ view'.swaps = v.swaps
          /\ view'.lp = v.lp /\ view'.start = v.start /\ view'.floor = v.floor
        BY <3>1 DEF Alike, Fields
    <3>3. Follows(view')
        BY <3>2 DEF Alike, Follows, HasEvents, HasCurve
    <3>4. poll'.pc = "confirm" /\ poll'.mode = mode /\ poll'.head = h /\ poll'.loaded = TRUE
        BY <3>1 DEF CoreRead
    <3>5. ASSUME ~torn', Canonical(h) PROVE Words(view', h)
      <4>1. CASE torn
        <5>1. \A u \in words : net[u] = At(Len(h))
            BY <3>1, <3>2, <3>5, <4>1
        <5> QED
            BY <3>2, <3>5, <5>1, LoadedWords DEF net, Words
      <4>2. CASE ~torn
        <5>1. ASSUME Reusable(v, Len(h)) PROVE Words(v, h)
          <6>1. /\ v.state \in Hashes /\ Len(v.state) \in Nat /\ On(v.state, v.cursor)
                /\ v.verified \in Int /\ v.verified <= Len(v.cursor)
                /\ v.cursor = view.cursor /\ Len(v.cursor) \in Nat
                /\ Shapes(v.cursor, Len(v.state) + 1, v.verified) = {}
              BY HashLength DEF Follows, HasCurve, Alike
          <6>2. mode = "same" /\ h = v.cursor
            <7>1. Len(v.state) <= Len(v.cursor)
                BY <6>1 DEF On
            <7>2. Len(h) \in Nat
                BY HashLength DEF Seen
            <7>3. Len(h) <= Len(v.cursor)
                BY <5>1, <6>1, <7>1, <7>2 DEF Reusable
            <7> QED
                BY <6>1, <7>2, <7>3
          <6>3. SameCurve(v.state, h)
            <7>1. CASE Len(v.state) = Len(h)
              <8>1. v.state = h
                <9>1. h \in Hashes /\ v.state \in Hashes /\ On(v.state, h)
                    BY <6>1, <6>2 DEF Seen
                <9> QED
                    BY <7>1, <9>1, OnSameNumber
              <8> QED
                  BY <8>1 DEF SameCurve
            <7>2. CASE Len(v.state) # Len(h)
              <8>1. Len(h) <= v.verified
                  BY <5>1, <7>2 DEF Reusable
              <8>2. v.verified = Len(h)
                  BY <6>1, <6>2, <8>1
              <8>3. /\ h \in Hashes /\ v.state \in Hashes /\ On(v.state, h)
                    /\ Shapes(h, Len(v.state) + 1, Len(h)) = {}
                  BY <6>1, <6>2, <8>2 DEF Seen
              <8> QED
                  BY <8>3, SameShape
            <7> QED
                BY <7>1, <7>2
          <6>4. Words(view, view.state)
              BY <1>2, <4>2
          <6> QED
              BY <6>3, <6>4 DEF Words, Alike, SameCurve
        <5> QED
            BY <3>2, <3>5, <5>1, LoadedWords DEF net, Words
      <4> QED
          BY <4>1, <4>2
    <3> QED
        BY <3>2, <3>3, <3>4, <3>5
  <2> QED
      BY <2>1, <2>2
<1>4. ViewOK'
  <2>1. /\ view'.needsSeed \in BOOLEAN /\ Seen(view'.cursor) /\ DOMAIN view' = Fields
        /\ Follows(view')
      BY <1>1, <1>3 DEF DetailInv, ViewOK
  <2> QED
      BY <2>1, ViewNext
<1>5. ErrandOK'
  <2>1. On(view.cursor, view'.cursor)
      BY <1>1, <1>3, OnItself
  <2> QED
      BY <1>1, <1>3, <2>1, ErrandSame
<1>6. PollOK'
  <2>1. Seen(poll.head)'
      BY <1>3 DEF Seen, Canonical, At
  <2>2. Canonical(poll.head)' <=> Canonical(h)
      BY <1>3 DEF Canonical, At
  <2>3. ~poll'.loaded /\ ~torn' /\ Concentrated => Words(view', view'.state)
      BY <1>2, <1>3 DEF Words
  <2> QED
      BY <1>3, <2>1, <2>2, <2>3 DEF PollOK, Concentrated, Words, Loading
<1>7. FeedOK' /\ ChainOK'
    BY FeedSame, SeenStill DEF DetailInv
<1> QED
    BY <1>4, <1>5, <1>6, <1>7 DEF DetailInv

\* The selection as it stands once it has synchronised with the index.
LEMMA SyncedView ==
    ASSUME DetailInv, ~view.needsSeed, NEW n
    PROVE  /\ Follows(Synced(view, n)) /\ Alike(view, Synced(view, n))
           /\ Synced(view, n).through = view.through
           /\ view.cursor \in Hashes /\ Seen(view.cursor) /\ Follows(view)
           /\ DOMAIN view = Fields
<1>1. DOMAIN view = Fields /\ Follows(view) /\ FeedOK
    BY DEF DetailInv, ViewOK
<1>2. view.cursor \in Hashes /\ Seen(view.cursor)
    BY <1>1, Absence DEF DetailInv, ViewOK, Follows
<1> QED
    BY <1>1, <1>2, SyncedFollows

\* A reorganisation was detected: the next poll seeds.
LEMMA InvalidatedInv ==
    ASSUME DetailInv, UNCHANGED <<chain, forks, kind, feed>>,
           view' = Invalidated(view),
           \/ poll' = RestingPoll
           \/ poll.pc = "rest" /\ UNCHANGED <<poll, torn>>,
           errand' = errand \/ errand' = RestingJob
    PROVE  DetailInv'
<1>1. DOMAIN view' = Fields /\ view'.needsSeed = TRUE /\ view'.cursor = view.cursor
    BY DEF DetailInv, ViewOK, Invalidated, Fields
<1>2. ViewOK'
    BY <1>1, SeedingViewOK
<1>3. PollOK'
    BY <1>1 DEF PollOK, RestingPoll, Loading
<1>4. ErrandOK'
    BY <1>1, ErrandOfSeed, RestingErrand
<1> QED
    BY <1>2, <1>3, <1>4, FeedSame, SeenStill DEF DetailInv

\* The selection is shown with what it learned from the index.
LEMMA SyncedInv ==
    ASSUME DetailInv, ~view.needsSeed, poll.pc = "rest", NEW n,
           UNCHANGED <<chain, forks, kind, feed, errand>>,
           view' = Synced(view, n), poll' = poll \/ poll' = RestingPoll, torn' = torn
    PROVE  DetailInv'
<1>1. /\ Follows(view') /\ Alike(view, view') /\ view'.through = view.through
      /\ view.cursor \in Hashes /\ Seen(view.cursor) /\ Follows(view)
    BY SyncedView
<1>2. ViewOK'
  <2>1. /\ view'.needsSeed \in BOOLEAN /\ Seen(view'.cursor) /\ DOMAIN view' = Fields
      BY <1>1 DEF Alike, DetailInv, ViewOK
  <2> QED
      BY <1>1, <2>1, ViewNext
<1>3. PollOK'
  <2>1. Concentrated /\ ~torn => Words(view, view.state)
      BY DEF DetailInv, PollOK, Loading
  <2>2. poll'.pc = "rest"
      BY DEF RestingPoll
  <2> QED
      BY <1>1, <2>1, <2>2 DEF PollOK, Loading, Words, Alike, Concentrated
<1>4. ErrandOK'
  <2>1. On(view.cursor, view'.cursor) /\ view'.cursor = view.cursor
      BY <1>1, OnItself DEF Alike
  <2> QED
      BY <1>1, <2>1, ErrandSame DEF Alike
<1> QED
    BY <1>2, <1>3, <1>4, FeedSame, SeenStill DEF DetailInv

LEMMA AdvanceReadInv ==
    ASSUME DetailInv, NEW h \in PollHeads, AdvanceRead(h)
    PROVE  DetailInv'
<1>1. /\ UNCHANGED <<chain, forks, kind, feed>> /\ poll.pc = "rest" /\ ~view.needsSeed
      /\ Len(h) \in Len(view.cursor) + 1 .. Min({Len(chain), Len(view.cursor) + CatchUp})
    BY DEF AdvanceRead, envVars, Polls
<1>2. CASE ~Canonical(view.cursor) \/ view.fed = "broken"
  <2>1. view' = Invalidated(view) /\ poll' = RestingPoll /\ errand' = errand
      BY <1>2 DEF AdvanceRead, ReorgDetected
  <2> QED
      BY <1>1, <2>1, InvalidatedInv
<1>3. CASE ~(~Canonical(view.cursor) \/ view.fed = "broken")
  <2> DEFINE v == Synced(view, Len(h))
  <2>1. /\ Follows(v) /\ Alike(view, v) /\ v.through = view.through
        /\ view.cursor \in Hashes
      BY <1>1, SyncedView
  <2>2. Seen(h) /\ h \in Hashes /\ Len(h) \in Nat
      BY HeadsSeen, HashLength DEF Seen
  <2>3. Len(view.cursor) < Len(h)
      BY <1>1, <2>1, <2>2, HashLength
  <2>4. Canonical(h) => On(view.cursor, h)
    <3>1. Canonical(h) => On(h, chain) /\ On(view.cursor, chain)
        BY <1>3, CanonicalIs
    <3>2. Len(view.cursor) <= Len(h)
        BY <2>1, <2>2, <2>3, HashLength
    <3>3. chain \in Hashes
        BY DEF DetailInv, ChainOK
    <3> QED
        BY <2>1, <2>2, <3>1, <3>2, <3>3, OnSameBranch
  <2>5. errand' = errand
      BY <1>3 DEF AdvanceRead
  <2>6. \/ view' = v /\ poll' = CoreRead("advance", h) /\ torn' = torn
        \/ \E words : Concentrated /\ Loads("advance", h, v, words)
      BY <1>3 DEF AdvanceRead, NeedsCurve
  <2> HIDE DEF v
  <2> QED
      BY <1>1, <2>1, <2>2, <2>3, <2>4, <2>5, <2>6, CoreReadInv
<1> QED
    BY <1>2, <1>3

LEMMA RevisitInv ==
    ASSUME DetailInv, Revisit
    PROVE  DetailInv'
<1>1. /\ UNCHANGED <<chain, forks, kind, feed>> /\ poll.pc = "rest" /\ ~view.needsSeed
    BY DEF Revisit, envVars, Polls
<1>2. CASE view.fed = "broken"
  <2>1. view' = Invalidated(view) /\ poll' = RestingPoll /\ errand' = errand
      BY <1>2 DEF Revisit, ReorgDetected
  <2> QED
      BY <1>1, <2>1, InvalidatedInv
<1>3. CASE view.fed # "broken"
  <2> DEFINE v == Synced(view, Len(view.cursor))
  <2>1. /\ Follows(v) /\ Alike(view, v) /\ v.through = view.through
        /\ view.cursor \in Hashes /\ Seen(view.cursor)
      BY <1>1, SyncedView
  <2>2. CASE view' = v /\ poll' = RestingPoll /\ UNCHANGED <<errand, torn>>
      BY <1>1, <2>2, SyncedInv
  <2>3. CASE errand' = errand /\ Concentrated /\ Loads("same", view.cursor, v, Viewport(view.cursor))
    <3>1. On(view.cursor, view.cursor)
        BY <2>1, OnItself
    <3> HIDE DEF v
    <3> QED
        BY <1>1, <2>1, <2>3, <3>1, CoreReadInv
  <2> QED
      BY <1>3, <2>2, <2>3 DEF Revisit, Publish, NeedsCurve
<1> QED
    BY <1>2, <1>3

LEMMA HeadBrokenInv ==
    ASSUME DetailInv, NEW h, HeadBroken(h)
    PROVE  DetailInv'
<1>1. /\ UNCHANGED <<chain, forks, kind, feed>>
      /\ view' = Invalidated(view) /\ poll' = RestingPoll /\ errand' = errand
    BY DEF HeadBroken, ReorgDetected, envVars
<1> QED
    BY <1>1, InvalidatedInv

LEMMA SupersededInv ==
    ASSUME DetailInv, NEW h, Superseded(h)
    PROVE  DetailInv'
<1>1. /\ UNCHANGED <<chain, forks, kind, feed, poll, torn>> /\ poll.pc = "rest"
    BY DEF Superseded, envVars, Polls
<1>2. CASE view' = Cleared /\ errand' = [errand EXCEPT !.same = FALSE]
  <2>1. ViewOK'
      BY <1>1, <1>2, ClearedIs, SeedingViewOK
  <2>2. ErrandOK'
      BY <1>1, <1>2, ClearedIs, ErrandOfSeed
  <2>3. PollOK'
      BY <1>1, <1>2, ClearedIs DEF PollOK, Loading
  <2> QED
      BY <1>1, <2>1, <2>2, <2>3, FeedSame, SeenStill DEF DetailInv
<1>3. CASE ~view.needsSeed /\ view' = Synced(view, Len(h)) /\ errand' = errand
    BY <1>1, <1>3, SyncedInv
<1> QED
    BY <1>2, <1>3 DEF Superseded

\* A seed that is confirmed starts the selection at its block.
LEMMA SeededFollows ==
    ASSUME DetailInv, poll.pc = "confirm", poll.mode = "seed", Canonical(poll.head)
    PROVE  LET w == SeededAt(poll.head) IN
           /\ DOMAIN w = Fields /\ ~w.needsSeed /\ w.needsSeed \in BOOLEAN
           /\ w.cursor = poll.head /\ Follows(w)
           /\ w.state = poll.head /\ w.net = view.net
<1> DEFINE h == poll.head
           v == [view EXCEPT !.needsSeed = FALSE, !.cursor = h, !.floor = Len(h) + 1,
                             !.base = Len(h) + 1, !.frontier = NULL, !.complete = FALSE,
                             !.pending = TRUE]
           c == WithCurve(v)
           w == SeededAt(h)
<1>1. h \in Hashes /\ Len(h) \in Nat /\ DOMAIN view = Fields
    BY HashLength DEF DetailInv, PollOK, ViewOK, Seen
<1>2. view.start = NULL /\ view.through = NULL
    BY DEF DetailInv, PollOK
<1>3. w = Synced(c, Len(h))
    BY DEF SeededAt
<1>4. /\ DOMAIN v = Fields /\ v.needsSeed = FALSE /\ v.cursor = h /\ v.floor = Len(h) + 1
      /\ v.base = Len(h) + 1 /\ v.start = NULL /\ v.through = NULL /\ v.net = view.net
    BY <1>1, <1>2 DEF Fields
<1> HIDE DEF h, v
<1>5. HasEvents(v)
  <2>1. Shapes(v.cursor, v.floor, v.base - 1) = {}
      BY <1>1, <1>4, NoInterval
  <2> QED
      BY <1>1, <1>4, <2>1 DEF HasEvents
<1>6. /\ Follows(c) /\ DOMAIN c = Fields /\ c.state = h /\ c.cursor = h
      /\ c.net = view.net /\ c.needsSeed = FALSE
    BY <1>1, <1>4, <1>5, CurveRead
<1> HIDE DEF c, w
<1>7. Follows(w) /\ Alike(c, w)
    BY <1>3, <1>6, SyncedFollows DEF DetailInv
<1> QED
    BY <1>6, <1>7 DEF Alike, w, h

\* A confirmed head moves the selection up its branch.
LEMMA AdvancedFollows ==
    ASSUME DetailInv, poll.pc = "confirm", poll.mode # "seed", Canonical(poll.head)
    PROVE  LET w == Advanced(poll.head) IN
           /\ DOMAIN w = Fields /\ ~w.needsSeed /\ w.needsSeed \in BOOLEAN
           /\ w.cursor = poll.head /\ Follows(w) /\ w.net = view.net
           /\ w.state = IF poll.loaded \/ (kind = "v2" /\ poll.mode = "advance")
                        THEN poll.head ELSE view.state
           /\ w.base = view.base /\ w.through = view.through
           /\ On(view.cursor, poll.head)
<1> DEFINE h == poll.head
           p == view.pending \/ poll.mode = "advance"
           v == [view EXCEPT !.cursor = h, !.pending = p]
<1>1. /\ h \in Hashes /\ DOMAIN view = Fields /\ ~view.needsSeed /\ view.needsSeed \in BOOLEAN
      /\ Follows(view) /\ On(view.cursor, h)
    BY DEF DetailInv, PollOK, ViewOK, Seen
<1> HIDE DEF h, p
<1>2. /\ DOMAIN v = Fields /\ v.needsSeed = view.needsSeed /\ v.cursor = h /\ v.net = view.net
      /\ v.state = view.state /\ v.base = view.base /\ v.through = view.through
    BY <1>1 DEF Fields
<1>3. Follows(v)
    BY <1>1, FollowsUp
<1>4. Advanced(h) = IF poll.loaded \/ (kind = "v2" /\ poll.mode = "advance") THEN WithCurve(v) ELSE v
    BY DEF Advanced, p
<1> HIDE DEF v
<1>5. HasEvents(v) /\ v.cursor \in Hashes
    BY <1>3 DEF Follows
<1>6. LET w == WithCurve(v) IN
      /\ Follows(w) /\ DOMAIN w = Fields /\ w.state = v.cursor /\ w.cursor = v.cursor
      /\ w.net = v.net /\ w.needsSeed = v.needsSeed
      /\ w.base = v.base /\ w.through = v.through
    BY <1>2, <1>5, CurveRead
<1>7. CASE poll.loaded \/ (kind = "v2" /\ poll.mode = "advance")
    BY <1>1, <1>2, <1>4, <1>6, <1>7 DEF h
<1>8. CASE ~(poll.loaded \/ (kind = "v2" /\ poll.mode = "advance"))
    BY <1>1, <1>2, <1>3, <1>4, <1>8 DEF h
<1> QED
    BY <1>7, <1>8

LEMMA ConfirmInv ==
    ASSUME DetailInv, Confirm
    PROVE  DetailInv'
<1>1. UNCHANGED <<chain, forks, kind, feed>> /\ poll.pc = "confirm"
    BY DEF Confirm, envVars
<1>2. Seen(poll.head) /\ poll.head \in Hashes
    BY <1>1 DEF DetailInv, PollOK, Seen
<1>3. CASE ~Canonical(poll.head)
  <2>1. view' = Invalidated(view) /\ poll' = RestingPoll /\ errand' = errand
      BY <1>3 DEF Confirm, ReorgDetected
  <2> QED
      BY <1>1, <2>1, InvalidatedInv
<1>4. CASE Canonical(poll.head) /\ poll.mode = "seed"
  <2>1. view' = SeededAt(poll.head) /\ poll' = RestingPoll /\ UNCHANGED <<errand, torn>>
      BY <1>4 DEF Confirm, Publish
  <2>2. /\ DOMAIN view' = Fields /\ ~view'.needsSeed /\ view'.needsSeed \in BOOLEAN
        /\ view'.cursor = poll.head /\ Follows(view')
        /\ view'.state = poll.head /\ view'.net = view.net
      BY <1>1, <1>4, <2>1, SeededFollows
  <2>3. ViewOK'
      BY <1>1, <1>2, <2>2, ViewNext
  <2>4. ~torn /\ Concentrated => Words(view, poll.head)
      BY <1>1, <1>4 DEF DetailInv, PollOK
  <2>5. ~torn' /\ Concentrated => Words(view', view'.state)
      BY <2>1, <2>2, <2>4 DEF Words
  <2>6. PollOK'
      BY <1>1, <2>1, <2>5, PollAtRest
  <2>7. ErrandOK'
    <3>1. ~errand.same
        BY <1>1, <1>4 DEF DetailInv, PollOK
    <3> QED
        BY <1>1, <2>1, <3>1 DEF DetailInv, ErrandOK, Seen, Canonical, At
  <2> QED
      BY <1>1, <2>3, <2>6, <2>7, FeedSame, SeenStill DEF DetailInv
<1>5. CASE Canonical(poll.head) /\ poll.mode # "seed"
  <2>1. view' = Advanced(poll.head) /\ poll' = RestingPoll /\ UNCHANGED <<errand, torn>>
      BY <1>5 DEF Confirm, Publish
  <2>2. /\ DOMAIN view' = Fields /\ ~view'.needsSeed /\ view'.needsSeed \in BOOLEAN
        /\ view'.cursor = poll.head /\ Follows(view') /\ view'.net = view.net
        /\ view'.state = IF poll.loaded \/ (kind = "v2" /\ poll.mode = "advance")
                         THEN poll.head ELSE view.state
        /\ view'.base = view.base /\ view'.through = view.through
        /\ On(view.cursor, poll.head)
      BY <1>1, <1>5, <2>1, AdvancedFollows
  <2>3. ViewOK'
      BY <1>1, <1>2, <2>2, ViewNext
  <2>4. /\ ~view.needsSeed
        /\ ~torn /\ poll.loaded => Words(view, poll.head)
        /\ ~torn /\ Concentrated /\ ~poll.loaded => Words(view, view.state)
      BY <1>1, <1>5 DEF DetailInv, PollOK, Loading
  <2>5. ~torn' /\ Concentrated => Words(view', view'.state)
      BY <2>1, <2>2, <2>4 DEF Words, Concentrated
  <2>6. PollOK'
      BY <1>1, <2>1, <2>5, PollAtRest
  <2>7. view.cursor \in Hashes
      BY <2>4 DEF DetailInv, ViewOK, Follows
  <2>8. ErrandOK'
      BY <1>1, <1>2, <2>1, <2>2, <2>4, <2>7, ErrandSame
  <2> QED
      BY <1>1, <2>3, <2>6, <2>8, FeedSame, SeenStill DEF DetailInv
<1> QED
    BY <1>3, <1>4, <1>5

LEMMA PollFailsInv ==
    ASSUME DetailInv, NEW transport \in BOOLEAN, PollFails(transport)
    PROVE  DetailInv'
<1>1. /\ UNCHANGED <<chain, forks, kind, feed, errand>> /\ poll.pc = "confirm"
      /\ view' = (IF transport THEN view ELSE Invalidated(view))
      /\ poll' = RestingPoll /\ torn' = (torn \/ poll.loaded)
    BY DEF PollFails, envVars
<1>2. CASE ~transport
    BY <1>1, <1>2, InvalidatedInv
<1>3. CASE transport
  <2>1. view' = view
      BY <1>1, <1>3
  <2>2. ViewOK'
      BY <1>1, <2>1, ViewNext DEF DetailInv, ViewOK
  <2>3. ~torn' /\ ~view.needsSeed /\ Concentrated => Words(view, view.state)
      BY <1>1 DEF DetailInv, PollOK, Loading
  <2>4. PollOK'
      BY <1>1, <2>1, <2>3, PollAtRest
  <2>5. ErrandOK'
      BY <1>1, <2>1 DEF DetailInv, ErrandOK, Seen, Canonical, At
  <2> QED
      BY <1>1, <2>2, <2>4, <2>5, FeedSame, SeenStill DEF DetailInv
<1> QED
    BY <1>2, <1>3

-----------------------------------------------------------------------------
(* The maintenance thread.                                                 *)

LEMMA BranchHashes ==
    ASSUME NEW h \in Hashes, NEW from \in Nat, NEW to \in Int
    PROVE  Swaps(h, from, to) \subseteq Hashes /\ Shapes(h, from, to) \subseteq Hashes
<1>1. ASSUME NEW n \in from..to, n <= Len(h) PROVE Ancestor(h, n) \in Hashes
  <2>1. n \in 0..Len(h)
      BY <1>1, HashLength
  <2> QED
      BY <2>1, AncestorIs
<1> QED
    BY <1>1 DEF Swaps, Shapes, Branch

\* The live thread's reading after the maintenance thread took an errand or
\* dropped it.
LEMMA ErrandInv ==
    ASSUME DetailInv, UNCHANGED <<chain, forks, kind, feed, view, poll, torn>>,
           poll.pc = "rest" \/ ~errand'.same, ErrandOK'
    PROVE  DetailInv'
<1>1. ViewOK'
    BY DEF DetailInv, ViewOK, Follows, HasEvents, HasCurve, Seen, Canonical, At
<1>2. Seen(poll.head)' <=> Seen(poll.head)
    BY DEF Seen, Canonical, At
<1>3. Canonical(poll.head)' <=> Canonical(poll.head)
    BY DEF Canonical, At
<1>4. PollOK'
    BY <1>2, <1>3 DEF DetailInv, PollOK, Words, Loading, Concentrated
<1> QED
    BY <1>1, <1>4, FeedSame, SeenStill DEF DetailInv

\* The maintenance thread publishes what it read and ends its errand.
LEMMA MaintainedInv ==
    ASSUME DetailInv, UNCHANGED <<chain, forks, kind, feed, poll, torn>>, poll.pc = "rest",
           errand' = RestingJob, NEW w, view' = w, Alike(view, w),
           ~view.needsSeed => Follows(w)
    PROVE  DetailInv'
<1>1. ViewOK'
  <2>1. /\ DOMAIN w = Fields /\ w.needsSeed \in BOOLEAN
        /\ w.cursor # NULL => Seen(w.cursor)
        /\ ~w.needsSeed => Follows(w)
      BY DEF Alike, DetailInv, ViewOK
  <2> QED
      BY <2>1, ViewNext
<1>2. PollOK'
  <2>1. Concentrated /\ ~torn /\ ~view.needsSeed => Words(view, view.state)
      BY DEF DetailInv, PollOK, Loading
  <2> QED
      BY <2>1 DEF PollOK, Loading, Words, Alike, Concentrated
<1> QED
    BY <1>1, <1>2, RestingErrand, FeedSame, SeenStill DEF DetailInv

LEMMA RecentReadInv ==
    ASSUME DetailInv, RecentRead
    PROVE  DetailInv'
<1> DEFINE from == RecentStart
           to == Len(view.cursor)
           logs == Swaps(chain, from, to) \cup Shapes(chain, from, to)
<1>1. /\ UNCHANGED <<chain, forks, kind, feed, view, poll, torn>>
      /\ poll.pc = "rest" /\ ~view.needsSeed
      /\ errand' = [pc |-> "recent", at |-> view.cursor, from |-> from, to |-> to,
                    mark |-> At(from), same |-> TRUE, logs |-> logs]
    BY DEF RecentRead, Unlocked, Following, envVars
<1>2. /\ view.cursor \in Hashes /\ to \in Nat /\ Seen(view.cursor) /\ HasEvents(view)
    BY <1>1, Absence, HashLength DEF DetailInv, ViewOK, Follows
<1>3. from \in Nat /\ from <= to + 1 /\ (view.through # NULL => from = view.through + 1)
  <2>1. CASE view.through # NULL
      BY <1>2, <2>1 DEF RecentStart, HasEvents
  <2>2. CASE view.through = NULL
    <3> DEFINE back == to - SeedDistance
    <3>1. back \in Int /\ back <= to /\ 0 \in Int
        BY <1>2, DetailAssumption
    <3>2. from = Max({0, back})
        BY <2>2 DEF RecentStart
    <3> HIDE DEF back, from, to
    <3>3. Max({0, back}) \in {0, back} /\ 0 <= Max({0, back})
        BY <3>1, OfTwo
    <3> QED
        BY <1>2, <2>2, <3>1, <3>2, <3>3
  <2> QED
      BY <2>1, <2>2
<1> HIDE DEF from, to
<1>4. logs \subseteq Hashes
    BY <1>2, <1>3, BranchHashes DEF DetailInv, ChainOK
<1>5. Canonical(view.cursor) => Swaps(view.cursor, from, to) \cup Shapes(view.cursor, from, to) = logs
  <2>1. chain \in Hashes
      BY DEF DetailInv, ChainOK
  <2>2. to \in Int /\ to <= Len(view.cursor)
      BY <1>2 DEF to
  <2> QED
      BY <1>2, <1>3, <2>1, <2>2, CanonicalIs, BranchOn
<1> HIDE DEF logs
<1>6. On(view.cursor, view.cursor) /\ view.base <= to + 1
    BY <1>2, OnItself DEF HasEvents, to
<1>7. ErrandOK'
  <2>1. Seen(errand.at)'
      BY <1>1, <1>2 DEF Seen, Canonical, At
  <2>2. Canonical(errand.at)' <=> Canonical(view.cursor)
      BY <1>1 DEF Canonical, At
  <2> QED
      BY <1>1, <1>3, <1>4, <1>5, <1>6, <2>1, <2>2 DEF ErrandOK, to
<1> QED
    BY <1>1, <1>7, ErrandInv

\* What the recent logs of an interval change in the selection.
Taken(v, w, from, to, logs) ==
    LET above == Above(v, LpEvents(logs))
        base == IF v.state = NULL THEN -1 ELSE Len(v.state)
    IN  /\ Alike(v, w)
        /\ w.swaps = v.swaps \cup {b \in logs : HasSwap(b)}
        /\ w.start = (IF v.start = NULL \/ from < v.start THEN from ELSE v.start)
        /\ w.through = (IF v.through = NULL THEN to ELSE Max({v.through, to}))
        /\ kind = "v3" => w.lp = v.lp \cup LpEvents(logs)
        /\ kind # "v3" => w.lp = v.lp
        /\ w.floor = (IF kind # "v3" THEN 0
                      ELSE IF v.floor <= 0 \/ from < v.floor THEN from ELSE v.floor)
        /\ w.dirty = (IF above # {} THEN Earliest(v.dirty, above) ELSE v.dirty)
        /\ w.verified = (IF above # {} THEN Min({Or(v.verified, base), Min(above) - 1})
                         ELSE IF Joins(v, from) THEN Max({to, Or(v.verified, base)})
                         ELSE v.verified)

LEMMA RecentFields ==
    ASSUME NEW v, DOMAIN v = Fields, NEW from, NEW to, NEW mark, NEW logs
    PROVE  Taken(v, Historic(Verified(Covered(v, from, to, logs), from, to, LpEvents(logs)),
                             from, mark, logs), from, to, logs)
<1> DEFINE c == Covered(v, from, to, logs)
           shapes == LpEvents(logs)
           above == Above(v, shapes)
           u == Verified(c, from, to, shapes)
           w == Historic(u, from, mark, logs)
<1>1. /\ Alike(v, c) /\ c.swaps = v.swaps \cup {b \in logs : HasSwap(b)} /\ c.lp = v.lp
      /\ c.start = (IF v.start = NULL \/ from < v.start THEN from ELSE v.start)
      /\ c.through = (IF v.through = NULL THEN to ELSE Max({v.through, to}))
      /\ c.floor = v.floor /\ c.verified = v.verified /\ c.dirty = v.dirty
    BY DEF Covered, WithSwaps, Alike, Fields
<1> HIDE DEF c
<1>2. Above(c, shapes) = above /\ (Joins(c, from) <=> Joins(v, from))
    BY <1>1 DEF Above, Joins, Alike
<1> HIDE DEF shapes, above
<1>3. /\ Alike(v, u) /\ u.swaps = c.swaps /\ u.lp = v.lp /\ u.start = c.start
      /\ u.through = c.through /\ u.floor = v.floor
      /\ u.dirty = IF above # {} THEN Earliest(v.dirty, above) ELSE v.dirty
      /\ u.verified = IF above # {}
                      THEN Min({Or(v.verified, IF v.state = NULL THEN -1 ELSE Len(v.state)),
                                Min(above) - 1})
                      ELSE IF Joins(v, from)
                      THEN Max({to, Or(v.verified, IF v.state = NULL THEN -1 ELSE Len(v.state))})
                      ELSE v.verified
    BY <1>1, <1>2 DEF Verified, Alike, Fields
<1> HIDE DEF u
<1>4. CASE kind # "v3"
  <2>1. /\ Alike(v, w) /\ w.swaps = u.swaps /\ w.lp = v.lp /\ w.start = u.start
        /\ w.through = u.through /\ w.floor = 0 /\ w.dirty = u.dirty /\ w.verified = u.verified
      BY <1>3, <1>4 DEF Historic, Alike, Fields
  <2> QED
      BY <1>1, <1>3, <1>4, <2>1 DEF Taken, w, u, c, shapes, above
<1>5. CASE kind = "v3"
  <2> DEFINE l == [WithLp(u, shapes) EXCEPT !.complete = @ \/ from = 0]
             r == Remembered(l, shapes)
  <2>1. /\ Alike(v, l) /\ l.swaps = u.swaps /\ l.lp = v.lp \cup shapes /\ l.start = u.start
        /\ l.through = u.through /\ l.floor = v.floor /\ l.dirty = u.dirty
        /\ l.verified = u.verified /\ DOMAIN l = Fields
      BY <1>3 DEF WithLp, Alike, Fields
  <2> HIDE DEF l
  <2>2. /\ Alike(v, r) /\ r.swaps = u.swaps /\ r.lp = v.lp \cup shapes /\ r.start = u.start
        /\ r.through = u.through /\ r.floor = v.floor /\ r.dirty = u.dirty
        /\ r.verified = u.verified
      BY <2>1, RememberedIs DEF Alike
  <2>3. w = IF u.floor <= 0 \/ from < u.floor THEN [r EXCEPT !.floor = from, !.frontier = mark] ELSE r
      BY <1>5 DEF Historic, shapes, l
  <2> HIDE DEF r
  <2>4. /\ Alike(v, w) /\ w.swaps = u.swaps /\ w.lp = v.lp \cup shapes /\ w.start = u.start
        /\ w.through = u.through /\ w.dirty = u.dirty /\ w.verified = u.verified
        /\ w.floor = IF v.floor <= 0 \/ from < v.floor THEN from ELSE v.floor
      BY <1>3, <2>2, <2>3 DEF Alike, Fields
  <2> QED
      BY <1>1, <1>3, <1>5, <2>4 DEF Taken, w, u, c, shapes, above
<1> QED
    BY <1>4, <1>5

\* An interval of logs on the cursor's branch, next to what is covered.
LEMMA RecentEvents ==
    ASSUME NEW v, v.cursor \in Hashes, HasEvents(v),
           NEW at \in Hashes, On(at, v.cursor), NEW from \in Nat, NEW to, to = Len(at),
           from <= to + 1, v.base <= to + 1, v.through # NULL => from = v.through + 1,
           NEW logs, Swaps(at, from, to) \cup Shapes(at, from, to) \subseteq logs,
           NEW x, Taken(v, x, from, to, logs)
    PROVE  HasEvents(x)
<1>0. /\ x.cursor = v.cursor /\ x.base = v.base
      /\ x.swaps = v.swaps \cup {b \in logs : HasSwap(b)}
      /\ x.start = (IF v.start = NULL \/ from < v.start THEN from ELSE v.start)
      /\ x.through = (IF v.through = NULL THEN to ELSE Max({v.through, to}))
      /\ kind = "v3" => x.lp = v.lp \cup LpEvents(logs)
      /\ kind # "v3" => x.lp = v.lp
      /\ x.floor = (IF kind # "v3" THEN 0
                    ELSE IF v.floor <= 0 \/ from < v.floor THEN from ELSE v.floor)
    BY DEF Taken, Alike
<1>1. /\ to \in Nat /\ Len(v.cursor) \in Nat /\ to <= Len(v.cursor)
      /\ NULL \notin Nat
    BY HashLength, Absence DEF On
<1>2. /\ Swaps(v.cursor, from, to) \subseteq {b \in logs : HasSwap(b)}
      /\ Shapes(v.cursor, from, to) \subseteq LpEvents(logs)
  <2>1. /\ Swaps(at, from, to) = Swaps(v.cursor, from, to)
        /\ Shapes(at, from, to) = Shapes(v.cursor, from, to)
      BY <1>1, BranchOn
  <2> QED
      BY <2>1 DEF Swaps, Shapes, LpEvents
<1>3. /\ x.start # NULL /\ x.through # NULL /\ x.start \in Nat /\ x.through \in Nat
      /\ x.through <= Len(v.cursor)
      /\ Swaps(v.cursor, x.start, x.through) \subseteq x.swaps
      /\ kind = "v3" => Shapes(v.cursor, x.start, x.through) \subseteq x.lp
  <2>1. CASE v.start = NULL
    <3>1. x.start = from /\ x.through = to
        BY <1>0, <2>1 DEF HasEvents
    <3> QED
        BY <1>0, <1>1, <1>2, <3>1
  <2>2. CASE v.start # NULL
    <3>1. /\ v.start \in Nat /\ v.through \in Nat /\ v.through <= Len(v.cursor)
          /\ Swaps(v.cursor, v.start, v.through) \subseteq v.swaps
          /\ kind = "v3" => Shapes(v.cursor, v.start, v.through) \subseteq v.lp
          /\ from = v.through + 1
        BY <1>1, <2>2 DEF HasEvents
    <3>2. /\ x.start = (IF from < v.start THEN from ELSE v.start)
          /\ x.through = Max({v.through, to})
        BY <1>0, <1>1, <2>2, <3>1
    <3>3. PICK t : t = v.through
        OBVIOUS
    <3>4. Max({t, to}) \in {t, to} /\ t <= Max({t, to}) /\ to <= Max({t, to})
      <4>1. t \in Int /\ to \in Int
          BY <1>1, <3>1, <3>3
      <4> QED
          BY <4>1, OfTwo
    <3>5. x.through \in {v.through, to} /\ x.through \in Nat /\ x.start \in Nat
        BY <1>1, <3>1, <3>2, <3>3, <3>4
    <3>6. \A n \in x.start..x.through : n \in v.start..v.through \/ n \in from..to
        BY <1>1, <3>1, <3>2, <3>5
    <3>7. /\ Swaps(v.cursor, x.start, x.through) \subseteq
                Swaps(v.cursor, v.start, v.through) \cup Swaps(v.cursor, from, to)
          /\ Shapes(v.cursor, x.start, x.through) \subseteq
                Shapes(v.cursor, v.start, v.through) \cup Shapes(v.cursor, from, to)
        BY <3>6 DEF Swaps, Shapes, Branch
    <3> QED
        BY <1>0, <1>1, <1>2, <3>1, <3>5, <3>7
  <2> QED
      BY <2>1, <2>2
<1>4. /\ v.floor \in Nat /\ v.floor <= Len(v.cursor) + 1
      /\ v.base \in Nat /\ v.base <= Len(v.cursor) + 1
      /\ kind = "v3" => Shapes(v.cursor, v.floor, v.base - 1) \subseteq v.lp
    BY DEF HasEvents
<1>5. x.floor \in Nat /\ x.floor <= Len(v.cursor) + 1
    BY <1>0, <1>1, <1>4
<1>6. ASSUME kind = "v3" PROVE Shapes(v.cursor, x.floor, v.base - 1) \subseteq x.lp
  <2>1. CASE x.floor = v.floor
      BY <1>0, <1>4, <1>6, <2>1
  <2>2. CASE x.floor = from
    <3>1. \A n \in from..(v.base - 1) : n \in from..to \/ n \in from..to
        BY <1>0, <1>1, <1>4
    <3>2. Shapes(v.cursor, from, v.base - 1) \subseteq Shapes(v.cursor, from, to) \cup Shapes(v.cursor, from, to)
        BY <3>1 DEF Shapes, Branch
    <3> QED
        BY <1>0, <1>2, <1>6, <2>2, <3>2
  <2> QED
      BY <1>0, <1>6, <2>1, <2>2
<1> QED
    BY <1>0, <1>3, <1>4, <1>5, <1>6 DEF HasEvents

\* An interval without a change of shape above the curve's block continues it.
LEMMA RecentCurve ==
    ASSUME NEW v, v.cursor \in Hashes, HasCurve(v),
           NEW at \in Hashes, On(at, v.cursor), NEW from \in Nat, NEW to, to = Len(at),
           NEW logs \in SUBSET Hashes, Shapes(at, from, to) \subseteq logs,
           NEW x, Taken(v, x, from, to, logs)
    PROVE  HasCurve(x)
<1> DEFINE verified == v.verified
           above == Above(v, LpEvents(logs))
           base == IF v.state = NULL THEN -1 ELSE Len(v.state)
<1>0. /\ x.cursor = v.cursor /\ x.state = v.state
      /\ x.dirty = (IF above # {} THEN Earliest(v.dirty, above) ELSE v.dirty)
      /\ x.verified = (IF above # {} THEN Min({Or(verified, base), Min(above) - 1})
                       ELSE IF Joins(v, from) THEN Max({to, Or(verified, base)})
                       ELSE verified)
    BY DEF Taken, Alike
<1>1. /\ to \in Nat /\ Len(v.cursor) \in Nat /\ to <= Len(v.cursor)
      /\ v.state \in Hashes /\ Len(v.state) \in Nat /\ On(v.state, v.cursor)
      /\ verified \in Int /\ verified <= Len(v.cursor) /\ v.dirty \in Int \cup {NULL}
      /\ Shapes(v.cursor, Len(v.state) + 1, verified) = {}
      /\ verified # NULL /\ v.state # NULL
    BY HashLength, Absence DEF On, HasCurve
<1>2. above \in SUBSET Nat
    BY Numbered DEF above, Above, LpEvents
<1>3. x.dirty \in Int \cup {NULL}
    BY <1>0, <1>1, <1>2, EarliestIs
<1>4. Or(verified, base) = verified
    BY <1>1 DEF Or
<1> HIDE DEF verified, above, base
<1>5. x.verified = IF above # {} THEN Min({verified, Min(above) - 1})
                   ELSE IF Joins(v, from) THEN Max({to, verified}) ELSE verified
    BY <1>0, <1>4
<1>6. ASSUME x.verified \in Int, x.verified <= verified
      PROVE  /\ x.verified <= Len(v.cursor)
             /\ Shapes(v.cursor, Len(v.state) + 1, x.verified) = {}
  <2>1. \A n \in (Len(v.state) + 1)..x.verified :
            n \in (Len(v.state) + 1)..verified \/ n \in (Len(v.state) + 1)..verified
      BY <1>1, <1>6
  <2>2. Shapes(v.cursor, Len(v.state) + 1, x.verified) \subseteq
            Shapes(v.cursor, Len(v.state) + 1, verified) \cup Shapes(v.cursor, Len(v.state) + 1, verified)
      BY <2>1 DEF Shapes, Branch
  <2>3. x.verified <= Len(v.cursor)
      BY <1>1, <1>6
  <2> QED
      BY <1>1, <2>2, <2>3
<1>7. /\ x.verified \in Int /\ x.verified <= Len(v.cursor)
      /\ Shapes(v.cursor, Len(v.state) + 1, x.verified) = {}
  <2>1. CASE above # {}
    <3>1. Min(above) \in Int
        BY <1>2, <2>1, LeastIs
    <3> DEFINE least == Min(above)
    <3> HIDE DEF least
    <3>2. least - 1 \in Int
        BY <3>1 DEF least
    <3>3. Min({verified, least - 1}) \in {verified, least - 1} /\ Min({verified, least - 1}) <= verified
        BY <1>1, <3>2, OfTwo
    <3>4. x.verified \in Int /\ x.verified <= verified
        BY <1>1, <1>5, <2>1, <3>2, <3>3 DEF least
    <3> QED
        BY <1>6, <3>4
  <2>2. CASE above = {} /\ Joins(v, from)
    <3>1. from <= verified + 1
        BY <1>4, <2>2 DEF Joins, verified, base
    <3>2. Max({to, verified}) \in {to, verified} /\ to <= Max({to, verified}) /\ verified <= Max({to, verified})
      <4>1. to \in Int /\ verified \in Int
          BY <1>1
      <4> QED
          BY <4>1, OfTwo
    <3>3. x.verified \in {to, verified} /\ x.verified \in Int /\ x.verified <= Len(v.cursor)
        BY <1>1, <1>5, <2>2, <3>2
    <3>4. \A n \in (Len(v.state) + 1)..x.verified :
              n \in (Len(v.state) + 1)..verified \/ n \in Max({from, Len(v.state) + 1})..to
      <4>1. Max({from, Len(v.state) + 1}) \in {from, Len(v.state) + 1}
        <5>1. Len(v.state) + 1 \in Int /\ from \in Int
            BY <1>1
        <5> QED
            BY <5>1, OfTwo
      <4> QED
          BY <1>1, <3>1, <3>3, <4>1
    <3>5. Shapes(v.cursor, Max({from, Len(v.state) + 1}), to) = {}
      <4> DEFINE low == Max({from, Len(v.state) + 1})
      <4>1. low \in Nat /\ from <= low /\ Len(v.state) + 1 <= low
        <5> DEFINE above1 == Len(v.state) + 1
        <5>1. above1 \in Nat /\ above1 \in Int /\ from \in Int
            BY <1>1
        <5> HIDE DEF above1
        <5>2. /\ Max({from, above1}) \in {from, above1}
              /\ from <= Max({from, above1}) /\ above1 <= Max({from, above1})
            BY <5>1, OfTwo
        <5>3. Max({from, above1}) \in Nat
            BY <5>1, <5>2
        <5> QED
            BY <5>2, <5>3 DEF above1
      <4> HIDE DEF low
      <4>2. SUFFICES ASSUME NEW n \in low..to, n <= Len(v.cursor), HasShape(Ancestor(v.cursor, n))
                     PROVE  FALSE
          BY DEF Shapes, Branch, low
      <4>3. n \in from..to /\ n \in 0..Len(v.cursor) /\ n > Len(v.state)
          BY <1>1, <4>1, <4>2
      <4>4. Ancestor(v.cursor, n) \in Shapes(v.cursor, from, to)
          BY <4>2, <4>3 DEF Shapes, Branch
      <4>5. Shapes(at, from, to) = Shapes(v.cursor, from, to)
          BY <1>1, BranchOn
      <4>6. Ancestor(v.cursor, n) \in LpEvents(logs) /\ Len(Ancestor(v.cursor, n)) = n
          BY <4>2, <4>3, <4>4, <4>5, AncestorIs DEF LpEvents
      <4>7. n \in above
          BY <4>3, <4>6 DEF above, Above, Numbers
      <4> QED
          BY <2>2, <4>7
    <3>6. Shapes(v.cursor, Len(v.state) + 1, x.verified) \subseteq
              Shapes(v.cursor, Len(v.state) + 1, verified)
                  \cup Shapes(v.cursor, Max({from, Len(v.state) + 1}), to)
        BY <3>4 DEF Shapes, Branch
    <3> QED
        BY <1>1, <3>3, <3>5, <3>6
  <2>3. CASE above = {} /\ ~Joins(v, from)
      BY <1>1, <1>5, <1>6, <2>3
  <2> QED
      BY <2>1, <2>2, <2>3
<1> QED
    BY <1>0, <1>1, <1>3, <1>7 DEF HasCurve

LEMMA RecentCommitInv ==
    ASSUME DetailInv, RecentCommit
    PROVE  DetailInv'
<1> DEFINE at == errand.at  from == errand.from  to == errand.to  logs == errand.logs
           read == logs \cup IF Stands THEN {errand.mark, at} ELSE {}
           w == Historic(Verified(Covered(view, from, to, logs), from, to, LpEvents(logs)),
                         from, errand.mark, logs)
           x == [w EXCEPT !.pending = Len(view.cursor) > to]
<1>1. /\ UNCHANGED <<chain, forks, kind, feed, poll, torn>>
      /\ errand.pc = "recent" /\ poll.pc = "rest" /\ errand' = RestingJob
      /\ view' = IF \E b \in read : Orphaned(b) THEN Invalidated(view)
                 ELSE IF ~Stands \/ Len(view.cursor) < to \/ \E b \in read : ~Canonical(b) THEN view
                 ELSE x
    BY DEF RecentCommit, Unlocked, envVars
<1>2. CASE view' = Invalidated(view)
    BY <1>1, <1>2, InvalidatedInv
<1>3. CASE view' = view
  <2>1. ErrandOK' /\ ~errand'.same
      BY <1>1, RestingErrand DEF RestingJob
  <2> QED
      BY <1>1, <1>3, <2>1, ErrandInv
<1>4. CASE Stands /\ Canonical(at) /\ view' = x
  <2>1. ~view.needsSeed /\ errand.same
      BY <1>4 DEF Stands
  <2>2. /\ DOMAIN view = Fields /\ Follows(view) /\ HasEvents(view) /\ HasCurve(view)
        /\ view.cursor \in Hashes /\ Seen(view.cursor)
      BY <2>1, Absence DEF DetailInv, ViewOK, Follows
  <2>3. /\ at \in Hashes /\ On(at, view.cursor) /\ from \in Nat /\ to = Len(at)
        /\ from <= to + 1 /\ view.base <= to + 1
        /\ view.through # NULL => from = view.through + 1
        /\ logs \in SUBSET Hashes
        /\ Swaps(at, from, to) \cup Shapes(at, from, to) \subseteq logs
      BY <1>1, <1>4, <2>1 DEF DetailInv, ErrandOK, Seen
  <2> HIDE DEF at, from, to, logs
  <2>4. Taken(view, w, from, to, logs) /\ DOMAIN w = Fields
    <3>1. Taken(view, w, from, to, logs)
        BY <2>2, RecentFields
    <3> HIDE DEF w
    <3> QED
        BY <3>1 DEF Taken, Alike
  <2> HIDE DEF w
  <2>5. Taken(view, x, from, to, logs) /\ Alike(view, x)
      BY <2>4 DEF Taken, Alike, Fields
  <2> HIDE DEF x
  <2>6. HasEvents(x)
      BY <2>2, <2>3, <2>5, RecentEvents
  <2>7. HasCurve(x)
    <3>1. Shapes(at, from, to) \subseteq logs
        BY <2>3
    <3> QED
        BY <2>2, <2>3, <2>5, <3>1, RecentCurve
  <2>8. Follows(x)
      BY <2>2, <2>5, <2>6, <2>7 DEF Follows, Alike
  <2> QED
      BY <1>1, <1>4, <2>5, <2>8, MaintainedInv
<1>5. view' = Invalidated(view) \/ view' = view \/ (Stands /\ Canonical(at) /\ view' = x)
  <2>1. Stands => at \in read
      OBVIOUS
  <2> QED
      BY <1>1, <2>1
<1> QED
    BY <1>2, <1>3, <1>4, <1>5

LEMMA RefreshSkippedInv ==
    ASSUME DetailInv, RefreshSkipped
    PROVE  DetailInv'
<1>1. /\ UNCHANGED <<chain, forks, kind, feed, view, poll, torn>>
      /\ errand' = [RestingJob EXCEPT !.pc = "older"]
    BY DEF RefreshSkipped, envVars
<1>2. ErrandOK' /\ ~errand'.same
    BY <1>1 DEF ErrandOK, RestingJob
<1> QED
    BY <1>1, <1>2, ErrandInv

LEMMA JobFailsInv ==
    ASSUME DetailInv, JobFails
    PROVE  DetailInv'
<1>1. UNCHANGED <<chain, forks, kind, feed, view, poll, torn>> /\ errand' = RestingJob
    BY DEF JobFails, envVars
<1>2. ErrandOK' /\ ~errand'.same
    BY <1>1, RestingErrand DEF RestingJob
<1> QED
    BY <1>1, <1>2, ErrandInv

LEMMA OlderReadInv ==
    ASSUME DetailInv, OlderRead
    PROVE  DetailInv'
<1> DEFINE read == {view.cursor, view.frontier} \ {NULL}
           floor == view.floor
           from == Max({0, floor - ScanChunk})
           to == floor - 1
           logs == Shapes(chain, from, to)
<1>1. /\ UNCHANGED <<chain, forks, kind, feed, poll, torn>>
      /\ poll.pc = "rest" /\ ~view.needsSeed /\ floor > 0
      /\ view' = (IF \E b \in read : Orphaned(b) THEN Invalidated(view) ELSE view)
      /\ errand' = IF \A b \in read : Canonical(b) THEN Chunk ELSE RestingJob
    BY DEF OlderRead, Scans, Unlocked, Following, envVars
<1>2. /\ view.cursor \in Hashes /\ Len(view.cursor) \in Nat /\ Seen(view.cursor)
      /\ HasEvents(view) /\ view.cursor \in read
    BY <1>1, Absence, HashLength DEF DetailInv, ViewOK, Follows
<1>3. CASE \E b \in read : Orphaned(b)
  <2>1. errand' = RestingJob
      BY <1>1, <1>3 DEF Orphaned
  <2> QED
      BY <1>1, <1>3, <2>1, InvalidatedInv
<1>4. CASE view' = view /\ errand' = RestingJob
    BY <1>1, <1>4, RestingErrand, ErrandInv
<1>5. CASE view' = view /\ errand' = Chunk /\ \A b \in read : Canonical(b)
  <2>1. Canonical(view.cursor) /\ On(view.cursor, chain) /\ chain \in Hashes
      BY <1>2, <1>5, CanonicalIs DEF DetailInv, ChainOK
  <2>2. floor \in Nat /\ floor <= Len(view.cursor) + 1 /\ view.base <= Len(view.cursor) + 1
      BY <1>2 DEF HasEvents
  <2> HIDE DEF floor
  <2>3. from \in Nat /\ from <= to /\ to \in Nat /\ to <= Len(view.cursor)
    <3> DEFINE low == floor - ScanChunk
    <3>1. low \in Int /\ low <= to /\ 0 \in Int /\ 0 <= to
        BY <1>1, <2>2, DetailAssumption
    <3> HIDE DEF low
    <3>2. Max({0, low}) \in {0, low} /\ 0 <= Max({0, low})
        BY <3>1, OfTwo
    <3>3. from \in Nat /\ from <= to
      <4>1. Max({0, low}) \in Nat /\ Max({0, low}) <= to
        <5> HIDE DEF to
        <5> QED
            BY <3>1, <3>2
      <4> QED
          BY <4>1 DEF low
    <3> QED
        BY <1>1, <1>2, <2>2, <3>3
  <2>4. errand' = [pc |-> "olderRead", at |-> view.cursor, from |-> from, to |-> to,
                   mark |-> At(from), same |-> TRUE, logs |-> logs]
      BY <1>5 DEF Chunk, floor
  <2> HIDE DEF from, to
  <2>5. Shapes(view.cursor, from, to) = logs
    <3>1. to \in Int
        BY <2>3
    <3> QED
        BY <1>2, <2>1, <2>3, <3>1, BranchOn
  <2>6. logs \subseteq Hashes
      BY <2>1, <2>3, BranchHashes
  <2> HIDE DEF logs
  <2>7. On(view.cursor, view.cursor)
      BY <1>2, OnItself
  <2>8. ErrandOK'
    <3>1. Seen(errand.at)'
        BY <1>1, <1>2, <2>4 DEF Seen, Canonical, At
    <3> QED
        BY <1>1, <1>5, <2>2, <2>3, <2>4, <2>5, <2>6, <2>7, <3>1 DEF ErrandOK
  <2> QED
      BY <1>1, <1>5, <2>8, ErrandInv
<1> QED
    BY <1>1, <1>3, <1>4, <1>5

LEMMA OlderSkippedInv ==
    ASSUME DetailInv, OlderSkipped
    PROVE  DetailInv'
<1>1. /\ UNCHANGED <<chain, forks, kind, feed, poll, torn>> /\ errand' = RestingJob
      /\ view' = IF Scans THEN [view EXCEPT !.complete = TRUE] ELSE view
    BY DEF OlderSkipped, envVars
<1>2. CASE Scans
  <2>1. view' = [view EXCEPT !.complete = TRUE] /\ poll.pc = "rest" /\ DOMAIN view = Fields
        /\ (~view.needsSeed => Follows(view))
      BY <1>1, <1>2 DEF Scans, Unlocked, DetailInv, ViewOK
  <2>2. /\ Alike(view, view') /\ view'.swaps = view.swaps /\ view'.lp = view.lp
        /\ view'.start = view.start /\ view'.through = view.through /\ view'.floor = view.floor
        /\ view'.dirty = view.dirty /\ view'.verified = view.verified
      BY <2>1 DEF Alike, Fields
  <2>3. Follows(view) => Follows(view')
      BY <2>2 DEF Follows, HasEvents, HasCurve, Alike
  <2> QED
      BY <1>1, <2>1, <2>2, <2>3, MaintainedInv
<1>3. CASE ~Scans
  <2>1. view' = view /\ ErrandOK' /\ ~errand'.same
      BY <1>1, <1>3, RestingErrand DEF RestingJob
  <2> QED
      BY <1>1, <2>1, ErrandInv
<1> QED
    BY <1>2, <1>3

\* A chunk that ends where the older events begin continues them.
LEMMA OlderEvents ==
    ASSUME NEW v, NEW w, Follows(v), Alike(v, w), NEW at \in Hashes, On(at, v.cursor),
           NEW from \in Nat, NEW to \in Nat, from <= to, to <= Len(at), v.floor = to + 1,
           NEW logs, Shapes(at, from, to) \subseteq logs,
           w.lp = v.lp \cup LpEvents(logs), w.floor = from, w.swaps = v.swaps,
           w.start = v.start, w.through = v.through, w.dirty = v.dirty, w.verified = v.verified
    PROVE  Follows(w)
<1>1. /\ v.cursor \in Hashes /\ w.cursor = v.cursor /\ w.base = v.base /\ w.state = v.state
      /\ HasEvents(v) /\ HasCurve(v) /\ Len(v.cursor) \in Nat /\ Len(at) \in Nat
      /\ Len(at) <= Len(v.cursor)
    BY HashLength DEF Follows, Alike, On
<1>2. HasCurve(w)
    BY <1>1 DEF HasCurve
<1>3. Shapes(v.cursor, from, to) \subseteq LpEvents(logs)
  <2>1. to \in Int
      OBVIOUS
  <2>2. Shapes(at, from, to) = Shapes(v.cursor, from, to)
      BY <1>1, <2>1, BranchOn
  <2> QED
      BY <2>2 DEF Shapes, LpEvents
<1>4. v.base \in Nat /\ v.base <= Len(v.cursor) + 1 /\ from <= Len(v.cursor) + 1
    BY <1>1 DEF HasEvents
<1>5. \A n \in from..(v.base - 1) : n \in v.floor..(v.base - 1) \/ n \in from..to
    BY <1>4
<1>6. Shapes(v.cursor, from, v.base - 1) \subseteq
          Shapes(v.cursor, v.floor, v.base - 1) \cup Shapes(v.cursor, from, to)
    BY <1>5 DEF Shapes, Branch
<1>7. HasEvents(w)
    BY <1>1, <1>3, <1>4, <1>6 DEF HasEvents
<1> QED
    BY <1>1, <1>2, <1>7 DEF Follows

LEMMA OlderCommitInv ==
    ASSUME DetailInv, OlderCommit
    PROVE  DetailInv'
<1> DEFINE read == {errand.at, errand.mark}
           l == [WithLp(view, LpEvents(errand.logs)) EXCEPT
                    !.floor = errand.from, !.frontier = errand.mark,
                    !.complete = (errand.from = 0)]
           w == Remembered(l, errand.logs)
<1>1. /\ UNCHANGED <<chain, forks, kind, feed, poll, torn>>
      /\ errand.pc = "olderRead" /\ poll.pc = "rest" /\ errand' = RestingJob
      /\ view' = IF \E b \in read : Orphaned(b) THEN Invalidated(view)
                 ELSE IF ~Stands \/ view.floor # errand.to + 1 \/ \E b \in read : ~Canonical(b)
                 THEN view ELSE w
    BY DEF OlderCommit, Unlocked, envVars
<1>2. CASE view' = Invalidated(view)
    BY <1>1, <1>2, InvalidatedInv
<1>3. CASE view' = view
  <2>1. ErrandOK' /\ ~errand'.same
      BY <1>1, RestingErrand DEF RestingJob
  <2> QED
      BY <1>1, <1>3, <2>1, ErrandInv
<1>4. CASE Stands /\ view.floor = errand.to + 1 /\ view' = w
  <2>1. /\ ~view.needsSeed /\ DOMAIN view = Fields /\ Follows(view)
      BY <1>4 DEF Stands, DetailInv, ViewOK
  <2>2. /\ errand.at \in Hashes /\ On(errand.at, view.cursor)
        /\ errand.from \in Nat /\ errand.to \in Nat /\ errand.from <= errand.to
        /\ errand.to <= Len(errand.at)
        /\ Shapes(errand.at, errand.from, errand.to) \subseteq errand.logs
      BY <1>1, <1>4, <2>1 DEF Stands, DetailInv, ErrandOK, Seen
  <2>3. /\ Alike(view, l) /\ l.swaps = view.swaps /\ l.lp = view.lp \cup LpEvents(errand.logs)
        /\ l.start = view.start /\ l.through = view.through /\ l.floor = errand.from
        /\ l.dirty = view.dirty /\ l.verified = view.verified /\ DOMAIN l = Fields
      BY <2>1 DEF WithLp, Alike, Fields
  <2> HIDE DEF l
  <2>4. /\ Alike(view, w) /\ w.swaps = view.swaps /\ w.lp = view.lp \cup LpEvents(errand.logs)
        /\ w.start = view.start /\ w.through = view.through /\ w.floor = errand.from
        /\ w.dirty = view.dirty /\ w.verified = view.verified
      BY <2>3, RememberedIs DEF Alike
  <2> HIDE DEF w
  <2>5. Follows(w)
      BY <1>4, <2>1, <2>2, <2>4, OlderEvents
  <2> QED
      BY <1>1, <1>4, <2>4, <2>5, MaintainedInv
<1> QED
    BY <1>1, <1>2, <1>3, <1>4

-----------------------------------------------------------------------------
(* The invariant holds throughout.                                         *)

LEMMA InitHolds ==
    ASSUME ChainInit, DetailInit
    PROVE  DetailInv
<1>1. ChainOK
  <2>1. chain = [n \in 1..StartHeight |-> 0] /\ forks = 0
      BY DEF ChainInit
  <2>2. StartHeight \in Nat /\ StartHeight <= MaxHeight /\ MaxForks \in Nat
      BY ChainAssumption
  <2>3. chain \in Seq(0..MaxForks) /\ Len(chain) = StartHeight
      BY <2>1, <2>2
  <2>4. chain \in Hashes
      BY <2>2, <2>3, SeqIsHash
  <2> QED
      BY <2>1, <2>2, <2>3, <2>4 DEF ChainOK
<1>2. FeedOK
    BY DetailAssumption DEF DetailInit, FeedOK
<1>3. ViewOK
    BY DEF DetailInit, ViewOK, FreshView, Fields
<1>4. PollOK
    BY DEF DetailInit, PollOK, FreshView, RestingPoll
<1>5. ErrandOK
    BY DEF DetailInit, ErrandOK, RestingJob
<1> QED
    BY <1>1, <1>2, <1>3, <1>4, <1>5 DEF DetailInv

LEMMA StutterInv ==
    ASSUME DetailInv, UNCHANGED <<chainVars, detailVars>>
    PROVE  DetailInv'
<1>1. UNCHANGED <<chain, forks, kind, feed, view, poll, errand, torn>>
    BY DEF chainVars, detailVars
<1>2. ViewOK'
    BY <1>1 DEF DetailInv, ViewOK, Follows, HasEvents, HasCurve, Seen, Canonical, At
<1>3. PollOK'
    BY <1>1, PollSame
<1>4. ErrandOK'
    BY <1>1 DEF DetailInv, ErrandOK, Seen, Canonical, At
<1> QED
    BY <1>1, <1>2, <1>3, <1>4, FeedSame, SeenStill DEF DetailInv

LEMMA DetailStep ==
    ASSUME DetailInv, [DetailNext]_<<chainVars, detailVars>>
    PROVE  DetailInv'
<1>1. CASE ChainMoves
    BY <1>1, ChainMovesInv
<1>2. CASE Feed
    BY <1>2, ObserveBlockInv, ObserveEventsInv DEF Feed
<1>3. CASE Poll
    BY <1>3, SeedReadInv, AdvanceReadInv, HeadBrokenInv, SupersededInv, RevisitInv, ConfirmInv
    DEF Poll
<1>4. CASE Maintain
    BY <1>4, RecentReadInv, RecentCommitInv, RefreshSkippedInv, OlderReadInv, OlderSkippedInv,
       OlderCommitInv DEF Maintain
<1>5. CASE Fails
    BY <1>5, JobFailsInv, PollFailsInv DEF Fails
<1>6. CASE UNCHANGED <<chainVars, detailVars>>
    BY <1>6, StutterInv
<1> QED
    BY <1>1, <1>2, <1>3, <1>4, <1>5, <1>6 DEF DetailNext

LEMMA EventsGood ==
    ASSUME DetailInv
    PROVE  EventsCovered
BY DEF DetailInv, ViewOK, Follows, HasEvents, EventsCovered, Shown, Following

LEMMA CurveGood ==
    ASSUME DetailInv
    PROVE  CurveExact
<1> SUFFICES ASSUME ~torn, Shown, Concentrated, CurveComplete(view), NEW w \in DOMAIN view.net
             PROVE  SameCurve(view.net[w], view.cursor)
    BY DEF CurveExact, CurvePinned
<1>1. Follows(view) /\ poll.pc = "rest" /\ ~view.needsSeed
    BY DEF Shown, Following, Unlocked, DetailInv, ViewOK
<1>2. SameCurve(view.net[w], view.state)
    BY <1>1 DEF DetailInv, PollOK, Loading, Words
<1>3. /\ view.state \in Hashes /\ view.cursor \in Hashes /\ On(view.state, view.cursor)
      /\ view.verified \in Int /\ view.verified <= Len(view.cursor) /\ Len(view.cursor) \in Nat
      /\ Shapes(view.cursor, Len(view.state) + 1, view.verified) = {}
    BY <1>1, HashLength DEF Follows, HasCurve
<1>4. view.verified = Len(view.cursor)
    BY <1>3 DEF CurveComplete
<1>5. SameCurve(view.state, view.cursor)
    BY <1>3, <1>4, SameShape
<1> QED
    BY <1>2, <1>5 DEF SameCurve

LEMMA DetailInvariant == DetailSpec => []DetailInv
<1>1. ChainInit /\ DetailInit => DetailInv
    BY InitHolds
<1>2. DetailInv /\ [DetailNext]_<<chainVars, detailVars>> => DetailInv'
    BY DetailStep
<1> QED
    BY <1>1, <1>2, PTL DEF DetailSpec

\* A pool that is shown has every swap of its chain in the interval it calls
\* covered and, for a V3 pool, every lifecycle event of that interval and of the
\* older one it scanned below its seed (_load_recent_history and
\* _scan_older_positions in workbench_market.py): no interval is joined to another
\* across a gap, and no log of an orphaned block stands in for one that is missing.
THEOREM EventsAlwaysCovered == DetailSpec => []EventsCovered
<1>1. DetailInv => EventsCovered
    BY EventsGood
<1> QED
    BY <1>1, DetailInvariant, PTL

\* A depth curve that is shown as complete is, word by word, the curve of the shown
\* block (_load_curve_state and _snapshot in workbench_market.py), whichever of its
\* words were read at earlier blocks, unless a request failed between a curve's
\* reads and its confirmation.
THEOREM CurveAlwaysExact == DetailSpec => []CurveExact
<1>1. DetailInv => CurveExact
    BY CurveGood
<1> QED
    BY <1>1, DetailInvariant, PTL
=============================================================================
