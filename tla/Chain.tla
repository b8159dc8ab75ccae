-------------------------------- MODULE Chain --------------------------------
(***************************************************************************)
(* The chain as its JSON-RPC providers show it: an environment, not code   *)
(* of this repository.  A block is identified by the path from genesis to  *)
(* it, written as the fork each block on the path was first mined on: the  *)
(* genesis hash is <<>>, the number of a hash is its length and its parent *)
(* is its front.  A reorganisation replaces a suffix by a branch never     *)
(* seen before: the providers do not return to a branch they left.         *)
(***************************************************************************)
EXTENDS Integers, Sequences, SequencesExt

CONSTANTS
    MaxHeight,      \* bound: no block above this number is mined
    MaxForks,       \* bound: number of reorganisations
    MaxReorgHeight, \* bound: height up to which the chain reorganises
    StartHeight,    \* height of the chain when the index first starts
    LogBlocks       \* the <<fork, number>> of the blocks with indexed logs

ASSUME ChainAssumption ==
    /\ MaxHeight \in Nat
    /\ MaxForks \in Nat
    /\ MaxReorgHeight \in 0..MaxHeight
    /\ StartHeight \in 0..MaxHeight
    /\ LogBlocks \subseteq (0..MaxForks) \X (1..MaxHeight)

VARIABLES
    chain,          \* the canonical chain: the hash of its head
    forks           \* reorganisations so far

chainVars == <<chain, forks>>

Hashes == BoundedSeq(0..MaxForks, MaxHeight)

HashNumber(h) == Len(h)
HashParent(h) == IF h = <<>> THEN h ELSE Front(h)

HasLogs(h) == h # <<>> /\ <<Last(h), Len(h)>> \in LogBlocks

\* eth_getBlockByNumber, for a number up to the head.
Ancestor(h, n) == SubSeq(h, 1, n)
At(n) == Ancestor(chain, n)
Canonical(h) == Len(h) <= Len(chain) /\ h = At(Len(h))

\* The highest block up to number n on both the canonical chain and the branch
\* of h: where eth_getBlockByHash and parentHash lead from an orphan.
CommonAncestor(h, n) ==
    At(CHOOSE k \in 0..n :
          /\ k <= Len(h) /\ Ancestor(h, k) = At(k)
          /\ \A j \in (k+1)..n : j > Len(h) \/ Ancestor(h, j) # At(j))

ChainInit ==
    /\ chain = [n \in 1..StartHeight |-> 0]
    /\ forks = 0

Mine ==
    /\ Len(chain) < MaxHeight
    /\ chain' = Append(chain, forks)
    /\ UNCHANGED forks

Reorganise ==
    /\ forks < MaxForks
    /\ Len(chain) <= MaxReorgHeight
    /\ \E k \in 0..(Len(chain) - 1) : chain' = Append(At(k), forks + 1)
    /\ forks' = forks + 1
=============================================================================
