----------------------------- MODULE MCChainIndex -----------------------------
(***************************************************************************)
(* Small chains for the index.  Every fork has a block with logs, so that  *)
(* an event of an abandoned branch can be stored; heights one and two      *)
(* carry logs on one side of a reorganisation and not on the other.        *)
(***************************************************************************)
EXTENDS ChainIndex

MCLogBlocks ==
    { p \in (0..MaxForks) \X (1..MaxHeight) :
         p \in {<<0,1>>, <<0,3>>, <<1,2>>, <<1,4>>, <<2,1>>, <<2,2>>, <<2,4>>} }

\* The lanes between two restarts: the progress of the live lane is asked of
\* them once the chain has settled.
SteadyNext == IndexNext /\ UNCHANGED crashes

SteadySpec == IndexInit /\ [][SteadyNext]_vars /\ IndexFairness
=============================================================================
