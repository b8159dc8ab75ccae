---------------------------- MODULE MCPoolDetail ----------------------------
(***************************************************************************)
(* A selected pool on small chains: the first fork swaps at height three   *)
(* and the second changes the curve there, so the viewport moves and a     *)
(* replaced block had another curve.                                       *)
(***************************************************************************)
EXTENDS PoolDetail

MCSwapBlocks == {<<0, 3>>, <<1, 4>>} \cap ((0..MaxForks) \X (1..MaxHeight))
MCShapeBlocks == {<<0, 1>>, <<0, 3>>, <<1, 3>>} \cap ((0..MaxForks) \X (1..MaxHeight))
=============================================================================
