---------------------------- MODULE MCChainModule ----------------------------
(***************************************************************************)
(* Instances of ChainModule for TLC.                                       *)
(***************************************************************************)
EXTENDS ChainModule, TLC

CommandSymmetry == Permutations(Ops)
=============================================================================
