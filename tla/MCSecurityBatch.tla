--------------------------- MODULE MCSecurityBatch ---------------------------
(***************************************************************************)
(* Instances of SecurityBatch for TLC.                                     *)
(***************************************************************************)
EXTENDS SecurityBatch
==============================================================================
