---------------------------- MODULE MCL3Failover -----------------------------
(***************************************************************************)
(* Instances of L3Failover for TLC.                                        *)
(***************************************************************************)
EXTENDS L3Failover

CONSTANTS l1, l2
==============================================================================
