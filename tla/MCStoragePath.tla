---------------------------- MODULE MCStoragePath ----------------------------
(***************************************************************************)
(* One key with two replicas, each served by its own L2 worker; either two *)
(* servers that take requests one by one, or one that takes them in twos.  *)
(***************************************************************************)
EXTENDS StoragePath, TLC

CONSTANTS k1, w1, w2, s1, s2

OneWorkerPerReplica == (<<k1, 0>> :> w1) @@ (<<k1, 1>> :> w2)
MCConfigs == {
    [StorageBatchSize |-> 1, AckBatchSize |-> 1, Sent |-> Puts \cup Gets,
     ServerOf |-> (<<k1, 0>> :> s1) @@ (<<k1, 1>> :> s2)],
    [StorageBatchSize |-> 2, AckBatchSize |-> 2, Sent |-> Requests,
     ServerOf |-> (<<k1, 0>> :> s1) @@ (<<k1, 1>> :> s1)] }
==============================================================================
