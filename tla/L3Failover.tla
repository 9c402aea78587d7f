----------------------------- MODULE L3Failover ------------------------------
(***************************************************************************)
(* The failure of an L3 server: the L2 tails remove the connections to its *)
(* host, which moves labels between the servers that are left, and send    *)
(* the requests that were pending there again, with the duplicate check    *)
(* switched off.  Only the server that failed is gone; the NumCores - 1    *)
(* others of its host go on with what they have.                           *)
(*                                                                         *)
(* One worker of an L2 column, the L3 servers it sends to, and the L1 tail *)
(* whose security batches the requests belong to.  L3 servers are not      *)
(* replicated; StoragePath has the details of what one does with a request.*)
(***************************************************************************)
EXTENDS Integers, Sequences, FiniteSets, Functions

CONSTANTS NumServers,   \* number of L3 columns, one server each
          NumCores,     \* L3_NUM_CORES: the servers that run on one host
          Labels,
          MaxRequests,  \* bound on the number of requests
          BatchSize,    \* security_batch_size_: requests per security batch
          ServerFails   \* TRUE: one of the servers may fail

ASSUME FailoverAssumption ==
    /\ NumCores \in Nat \ {0} /\ NumServers \in Nat /\ NumServers > NumCores
    /\ Labels # {} /\ MaxRequests \in Nat
    /\ BatchSize \in Nat \ {0} /\ ServerFails \in BOOLEAN

Servers  == 1..NumServers
Requests == 1..MaxRequests
Batches  == 0..((MaxRequests - 1) \div BatchSize)
Left     == NumServers - NumCores   \* columns that are left after a failure
L3Op     == [n : Requests, dedup : BOOLEAN]

(***************************************************************************)
(* batch_seq_no = l1_seq_no / security_batch_size_                         *)
(***************************************************************************)
BatchOf(n) == (n - 1) \div BatchSize

VARIABLES
    label,           \* the label of a request
    home,            \* consistent_hash(label, n), for n = NumServers and Left
    pending_count_,  \* L1: acks a batch still waits for
    batchAcked,      \* L1, history: the batches that were acked
    l1acks,          \* acks in flight from L2 to L1
    chain_seq_no_,   \* L2
    pending_,        \* L2
    clients_,        \* L2: l3proxy_interface::clients_
    conn,            \* l3requests in flight to a server
    last_seen_seq_,  \* L3, for this L2 worker
    work,            \* L3: the requests a server has accepted
    puts,            \* L3: those whose PUT is done and whose callback has still to run
    respond_queue_,  \* L3
    acks,            \* external_acks in flight from a server to L2
    stored,          \* history: the requests whose PUT the KV store has executed
    answered,        \* history: the requests whose client got the response
    alive, failed, mgr

l1Vars  == <<pending_count_, batchAcked>>
l2Vars  == <<chain_seq_no_, pending_, clients_>>
l3Vars  == <<last_seen_seq_, work, puts, respond_queue_, stored, answered>>
mgrVars == <<alive, failed, mgr>>
fixed   == <<label, home>>
vars    == <<fixed, l1Vars, l2Vars, l3Vars, l1acks, conn, acks, mgrVars>>

(***************************************************************************)
(* JumpConsistentHash: with fewer buckets, only the labels of the buckets  *)
(* that are gone move.                                                     *)
(***************************************************************************)
JumpConsistentHash ==
    {h \in [Labels -> [{Left, NumServers} -> Servers]] :
        \A l \in Labels :
            /\ h[l][Left] <= Left
            /\ h[l][NumServers] <= Left => h[l][Left] = h[l][NumServers]}

Init ==
    /\ label \in [Requests -> Labels]
    /\ home \in JumpConsistentHash
    /\ pending_count_ = [b \in Batches |-> BatchSize]
    /\ batchAcked = {}
    /\ l1acks = <<>>
    /\ chain_seq_no_ = 0
    /\ pending_ = {}
    /\ clients_ = [i \in Servers |-> i]
    /\ conn = [s \in Servers |-> <<>>]
    /\ last_seen_seq_ = [s \in Servers |-> -1]
    /\ work = [s \in Servers |-> <<>>]
    /\ puts = [s \in Servers |-> <<>>]
    /\ respond_queue_ = [s \in Servers |-> <<>>]
    /\ acks = [s \in Servers |-> <<>>]
    /\ stored = {}
    /\ answered = {}
    /\ alive = Servers
    /\ failed = {}
    /\ mgr = "idle"

-----------------------------------------------------------------------------
(***************************************************************************)
(* The L2 tail                                                             *)
(***************************************************************************)

(***************************************************************************)
(* send_op picks the server by the hash of the label over the connections  *)
(* that are left.                                                          *)
(***************************************************************************)
Server(n) == clients_[home[label[n]][Len(clients_)]]

(***************************************************************************)
(* The requests of S are sent one after the other, in an order that is the *)
(* hash table's; each connection keeps the order of those that go over it. *)
(***************************************************************************)
Orders(S) == {q \in [1..Cardinality(S) -> S] : IsInjective(q)}

Sendings(S) == {q \in [Servers -> UNION {Orders(T) : T \in SUBSET S}] :
                   \A s \in Servers : q[s] \in Orders({n \in S : Server(n) = s})}

(***************************************************************************)
(* forward_request for every request of S; what is written to a server     *)
(* that is gone is lost.                                                   *)
(***************************************************************************)
ForwardRequests(S, dedup) ==
    \E q \in Sendings(S) :
        conn' = [s \in Servers |->
            IF s \notin alive THEN conn[s]
            ELSE conn[s] \o [i \in DOMAIN q[s] |-> [n |-> q[s][i], dedup |-> dedup]]]

(***************************************************************************)
(* A command reaches the tail: chain_request and replication_complete.     *)
(***************************************************************************)
ChainRequest ==
    /\ chain_seq_no_ < MaxRequests
    /\ chain_seq_no_' = chain_seq_no_ + 1
    /\ pending_' = pending_ \cup {chain_seq_no_ + 1}
    /\ ForwardRequests({chain_seq_no_ + 1}, TRUE)
    /\ UNCHANGED <<fixed, l1Vars, l1acks, clients_, l3Vars, acks, mgrVars>>

(***************************************************************************)
(* external_ack at the L2 tail: the request is no longer pending, and the  *)
(* ack goes on to L1 whether it was pending or not.                        *)
(***************************************************************************)

\* Mutant of L2ExternalAck: an ack is taken to cover the earlier requests, too.
L2ExternalAck_Cumulative(s) ==
    /\ acks[s] # <<>>
    /\ acks' = [acks EXCEPT ![s] = Tail(@)]
    /\ pending_' = {n \in pending_ : n > Head(acks[s])}
    /\ l1acks' = Append(l1acks, Head(acks[s]))
    /\ UNCHANGED <<fixed, l1Vars, chain_seq_no_, clients_, conn, l3Vars, mgrVars>>

L2ExternalAck(s) ==
    /\ acks[s] # <<>>
    /\ acks' = [acks EXCEPT ![s] = Tail(@)]
    /\ pending_' = pending_ \ {Head(acks[s])}
    /\ l1acks' = Append(l1acks, Head(acks[s]))
    /\ UNCHANGED <<fixed, l1Vars, chain_seq_no_, clients_, conn, l3Vars, mgrVars>>

(***************************************************************************)
(* external_ack at the L1 tail: pending_count_ has no entry for a batch    *)
(* once it was acked.                                                      *)
(***************************************************************************)
L1ExternalAck ==
    LET b == BatchOf(Head(l1acks))
    IN  /\ l1acks # <<>>
        /\ l1acks' = Tail(l1acks)
        /\ pending_count_' = [pending_count_ EXCEPT ![b] = IF @ > 0 THEN @ - 1 ELSE @]
        /\ batchAcked' = IF pending_count_[b] = 1 THEN batchAcked \cup {b} ELSE batchAcked
        /\ UNCHANGED <<fixed, l2Vars, conn, l3Vars, acks, mgrVars>>

-----------------------------------------------------------------------------
(***************************************************************************)
(* An L3 server                                                            *)
(***************************************************************************)

IsDuplicate(s, op) == op.dedup /\ op.n <= last_seen_seq_[s]

AsyncOperation(s) ==
    LET op == Head(conn[s])
    IN  /\ s \in alive
        /\ conn[s] # <<>>
        /\ conn' = [conn EXCEPT ![s] = Tail(@)]
        /\ IF IsDuplicate(s, op)
           THEN UNCHANGED <<last_seen_seq_, work>>
           ELSE /\ last_seen_seq_' = [last_seen_seq_ EXCEPT ![s] = IF @ < op.n THEN op.n ELSE @]
                /\ work' = [work EXCEPT ![s] = Append(@, op.n)]
        /\ UNCHANGED <<fixed, l1Vars, l1acks, l2Vars, puts, respond_queue_, stored, answered,
                       acks, mgrVars>>

(***************************************************************************)
(* The KV store executes the GET and the PUT of the next request of s.     *)
(***************************************************************************)
KvPut(s) ==
    /\ s \in alive
    /\ work[s] # <<>>
    /\ work' = [work EXCEPT ![s] = Tail(@)]
    /\ puts' = [puts EXCEPT ![s] = Append(@, Head(work[s]))]
    /\ stored' = stored \cup {Head(work[s])}
    /\ UNCHANGED <<fixed, l1Vars, l1acks, l2Vars, conn, last_seen_seq_, respond_queue_,
                   answered, acks, mgrVars>>

(***************************************************************************)
(* put_cb: the response is queued for the responder thread and the ack is  *)
(* sent.                                                                   *)
(***************************************************************************)
PutCallback(s) ==
    /\ s \in alive
    /\ puts[s] # <<>>
    /\ puts' = [puts EXCEPT ![s] = Tail(@)]
    /\ respond_queue_' = [respond_queue_ EXCEPT ![s] = Append(@, Head(puts[s]))]
    /\ acks' = [acks EXCEPT ![s] = Append(@, Head(puts[s]))]
    /\ UNCHANGED <<fixed, l1Vars, l1acks, l2Vars, conn, last_seen_seq_, work, stored,
                   answered, mgrVars>>

ResponderThread(s) ==
    /\ s \in alive
    /\ respond_queue_[s] # <<>>
    /\ respond_queue_' = [respond_queue_ EXCEPT ![s] = Tail(@)]
    /\ answered' = answered \cup {Head(respond_queue_[s])}
    /\ UNCHANGED <<fixed, l1Vars, l1acks, l2Vars, conn, last_seen_seq_, work, puts, stored,
                   acks, mgrVars>>

-----------------------------------------------------------------------------
(***************************************************************************)
(* proxy_manager::fail_node, the L3 branch.  Erasing NumCores columns from *)
(* f on is only defined if there are as many.                              *)
(***************************************************************************)
FailNode(f) ==
    /\ ServerFails
    /\ f + NumCores - 1 <= NumServers
    /\ failed = {}
    /\ failed' = {f}
    /\ mgr' = "update_connections"
    /\ UNCHANGED <<fixed, l1Vars, l1acks, l2Vars, conn, l3Vars, acks, alive>>

(***************************************************************************)
(* The kill message reaches f.  What it has read is lost; of the acks it   *)
(* has sent, some still arrive.                                            *)
(***************************************************************************)
Crash(f) ==
    /\ f \in failed \cap alive
    /\ alive' = alive \ {f}
    /\ conn' = [conn EXCEPT ![f] = <<>>]
    /\ work' = [work EXCEPT ![f] = <<>>]
    /\ puts' = [puts EXCEPT ![f] = <<>>]
    /\ respond_queue_' = [respond_queue_ EXCEPT ![f] = <<>>]
    /\ \E k \in 0..Len(acks[f]) : acks' = [acks EXCEPT ![f] = SubSeq(@, 1, k)]
    /\ UNCHANGED <<fixed, l1Vars, l1acks, l2Vars, last_seen_seq_, stored, answered, failed,
                   mgr>>

(***************************************************************************)
(* remove_connection erases NumCores columns, the failed server's first,   *)
(* and the columns behind them move up.                                    *)
(***************************************************************************)

\* Mutant of RemoveConnection: the end of the range that is erased is off by one.
RemoveConnection_OffByOne(f) ==
    SubSeq(clients_, 1, f - 1) \o SubSeq(clients_, f + NumCores + 1, Len(clients_))

RemoveConnection(f) ==
    SubSeq(clients_, 1, f - 1) \o SubSeq(clients_, f + NumCores, Len(clients_))

UpdateConnections ==
    /\ mgr = "update_connections"
    /\ \E f \in failed : clients_' = RemoveConnection(f)
    /\ mgr' = "selective_resend_pending"
    /\ UNCHANGED <<fixed, l1Vars, l1acks, chain_seq_no_, pending_, conn, l3Vars, acks, alive,
                   failed>>

(***************************************************************************)
(* filter_request: the label hashed to one of the columns that are gone,   *)
(* over the number of columns there were before.                           *)
(***************************************************************************)
Removed(f) == f..(f + NumCores - 1)

\* Mutant of FilterRequest: the hash over the columns that are left is used.
FilterRequest_NewColumns(n) == \E f \in failed : home[label[n]][Len(clients_)] \in Removed(f)

FilterRequest(n) == \E f \in failed : home[label[n]][NumServers] \in Removed(f)

SelectiveResendPending ==
    /\ mgr = "selective_resend_pending"
    /\ ForwardRequests({n \in pending_ : FilterRequest(n)}, FALSE)
    /\ mgr' = "idle"
    /\ UNCHANGED <<fixed, l1Vars, l1acks, l2Vars, l3Vars, acks, alive, failed>>

-----------------------------------------------------------------------------
Next ==
    \/ ChainRequest \/ L1ExternalAck
    \/ \E s \in Servers :
          \/ L2ExternalAck(s) \/ AsyncOperation(s) \/ KvPut(s)
          \/ PutCallback(s) \/ ResponderThread(s)
          \/ FailNode(s) \/ Crash(s)
    \/ UpdateConnections \/ SelectiveResendPending

Spec == Init /\ [][Next]_vars

(***************************************************************************)
(* Every thread that runs makes progress, the network delivers, and the    *)
(* manager completes the repair it has begun.                              *)
(***************************************************************************)
Fairness ==
    /\ WF_vars(L1ExternalAck) /\ WF_vars(UpdateConnections) /\ WF_vars(SelectiveResendPending)
    /\ \A s \in Servers :
          /\ WF_vars(L2ExternalAck(s)) /\ WF_vars(AsyncOperation(s)) /\ WF_vars(KvPut(s))
          /\ WF_vars(PutCallback(s)) /\ WF_vars(ResponderThread(s)) /\ WF_vars(Crash(s))

FairSpec == Spec /\ Fairness

-----------------------------------------------------------------------------
(***************************************************************************)
(* Properties                                                              *)
(***************************************************************************)

(***************************************************************************)
(* Every variable has its type: messages are about requests, and the       *)
(* connections of the L2 tail lead to distinct servers.                    *)
(***************************************************************************)
TypeOK ==
    /\ pending_count_ \in [Batches -> 0..BatchSize] /\ batchAcked \in SUBSET Batches
    /\ chain_seq_no_ \in 0..MaxRequests /\ pending_ \in SUBSET Requests
    /\ Range(clients_) \subseteq Servers /\ IsInjective(clients_)
    /\ Len(clients_) \in {Left, NumServers}
    /\ \A s \in Servers : /\ Range(conn[s]) \subseteq L3Op
                          /\ \A q \in {work[s], puts[s], respond_queue_[s], acks[s], l1acks} :
                                Range(q) \subseteq Requests
    /\ last_seen_seq_ \in [Servers -> Requests \cup {-1}]
    /\ stored \in SUBSET Requests /\ answered \in SUBSET Requests
    /\ alive \in SUBSET Servers /\ failed \in SUBSET Servers
    /\ mgr \in {"idle", "update_connections", "selective_resend_pending"}

(***************************************************************************)
(* What an L2 tail no longer keeps pending, and so can never send again,   *)
(* is in the KV store, whichever server executed it and whichever failed.  *)
(***************************************************************************)
ForgottenIsStored == (1..chain_seq_no_) \ pending_ \subseteq stored

(***************************************************************************)
(* The failure of a server loses no request: whatever the L2 tail accepted *)
(* before, during or after the repair reaches the KV store.                *)
(***************************************************************************)
EveryRequestStored == \A n \in Requests : chain_seq_no_ >= n ~> n \in stored

(***************************************************************************)
(* "Acks for all requests in batch received" (l1_proxy::external_ack):     *)
(* when L1 acks a batch, each of its requests is in the KV store.          *)
(***************************************************************************)
AckedBatchStored ==
    \A n \in Requests : BatchOf(n) \in batchAcked => n \in stored

(***************************************************************************)
(* Every request the L2 tail accepts is answered to its client.            *)
(***************************************************************************)
EveryClientAnswered == \A n \in Requests : chain_seq_no_ >= n ~> n \in answered
==============================================================================
