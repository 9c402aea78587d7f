----------------------------- MODULE Forwarding ------------------------------
(***************************************************************************)
(* The hop from the tail of a chain to the workers of the next layer, and  *)
(* what becomes of the requests under way when the tail or one of the      *)
(* workers fails.  It is the hop from L1 to L2 (a command of the chain is  *)
(* a security batch of BatchSize requests, each sent to the head of an L2  *)
(* column) and, with BatchSize 1, the hop from L2 to L3.                   *)
(*                                                                         *)
(* The sending chain has two replicas, 1 and 2; ChainModule has the        *)
(* details of its replication.  A receiver stands for an L2 column and     *)
(* worker: its head, and the successor that replaces the head.             *)
(*                                                                         *)
(* send_op of L1 hashes a key to its column, but draws a column for the    *)
(* dummy key whenever it sends it: the requests of the dummy key have no   *)
(* receiver of their own, and go to another one when they are sent again.  *)
(***************************************************************************)
EXTENDS Integers, Sequences, FiniteSets, Functions

CONSTANTS BatchSize,      \* security_batch_size_; 1 for the hop from L2 to L3
          MaxCommands,    \* bound on the number of commands
          Receivers,
          Any,            \* the route of a request for the dummy key
          Routes,         \* the routes considered: which requests go where
          SenderFails,    \* TRUE: replica 2 of the sending chain may fail
          ReceiverFails,  \* TRUE: the head of a receiver may fail
          QuietRepair     \* TRUE: no command reaches a tail while the manager repairs

ASSUME ForwardingAssumption ==
    /\ BatchSize \in Nat \ {0} /\ MaxCommands \in Nat
    /\ IsFiniteSet(Receivers) /\ Receivers # {}
    /\ 2 \notin Receivers  \* failed holds replica 2 or a receiver
    /\ Any \notin Receivers
    /\ SenderFails \in BOOLEAN /\ ReceiverFails \in BOOLEAN /\ QuietRepair \in BOOLEAN

Replicas == {1, 2}
Commands == 1..MaxCommands

(***************************************************************************)
(* l1_seq_no (l2_seq_no): BatchSize * server_seq_no + i.                   *)
(***************************************************************************)
Requests == BatchSize..(BatchSize * MaxCommands + BatchSize - 1)
Command(x) == x \div BatchSize

ASSUME RoutesAssumption == Routes \subseteq [Requests -> Receivers \cup {Any}]

VARIABLES
    route,           \* the receiver the key and replica of a request hash to, or Any
    alive, role1,    \* the running replicas; the role of replica 1
    chain_seq_no_,   \* of every replica
    pending_,        \* of every replica
    pending_count_,  \* of every replica: the acks a pending command still waits for
    chain,           \* commands on their way from replica 1 to replica 2
    chainAcks,       \* chain_acks on their way from replica 2 to replica 1
    out,             \* per replica and receiver: requests in flight
    connected,       \* the receivers whose running head the senders are connected to
    last_seen_seq_,  \* per receiver, at its head
    ran,             \* per receiver: the requests its head has run
    copied,          \* per receiver: those its successor has run, too
    first,           \* the receivers whose first head runs (it has ack connections)
    acks,            \* external_acks in flight to replica 2: the receiver and the request
    ackSent,         \* history: the acks that were sent
    failed,          \* what fail_node was called on: nothing, replica 2, a receiver
    mgr              \* what proxy_manager::fail_node does next

senderVars   == <<alive, role1, chain_seq_no_, pending_, pending_count_, chain, chainAcks>>
receiverVars == <<last_seen_seq_, ran, copied, first, ackSent>>
mgrVars      == <<failed, mgr>>
vars == <<route, senderVars, out, connected, receiverVars, acks, mgrVars>>

Init ==
    /\ route \in Routes
    /\ alive = Replicas
    /\ role1 = "head"
    /\ chain_seq_no_ = [q \in Replicas |-> 0]
    /\ pending_ = [q \in Replicas |-> {}]
    /\ pending_count_ = [q \in Replicas |-> [s \in Commands |-> 0]]
    /\ chain = <<>>
    /\ chainAcks = <<>>
    /\ out = [q \in Replicas |-> [d \in Receivers |-> <<>>]]
    /\ connected = Receivers
    /\ last_seen_seq_ = [d \in Receivers |-> -1]
    /\ ran = [d \in Receivers |-> <<>>]
    /\ copied = [d \in Receivers |-> 0]
    /\ first = Receivers
    /\ acks = {}
    /\ ackSent = {}
    /\ failed = {}
    /\ mgr = "idle"

is_tail(q) == q = 2 \/ role1 = "singleton"

(***************************************************************************)
(* The requests of T by number: a batch is sent from its first request to  *)
(* its last, and resend_pending sorts the commands.                        *)
(***************************************************************************)

\* Mutant of InOrder: the requests are not sorted (here: the last one first).
InOrder_Unsorted(T) ==
    [i \in 1..Cardinality(T) |-> CHOOSE x \in T : Cardinality({y \in T : y > x}) = i - 1]

InOrder(T) ==
    [i \in 1..Cardinality(T) |-> CHOOSE x \in T : Cardinality({y \in T : y < x}) = i - 1]

For(d, to, S) == InOrder({x \in S : to[x] = d})

(***************************************************************************)
(* The receivers send_op may pick for a request                            *)
(***************************************************************************)
To(x) == IF route[x] = Any THEN Receivers ELSE {route[x]}

Batch(S) == {x \in Requests : Command(x) \in S}

-----------------------------------------------------------------------------
(***************************************************************************)
(* The sending chain                                                       *)
(***************************************************************************)

(***************************************************************************)
(* replication_complete: the requests of the commands S are written to the *)
(* connections of q one by one, each to the receiver send_op picks.  What  *)
(* is written to a head that is gone is lost, or the write throws and the  *)
(* rest of the batch is not sent.                                          *)
(***************************************************************************)
Send(q, S) ==
    \E to \in {f \in [Batch(S) -> Receivers] : \A x \in Batch(S) : f[x] \in To(x)} :
    \E sent \in {Batch(S)} \cup
                {{x \in Batch(S) : x < y} : y \in {x \in Batch(S) : to[x] \notin connected}} :
        out' = [out EXCEPT ![q] = [d \in Receivers |->
                  IF d \in connected THEN @[d] \o For(d, to, sent) ELSE @[d]]]

(***************************************************************************)
(* chain_request at replica q: run_command (which sets pending_count_),    *)
(* chain_seq_no_ and add_pending.                                          *)
(***************************************************************************)

\* Mutant of Run: a batch counts as done one ack too early.
Run_ShortCount(q, s) ==
    /\ chain_seq_no_' = [chain_seq_no_ EXCEPT ![q] = s]
    /\ pending_' = [pending_ EXCEPT ![q] = @ \cup {s}]
    /\ pending_count_' = [pending_count_ EXCEPT ![q][s] = BatchSize - 1]

Run(q, s) ==
    /\ chain_seq_no_' = [chain_seq_no_ EXCEPT ![q] = s]
    /\ pending_' = [pending_ EXCEPT ![q] = @ \cup {s}]
    /\ pending_count_' = [pending_count_ EXCEPT ![q][s] = BatchSize]

Quiet == QuietRepair => mgr = "idle"

(***************************************************************************)
(* A request of the layer above makes the head issue the next command.     *)
(***************************************************************************)
Submit ==
    LET s == chain_seq_no_[1] + 1
    IN  /\ s \in Commands
        /\ Quiet
        /\ Run(1, s)
        /\ IF is_tail(1) THEN Send(1, {s}) /\ UNCHANGED chain
                         ELSE chain' = Append(chain, s) /\ UNCHANGED out
        /\ UNCHANGED <<route, alive, role1, chainAcks, connected, receiverVars, acks, mgrVars>>

ChainRequest ==
    /\ chain # <<>>
    /\ 2 \in alive
    /\ Quiet
    /\ chain' = Tail(chain)
    /\ Run(2, Head(chain))
    /\ Send(2, {Head(chain)})
    /\ UNCHANGED <<route, alive, role1, chainAcks, connected, receiverVars, acks, mgrVars>>

(***************************************************************************)
(* external_ack at replica 2: the last ack of a batch acks the command,    *)
(* which is no longer pending; replica 1 hears of it while it still has    *)
(* its connection to replica 2.  The acks are only counted: who acks, and  *)
(* whether for the first time, is not looked at.                           *)
(***************************************************************************)
ExternalAck(d, x) ==
    LET s == Command(x)
        zero == pending_count_[2][s] = 1
    IN  /\ <<d, x>> \in acks
        /\ 2 \in alive
        /\ acks' = acks \ {<<d, x>>}
        /\ pending_count_' = [pending_count_ EXCEPT ![2][s] = IF @ > 0 THEN @ - 1 ELSE @]
        /\ pending_' = IF zero THEN [pending_ EXCEPT ![2] = @ \ {s}] ELSE pending_
        /\ chainAcks' = IF zero /\ role1 = "head" THEN Append(chainAcks, s) ELSE chainAcks
        /\ UNCHANGED <<route, alive, role1, chain_seq_no_, chain, out, connected,
                       receiverVars, mgrVars>>

(***************************************************************************)
(* chain_ack at replica 1, and its ack_callback                            *)
(***************************************************************************)
ChainAck ==
    /\ chainAcks # <<>>
    /\ chainAcks' = Tail(chainAcks)
    /\ pending_' = [pending_ EXCEPT ![1] = @ \ {Head(chainAcks)}]
    /\ pending_count_' = [pending_count_ EXCEPT ![1][Head(chainAcks)] = 0]
    /\ UNCHANGED <<route, alive, role1, chain_seq_no_, chain, out, connected,
                   receiverVars, acks, mgrVars>>

-----------------------------------------------------------------------------
(***************************************************************************)
(* The receivers                                                           *)
(***************************************************************************)

(***************************************************************************)
(* The duplicate check of async_operation: a high-water mark.              *)
(***************************************************************************)

\* Mutant of IsDuplicate: the last request seen is taken for a new one.
IsDuplicate_OffByOne(d, x) == x < last_seen_seq_[d]

IsDuplicate(d, x) == x <= last_seen_seq_[d]

(***************************************************************************)
(* async_operation at the head of receiver d: a duplicate is dropped, and  *)
(* not acked; any other request is run and replicated.                     *)
(***************************************************************************)
AsyncOperation(q, d) ==
    LET x == Head(out[q][d])
    IN  /\ out[q][d] # <<>>
        /\ out' = [out EXCEPT ![q][d] = Tail(@)]
        /\ IF IsDuplicate(d, x)
           THEN UNCHANGED <<last_seen_seq_, ran>>
           ELSE /\ last_seen_seq_' = [last_seen_seq_ EXCEPT ![d] = x]
                /\ ran' = [ran EXCEPT ![d] = Append(@, x)]
        /\ UNCHANGED <<route, senderVars, connected, copied, first, acks, ackSent, mgrVars>>

(***************************************************************************)
(* The next request the head of d has run reaches every replica.           *)
(***************************************************************************)
Replicate(d) ==
    /\ copied[d] < Len(ran[d])
    /\ copied' = [copied EXCEPT ![d] = @ + 1]
    /\ UNCHANGED <<route, senderVars, out, connected, last_seen_seq_, ran, first, acks,
                   ackSent, mgrVars>>

Durable(d) == {ran[d][i] : i \in 1..copied[d]}

(***************************************************************************)
(* ack_callback at the head: the layer below answers in any order.  A head *)
(* that was promoted has no connection to send the ack on.                 *)
(***************************************************************************)
SendAck(d, x) ==
    /\ d \in first
    /\ x \in Durable(d) /\ <<d, x>> \notin ackSent
    /\ acks' = acks \cup {<<d, x>>}
    /\ ackSent' = ackSent \cup {<<d, x>>}
    /\ UNCHANGED <<route, senderVars, out, connected, last_seen_seq_, ran, copied, first,
                   mgrVars>>

-----------------------------------------------------------------------------
(***************************************************************************)
(* proxy_manager::fail_node, once                                          *)
(***************************************************************************)
FailSender ==
    /\ SenderFails
    /\ failed = {}
    /\ failed' = {2}
    /\ mgr' = "setup_chain"
    /\ UNCHANGED <<route, senderVars, out, connected, receiverVars, acks>>

(***************************************************************************)
(* The kill message reaches replica 2: it is gone, with what it had still  *)
(* to read and some of what it was about to send.                          *)
(***************************************************************************)
Crash ==
    /\ 2 \in failed \cap alive
    /\ alive' = {1}
    /\ chain' = <<>>
    /\ \E kept \in [Receivers -> 0..Cardinality(Requests)] :
          /\ \A d \in Receivers : kept[d] <= Len(out[2][d])
          /\ out' = [out EXCEPT ![2] = [d \in Receivers |-> SubSeq(@[d], 1, kept[d])]]
    /\ UNCHANGED <<route, role1, chain_seq_no_, pending_, pending_count_, chainAcks,
                   connected, receiverVars, acks, mgrVars>>

(***************************************************************************)
(* setup_chain makes replica 1 the singleton; it closes its connection to  *)
(* replica 2 and setup_callback opens its own to the receivers.            *)
(***************************************************************************)
SetupChain ==
    /\ mgr = "setup_chain"
    /\ role1' = "singleton"
    /\ chainAcks' = <<>>
    /\ mgr' = "resend_pending"
    /\ UNCHANGED <<route, alive, chain_seq_no_, pending_, pending_count_, chain, out,
                   connected, receiverVars, acks, failed>>

(***************************************************************************)
(* The head of d is gone.  The manager makes its successor the head (it    *)
(* has run what was replicated and what was on its way to it) and goes on  *)
(* to update_connections.                                                  *)
(***************************************************************************)

LastRun(d, k) == IF k = 0 THEN -1 ELSE ran[d][k]

FailReceiver(d) ==
    /\ ReceiverFails
    /\ failed = {}
    /\ failed' = {d}
    /\ mgr' = "update_connections"
    /\ \E k \in copied[d]..Len(ran[d]) :
          /\ ran' = [ran EXCEPT ![d] = SubSeq(@, 1, k)]
          /\ last_seen_seq_' = [last_seen_seq_ EXCEPT ![d] = LastRun(d, k)]
    /\ first' = first \ {d}
    /\ connected' = connected \ {d}
    /\ out' = [q \in Replicas |-> [out[q] EXCEPT ![d] = <<>>]]
    /\ UNCHANGED <<route, senderVars, copied, acks, ackSent>>

UpdateConnections ==
    /\ mgr = "update_connections"
    /\ connected' = Receivers
    /\ mgr' = "resend_pending"
    /\ UNCHANGED <<route, senderVars, out, receiverVars, acks, failed>>

(***************************************************************************)
(* resend_pending(-1) at the replica that is now the tail of the chain     *)
(***************************************************************************)
ResendPending ==
    LET q == IF 2 \in failed THEN 1 ELSE 2
    IN  /\ mgr = "resend_pending"
        /\ Send(q, pending_[q])
        /\ mgr' = "idle"
        /\ UNCHANGED <<route, senderVars, connected, receiverVars, acks, failed>>

-----------------------------------------------------------------------------
Deliver ==
    \/ ChainRequest \/ ChainAck
    \/ \E d \in Receivers, x \in Requests : ExternalAck(d, x)
    \/ \E q \in Replicas, d \in Receivers : AsyncOperation(q, d)
    \/ \E d \in Receivers : Replicate(d)
    \/ \E d \in Receivers, x \in Requests : SendAck(d, x)

Next ==
    \/ Submit \/ Deliver
    \/ FailSender \/ Crash \/ SetupChain
    \/ \E d \in Receivers : FailReceiver(d)
    \/ UpdateConnections \/ ResendPending

Spec == Init /\ [][Next]_vars

(***************************************************************************)
(* The server threads keep running, the connections deliver, and the layer *)
(* below the receivers answers.  There are finitely many messages, so it   *)
(* is enough that something goes on as long as something can.              *)
(***************************************************************************)
Fairness == WF_vars(Deliver)

FairSpec == Spec /\ Fairness

-----------------------------------------------------------------------------
(***************************************************************************)
(* Properties                                                              *)
(***************************************************************************)

(***************************************************************************)
(* A resent request is not run a second time by the receiver that has run  *)
(* it: whichever connection it came on and whoever is the head of the      *)
(* receiver, the mark of async_operation and run_command stops it.  (The   *)
(* marks are per receiver: a request for the dummy key that is sent to     *)
(* another one is run there once more.)                                    *)
(***************************************************************************)
AtMostOnce == \A d \in Receivers : IsInjective(ran[d])

(***************************************************************************)
(* A request counted twice by external_ack: it was for the dummy key, was  *)
(* resent, and a second receiver has run and acked it.                     *)
(***************************************************************************)
AckedTwice(x) ==
    route[x] = Any /\ \E d, e \in Receivers : d # e /\ {<<d, x>>, <<e, x>>} \subseteq ackSent

(***************************************************************************)
(* "Acks for all requests in batch received": when the head of the chain   *)
(* has dropped a command from pending_, so that nothing will send it       *)
(* again, each of its requests is on every replica of a receiver it may go *)
(* to, unless the ack of a resent request for the dummy key was counted    *)
(* twice, in place of another request's.                                   *)
(***************************************************************************)
BatchAckedIsDurable ==
    \A s \in 1..chain_seq_no_[1] :
        s \notin pending_[1] =>
            \/ \A x \in Batch({s}) : \E d \in To(x) : x \in Durable(d)
            \/ \E x \in Batch({s}) : AckedTwice(x)

(***************************************************************************)
(* Nothing is under way between the layers, and no repair is going on.     *)
(***************************************************************************)
Settled ==
    /\ chain = <<>>
    /\ \A q \in Replicas, d \in Receivers : out[q][d] = <<>>
    /\ mgr = "idle"
    /\ alive \cap failed = {}

(***************************************************************************)
(* No request is lost: once the layers have settled, whatever the head of  *)
(* the chain accepted has been run by the receiver it is for.  Only a      *)
(* request for the dummy key may be lost: resent to another receiver, it   *)
(* is below the mark there if a later request came before.                 *)
(***************************************************************************)
SettledDelivered ==
    Settled => \A x \in Batch(1..chain_seq_no_[1]) :
                  route[x] # Any => x \in Range(ran[route[x]])

(***************************************************************************)
(* As long as nothing fails, every command is acked back to the head of    *)
(* the chain, in whatever order the receivers answer: once no more of them *)
(* come (there are MaxCommands), nothing is pending any more.              *)
(***************************************************************************)
EveryBatchAcked ==
    pending_[1] # {} ~> (pending_[1] = {} \/ failed # {})
==============================================================================
