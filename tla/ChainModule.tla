----------------------------- MODULE ChainModule -----------------------------
(***************************************************************************)
(* Chain replication of one worker of an L1 or L2 column, and the repair   *)
(* of the chain by the proxy manager: chain_module.cpp, the chain part of  *)
(* l1_handler.cpp and l2_handler.cpp, and the L1 and L2 branches of        *)
(* proxy_manager::fail_node.                                               *)
(*                                                                         *)
(* The replicas are 1..N, in the order of their rows in the hosts file: 1  *)
(* is the head and N the tail that the manager's static host table names.  *)
(* One handler of the worker's thrift server is one action (the server has *)
(* one thread); the response_processor_ thread, the manager and the layers *)
(* above and below run concurrently with it.                               *)
(***************************************************************************)
EXTENDS Integers, Sequences, FiniteSets, Functions

CONSTANTS N,              \* number of replicas of the column
          Ops,            \* the commands the layer above submits
          HeadFailover,   \* TRUE: an L2 column, whose head is replaced; FALSE: L1
          AckBatchSize,   \* chain_ack_batch_size_
          LossyClose,     \* TRUE: closing a connection may lose what was written to it
          MaxFailures,    \* bound on the number of fail_node calls
          MaxConns,       \* bound on the number of connections ever opened
          MaxExtraAcks    \* bound on the acks the layer below sends twice

ASSUME ChainAssumption ==
    /\ N \in Nat /\ N >= 2
    /\ HeadFailover \in BOOLEAN /\ LossyClose \in BOOLEAN
    /\ AckBatchSize \in Nat \ {0}
    /\ MaxFailures \in Nat
    /\ MaxConns \in Nat /\ MaxConns >= N - 1
    /\ MaxExtraAcks \in Nat

Nodes == 1..N
Conns == 1..MaxConns

(***************************************************************************)
(* A chain_request and a chain_ack both carry a sequence_id: its           *)
(* server_seq_no (seq) and the fields that identify the command (op).      *)
(***************************************************************************)
Msg == [seq : Nat, op : Ops]

Roles == {"head", "mid", "tail", "singleton"}

(***************************************************************************)
(* What fail_node still has to do: the RPC it issues next (step), on which *)
(* replica (node), with which arguments (role, next, and the sequence      *)
(* number fetched from the successor), and the step that follows setup.    *)
(* next = 0 is the nullptr successor.                                      *)
(***************************************************************************)
Steps == {"idle", "setup_chain", "fetch_seq", "resend_pending",
          "update_connections", "aborted"}

Plans == [step : Steps, node : Nodes, role : Roles, next : 0..N, seq : Int, then : Steps]

VARIABLES
    alive,          \* the replicas whose process runs
    failed,         \* the replicas fail_node has been called on
    role_,          \* chain_module::role_
    chain_seq_no_,  \* chain_module::chain_seq_no_
    log,            \* history: the commands given to run_command, in order
    pending_,       \* chain_module::pending_
    ack_queue_,     \* chain_module::ack_queue_
    next_,          \* the connection to the successor; 0 when disconnected
    prev_,          \* the connection acks are sent on; 0 until it is set
    numConns,       \* connections are numbered in the order they are opened
    ends,           \* src and dst of every connection
    open,           \* the connections whose two ends are still open
    reqs,           \* chain_requests in flight on a connection
    acks,           \* chain_acks in flight on a connection
    entry,          \* the replica the layer above sends its commands to
    completed,      \* history: the commands each tail gave to the layer below
    unacked,        \* the commands the layer below has still to ack
    extraAcks,      \* acks the layer below has repeated
    released,       \* history: the commands acked to the layer above
    mgr             \* progress of proxy_manager::fail_node

nodeVars == <<role_, chain_seq_no_, log, pending_, ack_queue_, next_, prev_>>
netVars  == <<numConns, ends, open, reqs, acks>>
envVars  == <<entry, completed, unacked, extraAcks, released>>
mgrVars  == <<alive, failed, mgr>>
vars     == <<nodeVars, netVars, envVars, mgrVars>>

(***************************************************************************)
(* What an invariant may assume of the replicas the manager has not failed *)
(***************************************************************************)
Members == Nodes \ failed

Idle == [step |-> "idle", node |-> 1, role |-> "head", next |-> 0, seq |-> -1,
         then |-> "idle"]

Init ==
    /\ alive = Nodes
    /\ failed = {}
    /\ role_ = [n \in Nodes |-> IF n = 1 THEN "head" ELSE IF n = N THEN "tail" ELSE "mid"]
    /\ chain_seq_no_ = [n \in Nodes |-> 0]
    /\ log = [n \in Nodes |-> <<>>]
    /\ pending_ = [n \in Nodes |-> {}]
    /\ ack_queue_ = [n \in Nodes |-> <<>>]
    /\ next_ = [n \in Nodes |-> IF n = N THEN 0 ELSE n]
    /\ prev_ = [n \in Nodes |-> 0]
    /\ numConns = N - 1
    /\ ends = [c \in Conns |-> IF c < N THEN [src |-> c, dst |-> c + 1]
                                        ELSE [src |-> 1, dst |-> 1]]
    /\ open = 1..(N - 1)
    /\ reqs = [c \in Conns |-> <<>>]
    /\ acks = [c \in Conns |-> <<>>]
    /\ entry = 1
    /\ completed = [n \in Nodes |-> {}]
    /\ unacked = {}
    /\ extraAcks = 0
    /\ released = {}
    /\ mgr = Idle

-----------------------------------------------------------------------------
(***************************************************************************)
(* chain_module                                                            *)
(***************************************************************************)
is_head(n) == role_[n] \in {"head", "singleton"}

\* Mutant of is_tail: every replica but the head takes itself for the tail.
is_tail_NotHead(n) == role_[n] # "head"

is_tail(n) == role_[n] \in {"tail", "singleton"}

(***************************************************************************)
(* next_->request for every message of q: what is written to a connection  *)
(* that is not open is lost (the write throws or goes nowhere).            *)
(***************************************************************************)
Request(n, q, channels) ==
    IF next_[n] \in open
    THEN [channels EXCEPT ![next_[n]] = @ \o q]
    ELSE channels

(***************************************************************************)
(* replication_complete for the commands S: they go to the layer below.    *)
(***************************************************************************)
ReplicationComplete(n, S) ==
    /\ completed' = [completed EXCEPT ![n] = @ \cup S]
    /\ unacked' = unacked \cup S

(***************************************************************************)
(* chain_request beyond its two early returns: run_command, the new        *)
(* sequence number, add_pending, and the command goes to the layer below   *)
(* (replication_complete at the tail) or to the successor.  channels are   *)
(* the connections after the message that is handled has been read.        *)
(***************************************************************************)
\* Mutant of Accept: only the head keeps commands pending.
Accept_PendingAtHead(n, m, channels) ==
    /\ chain_seq_no_' = [chain_seq_no_ EXCEPT ![n] = @ + 1]
    /\ log' = [log EXCEPT ![n] = Append(@, m.op)]
    /\ pending_' = IF is_head(n) THEN [pending_ EXCEPT ![n] = @ \cup {m}] ELSE pending_
    /\ IF is_tail(n)
       THEN ReplicationComplete(n, {m}) /\ reqs' = channels
       ELSE reqs' = Request(n, <<m>>, channels) /\ UNCHANGED <<completed, unacked>>

Accept(n, m, channels) ==
    /\ chain_seq_no_' = [chain_seq_no_ EXCEPT ![n] = @ + 1]
    /\ log' = [log EXCEPT ![n] = Append(@, m.op)]
    /\ pending_' = [pending_ EXCEPT ![n] = @ \cup {m}]
    /\ IF is_tail(n)
       THEN ReplicationComplete(n, {m}) /\ reqs' = channels
       ELSE reqs' = Request(n, <<m>>, channels) /\ UNCHANGED <<completed, unacked>>

(***************************************************************************)
(* The head numbers the command itself, whoever sent it.                   *)
(***************************************************************************)
\* Mutant of Numbered: the head runs a command under the number it came with.
Numbered_AsSent(n, m) == m

Numbered(n, m) ==
    IF is_head(n) THEN [seq |-> chain_seq_no_[n] + 1, op |-> m.op] ELSE m

(***************************************************************************)
(* The layer above hands a command to the head (process_op of L1,          *)
(* async_operation of L2): at a replica that is not a head it is refused.  *)
(***************************************************************************)
Submit(op) ==
    /\ entry \in alive
    /\ is_head(entry)
    /\ \A n \in Nodes : op \notin Range(log[n])
    /\ Accept(entry, Numbered(entry, [seq |-> 0, op |-> op]), reqs)
    /\ UNCHANGED <<role_, ack_queue_, next_, prev_, numConns, ends, open,
                   acks, entry, extraAcks, released, mgrVars>>

(***************************************************************************)
(* The check of chain_request: a message at or below chain_seq_no_ is a    *)
(* duplicate and is dropped; one that is further ahead is refused.         *)
(***************************************************************************)

\* Mutant of InSequence: a message that is ahead of the sequence is not refused.
InSequence_NoGapCheck(n, m) == m.seq > chain_seq_no_[n]

InSequence(n, m) == m.seq = chain_seq_no_[n] + 1

(***************************************************************************)
(* A chain_request read from connection c.  prev_ is set by the first one  *)
(* and never again, also when the message is dropped or refused.           *)
(***************************************************************************)
ChainRequest(c) ==
    LET n == ends[c].dst
        m == Numbered(n, Head(reqs[c]))
        read == [reqs EXCEPT ![c] = Tail(@)]
    IN  /\ reqs[c] # <<>>
        /\ n \in alive
        /\ prev_' = [prev_ EXCEPT ![n] = IF @ = 0 THEN c ELSE @]
        /\ \/ /\ InSequence(n, m)
              /\ Accept(n, m, read)
           \/ /\ ~InSequence(n, m)
              /\ reqs' = read
              /\ UNCHANGED <<chain_seq_no_, log, pending_, completed, unacked>>
        /\ UNCHANGED <<role_, ack_queue_, next_, numConns, ends, open, acks,
                       entry, extraAcks, released, mgrVars>>

(***************************************************************************)
(* ack_callback: the first head acks to the layer above.  A head promoted  *)
(* by the manager has no connection to the layer above: the callback       *)
(* throws, which the FALSE result of this operator stands for.             *)
(***************************************************************************)
AckCallback(n) == ~is_head(n) \/ n = 1

(***************************************************************************)
(* ack_queue_ is flushed as soon as it holds chain_ack_batch_size_ acks.   *)
(***************************************************************************)

\* Mutant of Full: the queue is flushed one ack late.
Full_OffByOne(q) == Len(q) > AckBatchSize

Full(q) == Len(q) >= AckBatchSize

(***************************************************************************)
(* ack: the command leaves pending_, ack_callback runs, and a replica that *)
(* is not the head queues the ack and flushes a full queue to prev_.  A    *)
(* flush to a connection that is not open loses the batch and may throw.   *)
(* channels are the ack streams after the ack that is handled was read;    *)
(* threw tells that an exception left the handler.                         *)
(***************************************************************************)
Ack(n, m, channels, threw) ==
    LET q == Append(ack_queue_[n], m)
        lost == Full(q) /\ prev_[n] \notin open
    IN  /\ pending_' = [pending_ EXCEPT ![n] = {p \in @ : p.seq # m.seq}]
        /\ IF is_head(n)
           THEN /\ threw = ~AckCallback(n)
                /\ released' = IF AckCallback(n) THEN released \cup {m.op} ELSE released
                /\ acks' = channels
                /\ UNCHANGED ack_queue_
           ELSE /\ threw => lost
                /\ ack_queue_' = [ack_queue_ EXCEPT ![n] = IF Full(q) THEN <<>> ELSE q]
                /\ acks' = IF Full(q) /\ ~lost
                           THEN [channels EXCEPT ![prev_[n]] = @ \o q]
                           ELSE channels
                /\ UNCHANGED released

(***************************************************************************)
(* The layer below acks a command to the only replica it is connected to:  *)
(* the tail of the static host table, whatever became of the chain.  again *)
(* is an ack that will be repeated.                                        *)
(***************************************************************************)
ExternalAck(m, again) ==
    /\ m \in unacked
    /\ N \in alive
    /\ IF again
       THEN extraAcks < MaxExtraAcks /\ extraAcks' = extraAcks + 1 /\ UNCHANGED unacked
       ELSE unacked' = unacked \ {m} /\ UNCHANGED extraAcks
    /\ \E threw \in BOOLEAN : Ack(N, m, acks, threw)
    /\ UNCHANGED <<role_, chain_seq_no_, log, next_, prev_, numConns, ends,
                   open, reqs, entry, completed, mgrVars>>

(***************************************************************************)
(* The response_processor_ thread of n handles an ack of its successor.    *)
(* process_chain_ack_batch catches an exception of the handler, so that    *)
(* the loop goes on, but the rest of the batch is not handled.             *)
(***************************************************************************)
Skipped(threw) == IF threw THEN 0..(AckBatchSize - 1) ELSE {0}

ChainAck(n) ==
    LET c == next_[n]
    IN  /\ n \in alive
        /\ c # 0
        /\ acks[c] # <<>>
        /\ \E threw \in BOOLEAN : \E k \in Skipped(threw) :
              Ack(n, Head(acks[c]), [acks EXCEPT ![c] = SubSeq(@, 2 + k, Len(@))], threw)
        /\ UNCHANGED <<role_, chain_seq_no_, log, next_, prev_, numConns, ends, open,
                       reqs, entry, completed, unacked, extraAcks, mgrVars>>

-----------------------------------------------------------------------------
(***************************************************************************)
(* proxy_manager                                                           *)
(***************************************************************************)

(***************************************************************************)
(* fail_node: the kill message is sent to f (it is handled later, by       *)
(* Crash), and the repair is worked out from the static host table.  The   *)
(* failure of an L1 head is not repaired.                                  *)
(***************************************************************************)

\* Mutant of RepairPlan: the failure of the tail is handled like any other.
RepairPlan_NoTailCase(f) ==
    IF f > 1
    THEN [step |-> "setup_chain", node |-> f - 1,
          role |-> IF N = 2 THEN "singleton" ELSE IF f = 2 THEN "head" ELSE "mid",
          next |-> f + 1, seq |-> -1, then |-> "fetch_seq"]
    ELSE Idle

\* Mutant of RepairPlan: the new predecessor is told to resend nothing.
RepairPlan_NoResend(f) ==
    IF f > 1
    THEN [step |-> "setup_chain", node |-> f - 1,
          role |-> IF N = 2 THEN "singleton" ELSE IF f = 2 THEN "head"
                   ELSE IF f = N THEN "tail" ELSE "mid",
          next |-> IF f = N THEN 0 ELSE f + 1, seq |-> -1, then |-> "idle"]
    ELSE Idle

RepairPlan(f) ==
    IF f > 1
    THEN [step |-> "setup_chain", node |-> f - 1,
          role |-> IF N = 2 THEN "singleton" ELSE IF f = 2 THEN "head"
                   ELSE IF f = N THEN "tail" ELSE "mid",
          next |-> IF f = N THEN 0 ELSE f + 1, seq |-> -1,
          then |-> IF f = N THEN "resend_pending" ELSE "fetch_seq"]
    ELSE IF HeadFailover
    THEN [step |-> "setup_chain", node |-> 2,
          role |-> IF N = 2 THEN "singleton" ELSE "head",
          next |-> IF N = 2 THEN 0 ELSE 3, seq |-> -1,
          then |-> "update_connections"]
    ELSE Idle

FailNode(f) ==
    /\ mgr.step = "idle"
    /\ f \in Members
    /\ Cardinality(failed) < MaxFailures
    /\ failed' = failed \cup {f}
    /\ mgr' = RepairPlan(f)
    /\ UNCHANGED <<alive, nodeVars, netVars, envVars>>

(***************************************************************************)
(* What was in flight on a connection whose writer closes it: the messages *)
(* written before still arrive, or only those up to some point (the close  *)
(* of a socket with unread input resets the connection).                   *)
(***************************************************************************)
Remains(channels, c) ==
    IF c = 0 THEN {<<>>}
    ELSE IF LossyClose THEN {SubSeq(channels[c], 1, k) : k \in 0..Len(channels[c])}
    ELSE {channels[c]}

(***************************************************************************)
(* The process of f exits.  What it had written to its successor and to    *)
(* its predecessor may still arrive; what was sent to it is lost.          *)
(***************************************************************************)
Crash(f) ==
    /\ f \in failed \cap alive
    /\ alive' = alive \ {f}
    /\ open' = {c \in open : f \notin {ends[c].src, ends[c].dst}}
    /\ \E q \in Remains(reqs, next_[f]) :
          reqs' = [c \in Conns |-> IF ends[c].dst = f THEN <<>>
                                   ELSE IF c = next_[f] THEN q ELSE reqs[c]]
    /\ \E q \in Remains(acks, prev_[f]) :
          acks' = [c \in Conns |-> IF ends[c].src = f THEN <<>>
                                   ELSE IF c = prev_[f] THEN q ELSE acks[c]]
    /\ UNCHANGED <<failed, mgr, nodeVars, numConns, ends, envVars>>

(***************************************************************************)
(* An RPC to a replica whose process is gone, or that answers with an      *)
(* exception, throws in a thread of the manager and ends the manager.      *)
(***************************************************************************)
Aborted == [mgr EXCEPT !.step = "aborted"]

ManagerAborts ==
    /\ \/ mgr.step \in {"setup_chain", "resend_pending"} /\ mgr.node \notin alive
       \/ mgr.step = "fetch_seq" /\ mgr.next \notin alive
    /\ mgr' = Aborted
    /\ UNCHANGED <<alive, failed, nodeVars, netVars, envVars>>

(***************************************************************************)
(* chain_module::setup.  next_ is closed and, unless there is no successor *)
(* any more, opened again to the new one, also when that is the replica it *)
(* was connected to; the response_processor_ thread is restarted on the    *)
(* new connection.  A successor that is gone makes the connect throw.      *)
(***************************************************************************)
SetupChain ==
    LET n == mgr.node
        succ == mgr.next
        c == numConns + 1
    IN  /\ mgr.step = "setup_chain"
        /\ n \in alive
        /\ c \in Conns
        /\ role_' = [role_ EXCEPT ![n] = mgr.role]
        /\ \E q \in Remains(reqs, next_[n]) :
              reqs' = [k \in Conns |-> IF k = next_[n] THEN q ELSE reqs[k]]
        /\ acks' = [k \in Conns |-> IF k = next_[n] THEN <<>> ELSE acks[k]]
        /\ IF succ \in alive
           THEN /\ numConns' = c
                /\ ends' = [ends EXCEPT ![c] = [src |-> n, dst |-> succ]]
                /\ open' = (open \ {next_[n]}) \cup {c}
                /\ next_' = [next_ EXCEPT ![n] = c]
           ELSE /\ open' = open \ {next_[n]}
                /\ next_' = [next_ EXCEPT ![n] = 0]
                /\ UNCHANGED <<numConns, ends>>
        /\ mgr' = IF succ \notin alive \cup {0} THEN Aborted
                  ELSE [mgr EXCEPT !.step = mgr.then]
        /\ UNCHANGED <<chain_seq_no_, log, pending_, ack_queue_, prev_, envVars,
                       alive, failed>>

(***************************************************************************)
(* The manager asks the successor for its sequence number.                 *)
(***************************************************************************)
FetchSeq ==
    /\ mgr.step = "fetch_seq"
    /\ mgr.next \in alive
    /\ mgr' = [mgr EXCEPT !.step = "resend_pending", !.seq = chain_seq_no_[mgr.next]]
    /\ UNCHANGED <<alive, failed, nodeVars, netVars, envVars>>

(***************************************************************************)
(* chain_module::resend_pending: the pending commands the successor lacks, *)
(* sorted by sequence number, go to the layer below or to the successor.   *)
(***************************************************************************)

\* Mutant of Unseen: the first command the successor lacks is skipped.
Unseen_OffByOne(n, successor_seq) == {m \in pending_[n] : m.seq > successor_seq + 1}

Unseen(n, successor_seq) == {m \in pending_[n] : m.seq > successor_seq}

Sorted(S) ==
    {s \in UNION {[1..k -> S] : k \in 0..Cardinality(S)} :
        Range(s) = S /\ \A i, j \in DOMAIN s : i < j => s[i].seq < s[j].seq}

ResendPending ==
    LET n == mgr.node
        ops == Unseen(n, mgr.seq)
    IN  /\ mgr.step = "resend_pending"
        /\ n \in alive
        /\ IF is_tail(n)
           THEN ReplicationComplete(n, ops) /\ UNCHANGED reqs
           ELSE /\ \E op_list \in Sorted(ops) : reqs' = Request(n, op_list, reqs)
                /\ UNCHANGED <<completed, unacked>>
        /\ mgr' = Idle
        /\ UNCHANGED <<alive, failed, nodeVars, numConns, ends, open, acks, entry,
                       extraAcks, released>>

(***************************************************************************)
(* A replaced head: the layer above is told to send to the new one.        *)
(***************************************************************************)
UpdateConnections ==
    /\ mgr.step = "update_connections"
    /\ entry' = mgr.node
    /\ mgr' = Idle
    /\ UNCHANGED <<alive, failed, nodeVars, netVars, completed, unacked, extraAcks, released>>

-----------------------------------------------------------------------------
Manager == SetupChain \/ FetchSeq \/ ResendPending \/ UpdateConnections \/ ManagerAborts

Next ==
    \/ \E op \in Ops : Submit(op)
    \/ \E c \in Conns : ChainRequest(c)
    \/ \E m \in unacked, again \in BOOLEAN : ExternalAck(m, again)
    \/ \E n \in Nodes : ChainAck(n)
    \/ \E f \in Nodes : FailNode(f)
    \/ \E f \in Nodes : Crash(f)
    \/ Manager

Spec == Init /\ [][Next]_vars

(***************************************************************************)
(* The server and response_processor_ threads read what arrives, a killed  *)
(* process exits, the manager goes on, and the layer below acks.  The      *)
(* layer above need not submit anything and no replica need fail.  There   *)
(* are finitely many messages, so it is enough that something goes on as   *)
(* long as something can.                                                  *)
(***************************************************************************)
Deliver ==
    \/ \E c \in Conns : ChainRequest(c)
    \/ \E n \in Nodes : ChainAck(n)
    \/ \E f \in Nodes : Crash(f)
    \/ Manager
    \/ \E m \in unacked : ExternalAck(m, FALSE)

Fairness == WF_vars(Deliver)

FairSpec == Spec /\ Fairness

-----------------------------------------------------------------------------
(***************************************************************************)
(* Properties                                                              *)
(***************************************************************************)

\* The state of every replica, connection and of the manager has its type.
TypeOK ==
    /\ alive \subseteq Nodes /\ failed \subseteq Nodes
    /\ role_ \in [Nodes -> Roles]
    /\ chain_seq_no_ \in [Nodes -> Nat]
    /\ log \in [Nodes -> Seq(Ops)]
    /\ pending_ \in [Nodes -> SUBSET Msg]
    /\ ack_queue_ \in [Nodes -> Seq(Msg)]
    /\ next_ \in [Nodes -> 0..MaxConns]
    /\ prev_ \in [Nodes -> 0..MaxConns]
    /\ numConns \in 0..MaxConns
    /\ ends \in [Conns -> [src : Nodes, dst : Nodes]]
    /\ open \subseteq Conns
    /\ reqs \in [Conns -> Seq(Msg)]
    /\ acks \in [Conns -> Seq(Msg)]
    /\ entry \in Nodes
    /\ completed \in [Nodes -> SUBSET Msg] /\ unacked \subseteq Msg
    /\ extraAcks \in Nat
    /\ released \subseteq Ops
    /\ mgr \in Plans

\* l is a prefix of k.
Leads(k, l) == Len(l) <= Len(k) /\ \A s \in 1..Len(l) : l[s] = k[s]

\* The commands a replica has run are, in the same order, a prefix of those of
\* every replica before it that has not failed: whatever chain_request drops,
\* refuses or receives twice during a repair, no command is run out of order,
\* twice, or without its predecessors (run_command, chain_module.cpp:123-150).
LogOrder == \A i \in Members, j \in Nodes : i < j => Leads(log[i], log[j])

\* A command leaves the pending_ table of a replica only when every replica
\* that has not failed has run it: resend_pending after any failure finds all
\* that some survivor lacks (add_pending and remove_pending, chain_module.cpp).
PendingCovers ==
    \A i \in Nodes, j \in Members : \A s \in 1..Len(log[i]) :
        s > Len(log[j]) => [seq |-> s, op |-> log[i][s]] \in pending_[i]

\* A command acked to the layer above (ack_callback of the head) has been run by
\* every replica that has not failed, and so survives the loss of all but one.
AckedIsDurable == \A j \in Members : released \subseteq Range(log[j])

\* Once the manager is done and no request is in flight, the survivors have run
\* the same commands, and the last of them has passed on all that are pending:
\* what chain_request refused as out of order between setup_chain and
\* resend_pending, and what the failed replica had in hand, was sent again.
InFlight(c) == ends[c].dst \in alive /\ reqs[c] # <<>>

Settled == mgr.step = "idle" /\ failed \cap alive = {} /\ \A c \in Conns : ~InFlight(c)

SurvivorsAgree ==
    Settled => /\ \A i, j \in Members : log[i] = log[j]
               /\ \A t \in Members : (\A j \in Members : j <= t) => pending_[t] \subseteq completed[t]

\* The same for the failure of one replica other than the head.  (fail_node
\* works on the host file, so after a second failure it may set up a replica
\* that is about to exit.)
SettledAgree == 1 \notin failed /\ Cardinality(failed) <= 1 => SurvivorsAgree

\* A command run by the head is in the end run by every survivor if one replica
\* other than the head fails: the chain never stops at a message it refuses.
Replicates ==
    \A op \in Ops :
        op \in Range(log[1]) ~> \/ 1 \in failed \/ Cardinality(failed) > 1
                                \/ \A j \in Members : op \in Range(log[j])

\* As long as no replica fails, every command the head has run is in the end acked
\* to the layer above, or its ack waits for good in an ack_queue_ that holds fewer
\* acks than a batch: acks find their way back through ack_queue_, prev_ and
\* response_processor_, and stop nowhere else (nothing flushes a partial batch).
Waits(op) ==
    \E n \in Nodes : /\ Len(ack_queue_[n]) < AckBatchSize
                      /\ \E i \in DOMAIN ack_queue_[n] : ack_queue_[n][i].op = op

AcksReturn ==
    \A op \in Ops :
        op \in Range(log[1]) ~> [](op \in released \/ Waits(op) \/ failed # {})

-----------------------------------------------------------------------------
(***************************************************************************)
(* The inductive invariant behind LogOrder, PendingCovers and              *)
(* AckedIsDurable, one named part per idea.                                *)
(***************************************************************************)

\* Message m names the command at its place in log l.
Agrees(m, l) == m.seq \in 1..Len(l) /\ l[m.seq] = m.op

\* Every survivor has run the command of m.
Everywhere(m) == \A j \in Members : Agrees(m, log[j])

SeqIsLength == \A n \in Nodes : chain_seq_no_[n] = Len(log[n])

\* The replicas strictly between n and k have all failed.
Adjacent(n, k) == n < k /\ \A i \in Nodes : n < i /\ i < k => i \in failed

\* A connection leads down the chain and passes over failed replicas only.
LinksForward ==
    /\ \A c \in Conns : c <= numConns => Adjacent(ends[c].src, ends[c].dst)
    /\ \A c \in Conns : c > numConns => reqs[c] = <<>> /\ acks[c] = <<>>
    /\ open \subseteq 1..numConns
    /\ \A n \in Nodes : next_[n] # 0 => next_[n] <= numConns /\ ends[next_[n]].src = n

\* A replica without role_ head has a live predecessor only if it obeys it, and
\* one with role_ tail has nobody left behind it.
RoleFits(n, role) ==
    /\ role \in {"head", "singleton"} => \A i \in Nodes : i < n => i \in failed
    /\ role \in {"tail", "singleton"} => \A i \in Nodes : i > n => i \in failed

RolesFit == \A n \in Nodes : RoleFits(n, role_[n])

PlanFits ==
    mgr.step = "setup_chain" =>
        /\ RoleFits(mgr.node, mgr.role)
        /\ mgr.next # 0 => Adjacent(mgr.node, mgr.next)

RequestsAgree ==
    \A c \in Conns : \A i \in 1..Len(reqs[c]) : Agrees(reqs[c][i], log[ends[c].src])

PendingAgrees == \A n \in Nodes : \A m \in pending_[n] : Agrees(m, log[n])

AcksSound ==
    /\ \A m \in unacked : Everywhere(m)
    /\ \A c \in Conns : \A i \in 1..Len(acks[c]) : Everywhere(acks[c][i])
    /\ \A n \in Nodes : \A i \in 1..Len(ack_queue_[n]) : Everywhere(ack_queue_[n][i])

\* All of the above: what the repair of the chain relies on at every step, in
\* particular that no command is acked anywhere before every survivor has it.
ChainInv ==
    /\ SeqIsLength
    /\ LinksForward
    /\ RolesFit
    /\ PlanFits
    /\ RequestsAgree
    /\ PendingAgrees
    /\ AcksSound
    /\ LogOrder
    /\ PendingCovers
    /\ AckedIsDurable
=============================================================================
