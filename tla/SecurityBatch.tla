---------------------------- MODULE SecurityBatch ----------------------------
(***************************************************************************)
(* The head of an L1 chain turns client requests into security batches:    *)
(* l1_proxy::process_op and create_security_batch, and the handlers of the *)
(* client RPCs that call them.  Every client request makes one batch of    *)
(* BatchSize accesses; a coin decides for each access whether it may carry *)
(* a client request that waits in internal_queue_.                         *)
(*                                                                         *)
(* Client requests are numbered in the order in which they arrive.  The    *)
(* worker has one server thread: an RPC is handled to its end before the   *)
(* next one begins.                                                        *)
(***************************************************************************)
EXTENDS Integers, Sequences, FiniteSets, Functions

CONSTANTS BatchSize,        \* security_batch_size_
          UnknownKeys,      \* TRUE: a client may ask for a key that is not in the store
          MaxRpc,           \* bound on the requests of one async_get_batch or async_put_batch
          MaxOps            \* bound on the number of client requests

ASSUME SecurityBatchAssumption ==
    /\ BatchSize \in Nat \ {0} /\ MaxRpc \in Nat \ {0} /\ MaxOps \in Nat
    /\ UnknownKeys \in BOOLEAN

Ops   == 1..MaxOps
Slots == 1..BatchSize

(***************************************************************************)
(* An access sampled from real_distribution_ or fake_distribution_, with   *)
(* fake_client_id_ for its client                                          *)
(***************************************************************************)
Fake == 0

VARIABLES
    disable_all_false_,  \* the -f option
    known,           \* the requests whose key is in key_to_number_of_replicas_
    arrived,         \* number of requests that have arrived
    rpc,             \* the requests of the current RPC that have still to be processed
    internal_queue_,
    batches,         \* the batches given to chain_request, in order
    refused,         \* history: the requests an exception took with it
    begins           \* history: the first request of every RPC

config == <<disable_all_false_, known>>
vars   == <<config, arrived, rpc, internal_queue_, batches, refused, begins>>

Init ==
    /\ disable_all_false_ \in BOOLEAN
    /\ known \in IF UnknownKeys THEN SUBSET Ops ELSE {Ops}
    /\ arrived = 0
    /\ rpc = <<>>
    /\ internal_queue_ = <<>>
    /\ batches = <<>>
    /\ refused = {}
    /\ begins = {}

(***************************************************************************)
(* async_get, async_put, async_get_batch or async_put_batch with m keys    *)
(***************************************************************************)

Rpc(m) ==
    /\ rpc = <<>>
    /\ arrived + m <= MaxOps
    /\ arrived' = arrived + m
    /\ rpc' = [i \in 1..m |-> arrived + i]
    /\ begins' = begins \cup {arrived + 1}
    /\ UNCHANGED <<config, internal_queue_, batches, refused>>

(***************************************************************************)
(* The coins of create_security_batch: with -f the first one is turned     *)
(* when all came up false.                                                 *)
(***************************************************************************)

\* Mutant of Coins: the option is ignored.
Coins_AllFalse == [Slots -> BOOLEAN]

Coins ==
    {c \in [Slots -> BOOLEAN] : disable_all_false_ => \E i \in Slots : c[i]}

(***************************************************************************)
(* The number of requests that have left queue q after slot i              *)
(***************************************************************************)
Taken(q, coins, i) == LET trues == Cardinality({j \in 1..i : coins[j]})
                      IN  IF trues < Len(q) THEN trues ELSE Len(q)

(***************************************************************************)
(* What slot i carries: the front of the queue if its coin is true and the *)
(* queue is not empty                                                      *)
(***************************************************************************)

\* Mutant of Slot: the front of the queue is not popped before the next slot.
Slot_NoPop(q, coins, i) ==
    IF Taken(q, coins, i) > Taken(q, coins, i - 1) THEN q[1] ELSE Fake

Slot(q, coins, i) ==
    IF Taken(q, coins, i) > Taken(q, coins, i - 1) THEN q[Taken(q, coins, i)] ELSE Fake

(***************************************************************************)
(* process_op of the next request of the RPC.  A request whose key is not  *)
(* known makes create_security_batch throw when its slot is filled: the    *)
(* requests popped so far are gone, no batch is replicated, and the rest   *)
(* of the RPC is not processed.                                            *)
(***************************************************************************)
ProcessOp(coins) ==
    LET q   == Append(internal_queue_, Head(rpc))
        bad == {i \in Slots : Slot(q, coins, i) \notin known \cup {Fake}}
        last == IF bad = {} THEN BatchSize ELSE CHOOSE i \in bad : \A j \in bad : i <= j
    IN  /\ rpc # <<>>
        /\ internal_queue_' = SubSeq(q, Taken(q, coins, last) + 1, Len(q))
        /\ IF bad = {}
           THEN /\ batches' = Append(batches, [i \in Slots |-> Slot(q, coins, i)])
                /\ rpc' = Tail(rpc)
                /\ UNCHANGED refused
           ELSE /\ rpc' = <<>>
                /\ refused' = (refused \cup Range(Tail(rpc))
                                       \cup {Slot(q, coins, i) : i \in 1..last}) \ {Fake}
                /\ UNCHANGED batches
        /\ UNCHANGED <<config, arrived, begins>>

Next == (\E m \in 1..MaxRpc : Rpc(m)) \/ (\E coins \in Coins : ProcessOp(coins))

Spec == Init /\ [][Next]_vars
-----------------------------------------------------------------------------
(***************************************************************************)
(* The client requests in the batches                                      *)
(***************************************************************************)
Sent == {batches[b][i] : b \in DOMAIN batches, i \in Slots} \ {Fake}

\* Slot i of batch b is sent before slot j of batch c.
SentBefore(b, i, c, j) == b < c \/ (b = c /\ i < j)

Increasing(q)   == \A i, j \in DOMAIN q : i < j => q[i] < q[j]
AllBefore(S, T) == \A x \in S, y \in T : x < y

(***************************************************************************)
(* Client requests leave in the order in which they came, each once: every *)
(* request that was processed is in a batch or waits, behind the ones that *)
(* were sent, unless an exception took it with it.                         *)
(***************************************************************************)
FifoOnce ==
    /\ Sent \cup Range(internal_queue_) \cup Range(rpc) = (1..arrived) \ refused
    /\ \A b, c \in DOMAIN batches, i, j \in Slots :
          SentBefore(b, i, c, j) /\ batches[b][i] # Fake /\ batches[c][j] # Fake
              => batches[b][i] < batches[c][j]
    /\ Increasing(internal_queue_) /\ Increasing(rpc)
    /\ AllBefore(Sent, Range(internal_queue_)) /\ AllBefore(Sent, Range(rpc))
    /\ AllBefore(Range(internal_queue_), Range(rpc))

(***************************************************************************)
(* With -f no request waits for a later one: when process_op returns, the  *)
(* queue is empty.                                                         *)
(***************************************************************************)
NobodyWaits == disable_all_false_ => internal_queue_ = <<>>

(***************************************************************************)
(* With -f an unknown key costs no request of another RPC: what an         *)
(* exception takes with it is a request with an unknown key, or follows    *)
(* one that was refused in the same RPC, no RPC beginning after that one.  *)
(***************************************************************************)
SameRpc(u, op) == u <= op /\ \A b \in begins : b <= u \/ op < b

OnlyItsOwnRpc ==
    disable_all_false_ => \A op \in refused : \E u \in refused \ known : SameRpc(u, op)
==============================================================================
