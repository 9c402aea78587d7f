----------------------------- MODULE StoragePath -----------------------------
(***************************************************************************)
(* A request from the head of an L2 column to the key-value store and back *)
(* to the client: the tail of the column with its workers and the update   *)
(* cache they share (l2_proxy.cpp, update_cache.cpp, l3_interface.cpp),    *)
(* the pipeline of every L3 worker (l3_proxy.cpp, redis_interface.cpp),    *)
(* and the acks (reverse_connector.cpp).  No process fails here; chain     *)
(* replication is the FIFO from the head to the tail that ChainModule      *)
(* keeps its replicas to.                                                  *)
(*                                                                         *)
(* A key has several replicas in the store, each under a label of its own. *)
(* The worker of L2 and the worker of L3 that serve a replica are picked   *)
(* by hashes of its label, here the functions WorkerOf and ServerOf.       *)
(***************************************************************************)
EXTENDS Integers, Sequences, FiniteSets, Functions

CONSTANTS Keys,
          Replicas,            \* the replica numbers of every key
          Workers, WorkerOf,   \* workers of the L2 column; the one that serves a replica
          Servers,             \* workers of L3
          Puts, Gets, Fakes,   \* requests: puts, gets, and the fake gets L1 adds
          UpdateCacheEnabled,  \* update_cache_enabled_
          Configs,             \* the configurations; each is a record
                               \* [StorageBatchSize, AckBatchSize, ServerOf, Sent]
          NoVal,               \* the empty string
          InitVal              \* the value the initializer stored

Requests == Puts \cup Gets \cup Fakes
Labels   == Keys \X Replicas
Values   == Puts \cup {InitVal}

ASSUME StorageAssumption ==
    /\ WorkerOf \in [Labels -> Workers]
    /\ UpdateCacheEnabled \in BOOLEAN
    /\ Configs \subseteq [StorageBatchSize : Nat \ {0}, AckBatchSize : Nat \ {0},
                          ServerOf : [Labels -> Servers], Sent : SUBSET Requests]
    /\ Puts \cap Gets = {} /\ Puts \cap Fakes = {} /\ Gets \cap Fakes = {}
    /\ NoVal \notin Values /\ InitVal \notin Puts

(***************************************************************************)
(* encryption_engine: the store only ever holds ciphertexts.               *)
(***************************************************************************)
encrypt(v) == [cipher |-> v]
decrypt(c) == c.cipher

VARIABLES
    config,          \* the configuration that is run
    chain_seq_no_,   \* of every L2 worker
    chain,           \* per L2 worker: operations [req, label, seq] on their way to the tail
    running,         \* per L2 worker: the operation between run_command and forward_request
    cache,           \* update_cache_ of the tail process, shared by its workers
    l3request,       \* per L2 worker and L3 worker: the connection between them; an
                     \* l3_operation also has the value to write back and plaintext
    last_seen_seq_,  \* per L3 worker and L2 worker
    get_queue,       \* per L3 worker: get_queues_ of storage_iface_
    mgets,           \* per L3 worker: MGETs on their way to the store
    crypto_queue_,   \* per L3 worker: answered MGETs
    msets,           \* per L3 worker: MSETs on their way to the store
    msetReplies,     \* per L3 worker: the operations of the MSETs that were executed
    respond_queue_,  \* per L3 worker
    ack_queues_,     \* per L3 worker and L2 worker, in the reverse_connector of L3
    acked,           \* per L2 worker: history of the acks sent to it
    kv,              \* the store
    label,           \* the replica L1 has picked for every request
    progress,        \* history: "idle", "submitted", "run", "forwarded" or "answered"
    seen,            \* history: the value of its key when a get is forwarded
    result,          \* history: what the client was answered
    order            \* history: the puts of every key, in the order of the tail's cache

l2Vars   == <<chain_seq_no_, chain, running, cache>>
l3Vars   == <<last_seen_seq_, get_queue, mgets, crypto_queue_, msets, msetReplies,
              respond_queue_, ack_queues_>>
histVars == <<label, progress, seen, result, order>>
vars     == <<config, l2Vars, l3request, l3Vars, acked, kv, histVars>>

StorageBatchSize == config.StorageBatchSize  \* storage_batch_size_
AckBatchSize     == config.AckBatchSize      \* batch_size_ of the L3 reverse_connector
ServerOf         == config.ServerOf          \* the worker of L3 that serves a replica

Init ==
    /\ config \in Configs
    /\ chain_seq_no_ = [w \in Workers |-> 0]
    /\ chain = [w \in Workers |-> <<>>]
    /\ running = [w \in Workers |-> <<>>]
    /\ cache = [k \in Keys |-> NoVal]
    /\ l3request = [w \in Workers |-> [s \in Servers |-> <<>>]]
    /\ last_seen_seq_ = [s \in Servers |-> [w \in Workers |-> -1]]
    /\ get_queue = [s \in Servers |-> <<>>]
    /\ mgets = [s \in Servers |-> <<>>]
    /\ crypto_queue_ = [s \in Servers |-> <<>>]
    /\ msets = [s \in Servers |-> <<>>]
    /\ msetReplies = [s \in Servers |-> <<>>]
    /\ respond_queue_ = [s \in Servers |-> <<>>]
    /\ ack_queues_ = [s \in Servers |-> [w \in Workers |-> <<>>]]
    /\ acked = [w \in Workers |-> {}]
    /\ kv = [l \in Labels |-> encrypt(InitVal)]
    /\ label \in {l \in [Requests -> Labels] :
                    \A o \in Requests \ config.Sent : l[o] = CHOOSE x \in Labels : TRUE}
    /\ progress = [o \in Requests |-> "idle"]
    /\ seen = [o \in Requests |-> NoVal]
    /\ result = [o \in Requests |-> NoVal]
    /\ order = [k \in Keys |-> <<>>]

-----------------------------------------------------------------------------
(***************************************************************************)
(* l2_proxy                                                                *)
(***************************************************************************)

(***************************************************************************)
(* async_operation: the head of the column numbers the request and sends   *)
(* it down the chain of the worker that serves its label.                  *)
(***************************************************************************)
Submit(o) ==
    LET w == WorkerOf[label[o]]
        n == chain_seq_no_[w] + 1
    IN  /\ o \in config.Sent /\ progress[o] = "idle"
        /\ progress' = [progress EXCEPT ![o] = "submitted"]
        /\ chain_seq_no_' = [chain_seq_no_ EXCEPT ![w] = n]
        /\ chain' = [chain EXCEPT ![w] = Append(@, [req |-> o, label |-> label[o], seq |-> n])]
        /\ UNCHANGED <<running, cache, l3request, l3Vars, acked, kv, label, seen, result, order>>

(***************************************************************************)
(* run_command at the tail.  populate_replica_updates sets the bit of      *)
(* every replica, and no code of L2 clears one: an entry of the cache is   *)
(* its value.                                                              *)
(***************************************************************************)
RunCommand(w) ==
    LET op == Head(chain[w])
        k == op.label[1]
    IN  /\ running[w] = <<>>
        /\ chain[w] # <<>>
        /\ chain' = [chain EXCEPT ![w] = Tail(@)]
        /\ running' = [running EXCEPT ![w] = <<op>>]
        /\ progress' = [progress EXCEPT ![op.req] = "run"]
        /\ IF op.req \in Puts
           THEN /\ cache' = IF UpdateCacheEnabled THEN [cache EXCEPT ![k] = op.req] ELSE cache
                /\ order' = [order EXCEPT ![k] = Append(@, op.req)]
           ELSE UNCHANGED <<cache, order>>
        /\ UNCHANGED <<chain_seq_no_, l3request, l3Vars, acked, kv, label, seen, result>>

(***************************************************************************)
(* The value forward_request sends along: whatever put is in the cache     *)
(* (check_for_update_immutable), or else the request's own.                *)
(***************************************************************************)

\* Mutant of Update: the cache is not consulted.
Update_OwnValue(op) == IF op.req \in Puts THEN op.req ELSE NoVal

Update(op) ==
    IF UpdateCacheEnabled THEN cache[op.label[1]]
    ELSE IF op.req \in Puts THEN op.req ELSE NoVal

(***************************************************************************)
(* replication_complete, that is forward_request: between run_command and  *)
(* this step another worker of the tail may have changed the cache.        *)
(***************************************************************************)
ForwardRequest(w) ==
    LET op == Head(running[w])
        s == ServerOf[op.label]
    IN  /\ running[w] # <<>>
        /\ running' = [running EXCEPT ![w] = <<>>]
        /\ l3request' = [l3request EXCEPT ![w][s] =
                            Append(@, [req |-> op.req, label |-> op.label, seq |-> op.seq,
                                       value |-> Update(op), plaintext |-> NoVal])]
        /\ progress' = [progress EXCEPT ![op.req] = "forwarded"]
        /\ seen' = [seen EXCEPT ![op.req] =
                       IF cache[op.label[1]] = NoVal THEN InitVal ELSE cache[op.label[1]]]
        /\ UNCHANGED <<chain_seq_no_, chain, cache, l3Vars, acked, kv, label, result, order>>

-----------------------------------------------------------------------------
(***************************************************************************)
(* l3_proxy and redis_interface                                            *)
(***************************************************************************)

(***************************************************************************)
(* async_get flushes its queue as soon as it holds storage_batch_size_.    *)
(***************************************************************************)

\* Mutant of Full: the queue is flushed one request late.
Full_OffByOne(q) == Len(q) > StorageBatchSize

Full(q) == Len(q) >= StorageBatchSize

(***************************************************************************)
(* async_operation: a request that is not newer than the last one of its   *)
(* L2 worker is dropped; async_get queues the others and flushes a full    *)
(* queue as one MGET.                                                      *)
(***************************************************************************)
AsyncOperation(s, w) ==
    LET op == Head(l3request[w][s])
        q == Append(get_queue[s], op)
    IN  /\ l3request[w][s] # <<>>
        /\ l3request' = [l3request EXCEPT ![w][s] = Tail(@)]
        /\ IF op.seq <= last_seen_seq_[s][w]
           THEN UNCHANGED <<last_seen_seq_, get_queue, mgets>>
           ELSE /\ last_seen_seq_' = [last_seen_seq_ EXCEPT ![s][w] = op.seq]
                /\ get_queue' = [get_queue EXCEPT ![s] = IF Full(q) THEN <<>> ELSE q]
                /\ mgets' = IF Full(q) THEN [mgets EXCEPT ![s] = Append(@, q)] ELSE mgets
        /\ UNCHANGED <<l2Vars, crypto_queue_, msets, msetReplies, respond_queue_, ack_queues_,
                       acked, kv, histVars>>

(***************************************************************************)
(* The store executes an MGET, and get_cb puts its reply on crypto_queue_. *)
(***************************************************************************)
KvGet(s) ==
    LET ops == Head(mgets[s])
    IN  /\ mgets[s] # <<>>
        /\ mgets' = [mgets EXCEPT ![s] = Tail(@)]
        /\ crypto_queue_' = [crypto_queue_ EXCEPT ![s] =
              Append(@, [i \in DOMAIN ops |-> [op |-> ops[i], kv_response |-> kv[ops[i].label]]])]
        /\ UNCHANGED <<l2Vars, l3request, last_seen_seq_, get_queue, msets, msetReplies,
                       respond_queue_, ack_queues_, acked, kv, histVars>>

(***************************************************************************)
(* crypto_thread decrypts what was read, replaces it by the value that     *)
(* came with the operation, if any, and writes it back.  A batch is no     *)
(* longer than storage_batch_size_: it is sent as one MSET.                *)
(***************************************************************************)

\* Mutant of Plaintext: what was read is written back unchanged.
Plaintext_AsRead(c) == decrypt(c.kv_response)

Plaintext(c) == IF c.op.value # NoVal THEN c.op.value ELSE decrypt(c.kv_response)

CryptoThread(s) ==
    LET batch == Head(crypto_queue_[s])
    IN  /\ crypto_queue_[s] # <<>>
        /\ crypto_queue_' = [crypto_queue_ EXCEPT ![s] = Tail(@)]
        /\ msets' = [msets EXCEPT ![s] =
              Append(@, [i \in DOMAIN batch |->
                            [batch[i].op EXCEPT !.plaintext = Plaintext(batch[i])]])]
        /\ UNCHANGED <<l2Vars, l3request, last_seen_seq_, get_queue, mgets, msetReplies,
                       respond_queue_, ack_queues_, acked, kv, histVars>>

(***************************************************************************)
(* The store executes an MSET: of two values for a label the last counts.  *)
(***************************************************************************)
KvSet(s) ==
    LET ops == Head(msets[s])
        last(l) == CHOOSE i \in DOMAIN ops :
                      ops[i].label = l /\ \A j \in DOMAIN ops : ops[j].label = l => j <= i
    IN  /\ msets[s] # <<>>
        /\ msets' = [msets EXCEPT ![s] = Tail(@)]
        /\ kv' = [l \in Labels |-> IF \E i \in DOMAIN ops : ops[i].label = l
                                   THEN encrypt(ops[last(l)].plaintext) ELSE kv[l]]
        /\ msetReplies' = [msetReplies EXCEPT ![s] = Append(@, ops)]
        /\ UNCHANGED <<l2Vars, l3request, last_seen_seq_, get_queue, mgets, crypto_queue_,
                       respond_queue_, ack_queues_, acked, histVars>>

(***************************************************************************)
(* put_cb: the answers to real requests are queued, and every operation is *)
(* acked to the L2 worker it came from, in full batches.                   *)
(***************************************************************************)

\* The operations at the positions I of a batch, in the order of the batch.
At(ops, I) ==
    [n \in 1..Cardinality(I) |-> ops[CHOOSE i \in I : Cardinality({j \in I : j < i}) = n - 1]]

PutCallback(s) ==
    LET ops == Head(msetReplies[s])
        From(w) == At(ops, {i \in DOMAIN ops : WorkerOf[ops[i].label] = w})
        Queue(w) == ack_queues_[s][w] \o From(w)
        Flushed(w) == AckBatchSize * (Len(Queue(w)) \div AckBatchSize)
    IN  /\ msetReplies[s] # <<>>
        /\ msetReplies' = [msetReplies EXCEPT ![s] = Tail(@)]
        /\ respond_queue_' = [respond_queue_ EXCEPT ![s] =
              @ \o At(ops, {i \in DOMAIN ops : ops[i].req \notin Fakes})]
        /\ ack_queues_' = [ack_queues_ EXCEPT ![s] =
              [w \in Workers |-> SubSeq(Queue(w), Flushed(w) + 1, Len(Queue(w)))]]
        /\ acked' = [w \in Workers |->
              acked[w] \cup {op.req : op \in Range(SubSeq(Queue(w), 1, Flushed(w)))}]
        /\ UNCHANGED <<l2Vars, l3request, last_seen_seq_, get_queue, mgets, crypto_queue_,
                       msets, kv, histVars>>

(***************************************************************************)
(* responder_thread: a get is answered with the plaintext, a put with the  *)
(* empty string.                                                           *)
(***************************************************************************)
ResponderThread(s) ==
    LET op == Head(respond_queue_[s])
    IN  /\ respond_queue_[s] # <<>>
        /\ respond_queue_' = [respond_queue_ EXCEPT ![s] = Tail(@)]
        /\ progress' = [progress EXCEPT ![op.req] = "answered"]
        /\ result' = [result EXCEPT ![op.req] = IF op.req \in Puts THEN NoVal ELSE op.plaintext]
        /\ UNCHANGED <<l2Vars, l3request, last_seen_seq_, get_queue, mgets, crypto_queue_,
                       msets, msetReplies, ack_queues_, acked, kv, label, seen, order>>

-----------------------------------------------------------------------------
Worker(w) == RunCommand(w) \/ ForwardRequest(w)

Server(s) ==
    \/ \E w \in Workers : AsyncOperation(s, w)
    \/ KvGet(s) \/ CryptoThread(s) \/ KvSet(s) \/ PutCallback(s) \/ ResponderThread(s)

Work == (\E w \in Workers : Worker(w)) \/ (\E s \in Servers : Server(s))

Next == ((\E o \in Requests : Submit(o)) \/ Work) /\ UNCHANGED config

Spec == Init /\ [][Next]_vars

(***************************************************************************)
(* The threads of L2 and L3 and the store do not all stop while one has    *)
(* something to do; no client need submit a request.  There are finitely   *)
(* many messages, so this weak form of fairness is enough.                 *)
(***************************************************************************)
Fairness == WF_vars(Work /\ UNCHANGED config)

FairSpec == Spec /\ Fairness

-----------------------------------------------------------------------------
(***************************************************************************)
(* Properties                                                              *)
(***************************************************************************)

(***************************************************************************)
(* The gets and puts the clients send to a column are atomic, although the *)
(* replicas of a key are written one by one and read with a pipeline of    *)
(* MGETs and MSETs.  A put takes effect when the tail enters it in the     *)
(* update cache, a get when forward_request looks at the cache, also when  *)
(* the cache is empty and L3 answers with what it reads from the store.    *)
(***************************************************************************)
Status(o) ==
    IF o \in Gets /\ progress[o] = "run" THEN "invoked"
    ELSE CASE progress[o] = "idle" -> "idle"
           [] progress[o] = "submitted" -> "invoked"
           [] progress[o] \in {"run", "forwarded"} -> "applied"
           [] progress[o] = "answered" -> "answered"

Returned(o) ==
    IF o \in Puts THEN NoVal
    ELSE IF progress[o] = "answered" THEN result[o] ELSE seen[o]

R == INSTANCE Register WITH
        reg    <- [k \in Keys |-> IF cache[k] = NoVal THEN InitVal ELSE cache[k]],
        status <- [o \in Puts \cup Gets |-> Status(o)],
        key    <- [o \in Puts \cup Gets |-> label[o][1]],
        result <- [o \in Puts \cup Gets |-> Returned(o)]

Atomic == R!Spec

(***************************************************************************)
(* The age of a value of key k: its position among the puts of k.          *)
(***************************************************************************)
Age(k, v) ==
    IF v = InitVal THEN 0 ELSE CHOOSE i \in DOMAIN order[k] : order[k][i] = v

(***************************************************************************)
(* A write-back never replaces a value of the store by an older one,       *)
(* although an operation reads a label before it writes it, other          *)
(* operations on the label in between (crypto_thread, flush_put_queue).    *)
(***************************************************************************)
KvNeverGoesBack ==
    [][\A l \in Labels : Age(l[1], decrypt(kv[l])) <= Age(l[1], decrypt(kv[l]))']_vars

(***************************************************************************)
(* A put that was answered to its client or acked to L2 (put_cb) is in the *)
(* store, at the label it was sent to, or was overwritten by a later one.  *)
(***************************************************************************)
AnsweredIsStored ==
    \A p \in Puts :
        progress[p] = "answered" \/ p \in acked[WorkerOf[label[p]]]
            => Age(label[p][1], p) <= Age(label[p][1], decrypt(kv[label[p]]))

(***************************************************************************)
(* Every get and put is answered, unless it waits for ever for an MGET to  *)
(* be full (no timeout flushes get_queues_), which cannot happen with      *)
(* storage_batch_size_ 1.                                                  *)
(***************************************************************************)
WaitsForOthers(o) == \E s \in Servers : \E i \in DOMAIN get_queue[s] : get_queue[s][i].req = o

EveryRequestAnswered ==
    \A o \in Puts \cup Gets :
        progress[o] = "submitted" ~>
            (progress[o] = "answered" \/ [](StorageBatchSize > 1 /\ WaitsForOthers(o)))

==============================================================================
