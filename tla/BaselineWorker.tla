---------------------------- MODULE BaselineWorker ----------------------------
(***************************************************************************)
(* What the workers of the two baseline proxies have in common: their      *)
(* connections to Redis (redis_interface, one for gets and one for puts)   *)
(* and the responder thread.  All workers of a process use one server.     *)
(***************************************************************************)
EXTENDS Redis, BenchmarkClient

VARIABLES
  internal_queue_,   \* per worker: requests that no batch has taken yet
  get_queues_,       \* per worker: gets collected by storage_iface_
  mget, mset,        \* per worker: commands on the two connections, in order
  respond_queue_,    \* per worker
  crashed,           \* an exception has ended a callback thread or a handler
  applied            \* the puts in the order they took effect (no program state)

storageVars == <<get_queues_, mget, mset, respond_queue_, crashed>>

worker_init ==
  /\ internal_queue_ = [w \in Workers |-> <<>>]
  /\ applied = <<>>
  /\ get_queues_ = [w \in Workers |-> <<>>]
  /\ mget = [w \in Workers |-> <<>>] /\ mset = [w \in Workers |-> <<>>]
  /\ respond_queue_ = [w \in Workers |-> <<>>]
  /\ crashed = FALSE

Push(queues, w, x) == [queues EXCEPT ![w] = Append(@, x)]
Pop(queues, w) == [queues EXCEPT ![w] = Tail(@)]

\* redis_interface::async_get: an MGET when the batch is full.
async_get(w, op) ==
  LET queue == Append(get_queues_[w], op)
  IN  IF Len(queue) >= config.storage_batch_size
      THEN mget' = Push(mget, w, queue) /\ get_queues_' = [get_queues_ EXCEPT ![w] = <<>>]
      ELSE get_queues_' = [get_queues_ EXCEPT ![w] = queue] /\ UNCHANGED mget

\* async_put for the operations of a batch, then flush(): one MSET.
async_put_flush(w, batch) == mset' = Push(mset, w, batch)

(***************************************************************************)
(* The server runs an MGET and the reply callback passes operations and    *)
(* values on; a label that is not there is an exception on the thread of   *)
(* the callback.  Commands and replies of a connection keep their order,   *)
(* so the two are one step.                                                *)
(***************************************************************************)
Labels(w) == {Head(mget[w])[n].label : n \in DOMAIN Head(mget[w])}
Replies(w) ==
  [n \in DOMAIN Head(mget[w]) |->
     [op |-> Head(mget[w])[n], kv_response |-> kv[Head(mget[w])[n].label]]]
flush_get_queue_Reply(w, queues) ==
  /\ mget[w] # <<>>
  /\ mget' = Pop(mget, w)
  /\ IF Labels(w) \subseteq DOMAIN kv
     THEN queues' = Push(queues, w, Replies(w)) /\ UNCHANGED crashed
     ELSE crashed' = TRUE /\ UNCHANGED queues

\* responder_thread, through thrift_response_client_map: a client registers
\* with every worker and hears from each on a connection of its own.
responder_thread(w) ==
  /\ respond_queue_[w] # <<>>
  /\ respond_queue_' = Pop(respond_queue_, w)
  /\ responses' = Push(responses, w, Head(respond_queue_[w]))
=============================================================================
