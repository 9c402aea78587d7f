------------------------------- MODULE EncProxy -------------------------------
(***************************************************************************)
(* enc_proxy, the encryption-only baseline: keys are stored under their    *)
(* own names, a get is an MGET and a put an MSET.  Puts are collected,     *)
(* handed to the encrypt thread through encrypt_queue_ and sent on the     *)
(* second connection; gets go out on the first one, and what they return   *)
(* goes through the decrypt thread.                                        *)
(***************************************************************************)
EXTENDS BaselineWorker, ReaderWriterQueue

VARIABLE
  decrypt_queue_     \* per worker; as a plain queue

enc_init ==
  /\ rwq = [w \in Workers |-> NewQueue]
  /\ decrypt_queue_ = [w \in Workers |-> <<>>]

\* redis_benchmark -i, init_idx: every key of the trace is stored.
init_idx(keys_of_trace) == kv = [k \in keys_of_trace |-> Initial]

\* The server thread is free when it is not inside encrypt_queue_->enqueue.
enc_process_op_Put(w) ==
  /\ requests[w] # <<>> /\ rwq[w].producer = "idle"
  /\ Head(requests[w]).value # Empty
  /\ LET r == Head(requests[w])
         q == Append(internal_queue_[w], [seq |-> r.seq, label |-> r.key, value |-> r.value])
     IN  IF Len(q) >= config.storage_batch_size
         THEN /\ rwq' = [rwq EXCEPT ![w] = enqueue(@, q)]
              /\ internal_queue_' = [internal_queue_ EXCEPT ![w] = <<>>]
         ELSE /\ internal_queue_' = [internal_queue_ EXCEPT ![w] = q]
              /\ UNCHANGED rwq
  /\ requests' = Pop(requests, w)
  /\ UNCHANGED <<decrypt_queue_, storageVars, kv, applied, responses>>

enc_process_op_Get(w) ==
  /\ requests[w] # <<>> /\ rwq[w].producer = "idle"
  /\ Head(requests[w]).value = Empty
  /\ async_get(w, [seq |-> Head(requests[w]).seq, label |-> Head(requests[w]).key])
  /\ requests' = Pop(requests, w)
  /\ UNCHANGED <<rwq, decrypt_queue_, internal_queue_, mset, respond_queue_, crashed, kv,
                 applied, responses>>

encrypt_queue_Step(w) ==
  /\ QueueStep(w)
  /\ UNCHANGED <<decrypt_queue_, internal_queue_, storageVars, kv, applied, requests, responses>>

encrypt_thread(w) ==
  /\ rwq[w].consumer = "returned"
  /\ rwq' = [rwq EXCEPT ![w].consumer = "idle", ![w].result = Raw]
  /\ async_put_flush(w, [n \in DOMAIN rwq[w].result |->
                           [seq |-> rwq[w].result[n].seq, label |-> rwq[w].result[n].label,
                            plaintext |-> rwq[w].result[n].value]])
  /\ UNCHANGED <<decrypt_queue_, internal_queue_, get_queues_, mget, respond_queue_, crashed,
                 kv, applied, requests, responses>>

enc_get_cb(w) ==
  /\ flush_get_queue_Reply(w, decrypt_queue_)
  /\ UNCHANGED <<rwq, internal_queue_, get_queues_, mset, respond_queue_, kv, applied,
                 requests, responses>>

decrypt_thread(w) ==
  /\ decrypt_queue_[w] # <<>>
  /\ decrypt_queue_' = Pop(decrypt_queue_, w)
  /\ respond_queue_' = [respond_queue_ EXCEPT ![w] = @ \o
       [n \in DOMAIN Head(decrypt_queue_[w]) |->
          [seq |-> Head(decrypt_queue_[w])[n].op.seq,
           value |-> Head(decrypt_queue_[w])[n].kv_response]]]
  /\ UNCHANGED <<rwq, internal_queue_, get_queues_, mget, mset, crashed, kv, applied,
                 requests, responses>>

\* The server runs an MSET, and put_cb answers all its operations.
enc_put_cb(w) ==
  /\ mset[w] # <<>>
  /\ kv' = MSet(kv, Head(mset[w]))
  /\ mset' = Pop(mset, w)
  /\ respond_queue_' = [respond_queue_ EXCEPT ![w] = @ \o
       [n \in DOMAIN Head(mset[w]) |-> [seq |-> Head(mset[w])[n].seq, value |-> Empty]]]
  /\ applied' = applied \o [n \in DOMAIN Head(mset[w]) |->
       [key |-> Head(mset[w])[n].label, value |-> Head(mset[w])[n].plaintext]]
  /\ UNCHANGED <<rwq, decrypt_queue_, internal_queue_, get_queues_, mget, crashed, requests,
                 responses>>

enc_responder_thread(w) ==
  /\ responder_thread(w)
  /\ UNCHANGED <<rwq, decrypt_queue_, internal_queue_, get_queues_, mget, mset, crashed, kv,
                 applied, requests>>

Enc ==
  \E w \in Workers : \/ enc_process_op_Put(w) \/ enc_process_op_Get(w)
                     \/ encrypt_queue_Step(w) \/ encrypt_thread(w)
                     \/ enc_get_cb(w) \/ decrypt_thread(w) \/ enc_put_cb(w)
                     \/ enc_responder_thread(w)
=============================================================================
