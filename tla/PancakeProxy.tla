----------------------------- MODULE PancakeProxy -----------------------------
(***************************************************************************)
(* p_proxy, the centralized baseline: the work of the three layers in one  *)
(* process, with several workers.  A worker has its own server thread,     *)
(* crypto thread, responder thread and connections; all workers share one  *)
(* update cache, and a client may send any key to any worker, so that two  *)
(* of them can work on one label at the same time.                         *)
(***************************************************************************)
EXTENDS Initializer, BaselineWorker

CONSTANT
  FakeId             \* fake_client_id_ = -1995

VARIABLES
  batch,             \* per worker: the rest of the batch in process_op
  update_cache_,     \* key -> [value, bits]: the replicas whose bit is set
  crypto_queue_      \* per worker

pancakeVars == <<batch, update_cache_, crypto_queue_>>

pancake_init ==
  /\ batch = [w \in Workers |-> <<>>]
  /\ update_cache_ = << >>
  /\ crypto_queue_ = [w \in Workers |-> <<>>]

(***************************************************************************)
(* update_cache.                                                           *)
(***************************************************************************)
populate_replica_updates(k, value, num_replicas) ==
  update_cache_' = Assign(update_cache_, k, [value |-> value, bits |-> 0..(num_replicas - 1)])

check_for_update_immutable(k, replica) ==
  IF k \in DOMAIN update_cache_ /\ replica \in update_cache_[k].bits
  THEN update_cache_[k].value
  ELSE Empty

(***************************************************************************)
(* create_security_batch, for the queue q.  A slot whose coin is true      *)
(* takes the next request of the queue, if there is one; a fake access is  *)
(* drawn from the real distribution if there is none and from the fake one *)
(* for a false coin (keys of weight 0 are never drawn).                    *)
(***************************************************************************)
Support(distribution) == {k \in DOMAIN distribution : distribution[k] > 0}
Replicas(k) == 0..(dinfo.key_to_number_of_replicas[k] - 1)
Access(seq, k, value) ==
  {[seq |-> seq, key |-> k, value |-> value, replica |-> j] : j \in Replicas(k)}
Fake(distribution) == UNION {Access(FakeId, k, Empty) : k \in Support(distribution)}

SecurityBatches(q, coins) ==
  LET trues(s) == Cardinality({t \in 1..s : coins[t]})
      slot(s) == IF ~coins[s] THEN Fake(dinfo.fake_distribution)
                 ELSE IF trues(s) > Len(q) THEN Fake(dinfo.real_distribution)
                 ELSE Access(q[trues(s)].seq, q[trues(s)].key, q[trues(s)].value)
  IN  {b \in [DOMAIN coins -> UNION {slot(s) : s \in DOMAIN coins}] :
         \A s \in DOMAIN coins : b[s] \in slot(s)}

\* async_get and async_put: process_op up to the loop over the batch.
process_op(w) ==
  /\ requests[w] # <<>> /\ batch[w] = <<>>
  /\ LET q == Append(internal_queue_[w], Head(requests[w]))
     IN  \E coins \in [1..config.security_batch_size -> BOOLEAN] :
           LET tossed == Cardinality({s \in DOMAIN coins : coins[s]})
           IN  /\ \E b \in SecurityBatches(q, coins) : batch' = [batch EXCEPT ![w] = b]
               /\ internal_queue_' = [internal_queue_ EXCEPT ![w] = SubSeq(q, tossed + 1, Len(q))]
  /\ requests' = Pop(requests, w)
  /\ UNCHANGED <<update_cache_, crypto_queue_, get_queues_, mget, mset, respond_queue_,
                 crashed, kv, applied, responses>>

\* process_l2 is two calls on the cache, and another worker can come between:
\* the value of a put goes to the cache ...
process_l2_Populate(w) ==
  /\ batch[w] # <<>>
  /\ LET op == Head(batch[w])
     IN  /\ op.value # Empty /\ "populated" \notin DOMAIN op
         /\ populate_replica_updates(op.key, op.value, dinfo.key_to_number_of_replicas[op.key])
         /\ batch' = [batch EXCEPT ![w][1] = Assign(op, "populated", TRUE)]
         /\ applied' = Append(applied, [key |-> op.key, value |-> op.value])
  /\ UNCHANGED <<internal_queue_, crypto_queue_, get_queues_, mget, mset, respond_queue_,
                 crashed, kv, requests, responses>>

\* ... and what the cache has for the replica goes along with the get.
GetWithUpdate(w, op) ==
  /\ op.value = Empty \/ "populated" \in DOMAIN op
  /\ IF Replica(op.key, op.replica) \in DOMAIN dinfo.replica_to_label
     THEN /\ async_get(w, [seq |-> op.seq,
                           label |-> to_string(dinfo.replica_to_label[Replica(op.key, op.replica)]),
                           value |-> check_for_update_immutable(op.key, op.replica),
                           is_read |-> op.value = Empty])
          /\ UNCHANGED crashed
     ELSE crashed' = TRUE /\ UNCHANGED <<get_queues_, mget>>
  /\ batch' = Pop(batch, w)
  /\ UNCHANGED <<internal_queue_, crypto_queue_, mset, respond_queue_, kv, applied,
                 requests, responses>>

\* Mutant: check_for_update, which clears the bit of the replica.
process_l2_Clear(w) ==
  /\ batch[w] # <<>>
  /\ GetWithUpdate(w, Head(batch[w]))
  /\ update_cache_' = [k \in DOMAIN update_cache_ |->
       IF k = Head(batch[w]).key
       THEN [update_cache_[k] EXCEPT !.bits = @ \ {Head(batch[w]).replica}]
       ELSE update_cache_[k]]

process_l2(w) ==
  /\ batch[w] # <<>>
  /\ GetWithUpdate(w, Head(batch[w]))
  /\ UNCHANGED update_cache_

\* get_cb of storage_iface_.
p_get_cb(w) ==
  /\ flush_get_queue_Reply(w, crypto_queue_)
  /\ UNCHANGED <<internal_queue_, batch, update_cache_, get_queues_, mset, respond_queue_,
                 kv, applied, requests, responses>>

\* crypto_thread: a batch is decrypted, updated, encrypted and written back.
WriteBack(w, plaintext(_)) ==
  /\ crypto_queue_[w] # <<>>
  /\ crypto_queue_' = Pop(crypto_queue_, w)
  /\ async_put_flush(w, [n \in DOMAIN Head(crypto_queue_[w]) |->
       Assign(Head(crypto_queue_[w])[n].op, "plaintext", plaintext(Head(crypto_queue_[w])[n]))])
  /\ UNCHANGED <<internal_queue_, batch, update_cache_, get_queues_, mget, respond_queue_,
                 crashed, kv, applied, requests, responses>>

crypto_thread(w) ==
  WriteBack(w, LAMBDA c : IF c.op.value # Empty THEN c.op.value ELSE c.kv_response)

\* The server runs an MSET, and put_cb answers what is not fake.
Answers(ops) ==
  LET real == SelectSeq(ops, LAMBDA op : op.seq # FakeId)
  IN  [n \in DOMAIN real |-> [seq |-> real[n].seq,
                              value |-> IF real[n].is_read THEN real[n].plaintext ELSE Empty]]
p_put_cb(w) ==
  /\ mset[w] # <<>>
  /\ kv' = MSet(kv, Head(mset[w]))
  /\ mset' = Pop(mset, w)
  /\ respond_queue_' = [respond_queue_ EXCEPT ![w] = @ \o Answers(Head(mset[w]))]
  /\ UNCHANGED <<internal_queue_, batch, update_cache_, crypto_queue_, get_queues_, mget,
                 crashed, applied, requests, responses>>

p_responder_thread(w) ==
  /\ responder_thread(w)
  /\ UNCHANGED <<pancakeVars, internal_queue_, get_queues_, mget, mset, crashed, kv, applied, requests>>

Pancake ==
  \E w \in Workers : \/ process_op(w) \/ process_l2_Populate(w) \/ process_l2(w)
                     \/ p_get_cb(w) \/ crypto_thread(w) \/ p_put_cb(w) \/ p_responder_thread(w)
=============================================================================
