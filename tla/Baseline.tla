------------------------------- MODULE Baseline -------------------------------
(***************************************************************************)
(* The baselines as they are run: `proxy_server init` fills the store and  *)
(* writes the distribution file, then one process of pancake_proxy with    *)
(* several workers serves a pancake_benchmark client that replays the same *)
(* trace; or redis_benchmark -i fills the store and a process of enc_proxy *)
(* serves the client.                                                      *)
(***************************************************************************)
EXTENDS PancakeProxy, EncProxy

CONSTANT
  Configs            \* the command lines; each is a record
                     \* [mode, trace, workers, storage_batch_size,
                     \*  security_batch_size, queue_depth, max_requests]

clientRest == <<config, loopVars, response_queue_, done_, reading, answers>>
initRest == <<trace, keys, step, createVars, dinfo>>
encVars == <<rwq, decrypt_queue_>>
vars == <<clientVars, initRest, kv, internal_queue_, storageVars, applied, pancakeVars, encVars>>

Init ==
  /\ config \in Configs
  /\ initializer_init /\ trace = config.trace
  /\ client_init /\ worker_init /\ pancake_init /\ enc_init
  /\ IF config.mode = "pancake" THEN kv = << >> ELSE init_idx(KeysOf(trace))

Serving == config.mode = "enc" \/ dinfo.written

Next ==
  \/ /\ config.mode = "pancake"
     /\ InitMain
     /\ UNCHANGED <<clientVars, internal_queue_, storageVars, applied, pancakeVars, encVars>>
  \/ /\ Serving
     /\ Client(trace)
     /\ UNCHANGED <<initRest, kv, internal_queue_, storageVars, applied, pancakeVars, encVars>>
  \/ /\ config.mode = "pancake" /\ Serving
     /\ Pancake
     /\ UNCHANGED <<initRest, clientRest, encVars>>
  \/ /\ config.mode = "enc"
     /\ Enc
     /\ UNCHANGED <<initRest, clientRest, pancakeVars>>

Spec == Init /\ [][Next]_vars

---------------------------------------------------------------------------
(***************************************************************************)
(* Properties.                                                             *)
(***************************************************************************)
SeqNos == 0..(sequence_num_ - 1)

\* No lookup fails: every key that is drawn has replicas, every replica a
\* label and every label a value.  process_l2 and the callback of MGET throw
\* otherwise, and nobody catches it.
NoLookupFails == ~crashed

\* Whenever the semaphore of encrypt_queue_ has let the encrypt thread
\* through, try_dequeue finds an element, in whichever block the producer has
\* put it (wait_dequeue asserts it).
DequeueFinds == \A w \in Workers : rwq[w].consumer # "failed"

Puts(k) == SelectSeq(applied, LAMBDA p : p.key = k)
\* The age of a value of k: 0 for the first one, n for that of the n-th put.
Age(k, value) ==
  IF value = Initial THEN 0 ELSE CHOOSE n \in DOMAIN Puts(k) : Puts(k)[n].value = value
Gets == {a \in answers : sent[a.seq + 1].value = Empty}

\* The store behaves like one copy per key: a get never returns a value older
\* than a put that was answered before the get was sent, nor older than what
\* an earlier get has returned; although two pancake workers may read and
\* write back one label at the same time, so that an old value can overwrite
\* a new one in the store.
ReadsAreFresh ==
  \A g \in Gets :
    LET k == sent[g.seq + 1].key
        seen(r) == IF sent[r + 1].value # Empty THEN sent[r + 1].value
                   ELSE (CHOOSE a \in answers : a.seq = r).value
    IN  /\ g.value = Initial \/ \E n \in DOMAIN Puts(k) : Puts(k)[n].value = g.value
        /\ \A r \in before[g.seq + 1] :
             sent[r + 1].key = k => Age(k, seen(r)) <= Age(k, g.value)

\* The window of run_benchmark: while it polls, exactly queue_depth requests
\* of the current call are without an answer.  An answer that is given twice,
\* or one of an earlier call that is not recognised as stale, would make it
\* grow.
ClosedLoop ==
  phase <= PHASES /\ unsent = 0 =>
    Cardinality((smallest_seq..(sequence_num_ - 1)) \ polled) = config.queue_depth

\* The puts that a single enc worker gets take effect in the order in which
\* they were sent, none twice and none left out: internal_queue_, the blocks
\* of encrypt_queue_ and the connection keep it.
PutsInOrder ==
  LET puts == SelectSeq(sent, LAMBDA r : r.value # Empty)
  IN  config.mode = "enc" /\ Cardinality(Workers) = 1 =>
        /\ Len(applied) <= Len(puts)
        /\ \A n \in DOMAIN applied : applied[n].value = puts[n].value

\* Nothing is under way in the proxies, and their threads wait.
Quiet ==
  /\ Serving
  /\ \A w \in Workers :
       /\ requests[w] = <<>> /\ responses[w] = <<>> /\ batch[w] = <<>>
       /\ mget[w] = <<>> /\ mset[w] = <<>> /\ respond_queue_[w] = <<>>
       /\ crypto_queue_[w] = <<>> /\ decrypt_queue_[w] = <<>>
       /\ rwq[w].producer = "idle" /\ rwq[w].m_sema = 0
       /\ config.mode = "enc" => rwq[w].consumer = "asleep"

\* Requests that wait for others to fill their batch.
Waiting ==
  UNION {{q[w][n].seq : n \in DOMAIN q[w]} : q \in {internal_queue_, get_queues_}, w \in Workers}

\* Nothing gets lost: when nothing is under way, every request is answered,
\* unless it waits in internal_queue_ or get_queues_ for a batch to fill up.
\* In particular the encrypt thread does not sleep on a queue that holds a
\* batch.
SettledAnswered ==
  Quiet => SeqNos = {a.seq : a \in answers} \cup (Waiting \ {FakeId})
=============================================================================
