# A TLA+ model of Shortstack

Shortstack is an oblivious proxy between clients and a key-value store. This
directory models its replication, its request path, the repair of both after a
failure, the services its processes talk through, how a deployment is connected,
the initializer, and the two baselines it is compared with. TLC checks the
models on small instances; TLAPS proves for every instance the safety of the chain
replication and of its repair, that the L1 head sends client requests in their order
and once, that nothing is lost, run twice or forgotten too early between two
layers (but for requests of the dummy key that are sent again), that the requests of the clients are atomic on their way through L2, L3 and
the store, that a failing L3 server loses nothing L2 has forgotten, and the
correctness of the initializer.

## The system

A client request passes three layers, each split into columns (one column per
share of the work) and each column into workers (one proxy object with a
single-threaded thrift server each, so the handlers of a worker never overlap).

| Part | State | Operations |
|---|---|---|
| L1 head (`l1_proxy`) | `internal_queue_` | `async_get`, `async_put` and their batch forms → `process_op` → `create_security_batch` → `chain_request` |
| chain of an L1 or L2 column (`chain_module`) | `role_`, `chain_seq_no_`, `pending_`, `ack_queue_`, `next_`, `prev_` | `setup`, `chain_request`, `ack`, `ack_batch`, `resend_pending`, `fetch_seq`; the thread `response_processor_` |
| L1 tail | `pending_count_`, connections to L2 heads | `replication_complete`, `external_ack`, `ack_callback`, `update_connections` |
| L2 head | `last_seen_seq_` per L1 worker | `async_operation`, `ack_callback` |
| L2 tail | update cache (shared by the workers of the process), connections to L3 | `run_command`, `forward_request`, `external_ack`, `update_connections`, `selective_resend_pending` |
| L3 (`l3_proxy`, not replicated) | `last_seen_seq_` per L2 worker, the queues of its pipeline | `async_operation`, `get_cb`, `crypto_thread`, `put_cb`, `responder_thread` |
| store access (`redis_interface`) | one GET and one PUT queue per store | `async_get`, `async_put`, `flush` |
| services | connections, the registry of clients | the methods of five thrift services, with their stubs, processors and handlers |
| manager (`proxy_manager`) | static host table | `setup_reverse_connections`, `fail_node`, `fail_host` |
| initializer | replica counts, labels, the fake distribution | `create_replicas`, `insert_replicas`, `dump` |
| baselines (`p_proxy`, `enc_proxy`) | their queues, `update_cache_` | `process_op`, their threads and callbacks |
| client (`pancake_client`, `pancake_benchmark`) | the window of requests | `run_benchmark`, `response_thread` |

Requests go L1 → L2 → L3 → store; L3 answers the client itself. Acks go back
L3 → L2 tail → along the chain → L2 head → L1 tail → along the chain → L1 head,
and let every replica forget the request. A baseline is one process between a
client and the store: `p_proxy` hides accesses as L1 to L3 do together,
`enc_proxy` only encrypts.

What is hard here: the manager repairs a column with several RPCs while requests
keep flowing; the kill is a oneway message, so the failed process may live on
during its own repair; duplicates are recognised by a high-water mark only; an
access is a read and a later write of the same label, pipelined; acks are counted
or batched at four places; replies, answers and acks are written to the same
connections by different threads; and a lock-free queue connects two threads.
PROJECT.json lists these hazards line by line with the properties that watch them.

## The modules

| Module | Models | One action is |
|---|---|---|
| `ChainModule` | one worker's chain of `N` replicas, and the L1 and L2 branches of `fail_node` | one handler, one ack read by `response_processor_`, one RPC of the manager |
| `Forwarding` | the hop from a chain's tail to the workers of the next layer: batches, duplicate check, acks, failure of either side | the same |
| `StoragePath` | an L2 tail, the update cache, the L3 pipeline and the store | one handler, or one item taken by one thread or by the store |
| `Register` | no code: an atomic register, what gets and puts should look like | |
| `L3Failover` | failure of an L3 server: connections removed, labels moved, requests resent | one handler, thread step or manager RPC |
| `SecurityBatch` | the L1 head's queue and batches | `Rpc` starts a client call, `ProcessOp` is one `process_op` with its coins |
| `ThriftServices` | of every method of the five services: the layout of its structures with their `write` and `read`, its client stub, its processor function; `dispatchCall`; `l2_operation` on the wire | (operators) |
| `Worker` | a worker of any kind with its connections: peers that call, the server and its IO thread, the responder, acks to the predecessor | one frame sent, handled, written or read |
| `Deployment` | host table, start of all processes, their connections, and the manager's plans | one process started, one RPC of the manager, one kill that arrives |
| `Initializer` | `proxy_server init` | one iteration of the loops of `create_replicas` and `insert_replicas` |
| `Redis` | the store, and `put_batch` | (operators) |
| `ReaderWriterQueue` | `BlockingReaderWriterQueue`: blocks, their indices and cached copies, the semaphore | one access to shared memory |
| `BenchmarkClient` | `run_benchmark` and `pancake_client` with its response threads | a submit, a poll, one answer read |
| `BaselineWorker` | what the workers of both baselines share: the connections to Redis, the responder | (operators) |
| `PancakeProxy`, `EncProxy` | the baselines | one handler, one item taken by one thread, one reply of the store |
| `Baseline` | composition: initializer, client, and the workers of one baseline | a step of one of them |
| `ChainModuleProofs`, `ChainRepairProofs` | the proofs about `ChainModule` | |
| `SecurityBatchProofs` | the proofs about `SecurityBatch` | |
| `ForwardingProofs` | the proofs about `Forwarding` | |
| `StorageStepProofs`, `StoragePathProofs` | the proofs about `StoragePath` | |
| `L3FailoverProofs` | the proofs about `L3Failover` | |
| `InitializerProofs` | the proofs about `Initializer` | |
| `MC*` | symmetry sets, constant functions and configurations for TLC | |

Variables keep the names of the code (`chain_seq_no_`, `pending_`,
`last_seen_seq_`, ...); variables without an underscore are connections, the
environment or history. PROJECT.json maps each definition to its source lines.

`Baseline` composes its components in full. The modules of the layers take their
neighbours at the interface the other modules establish: `StoragePath` and
`Forwarding` take a chain to be the FIFO log that `LogOrder` describes;
`L3Failover` takes an L3 server to execute what it has accepted in order, as
`StoragePath` spells out; all of them take a call to arrive as it was made, once
and in order, which is `HandledAsSent` of `Worker`, and connections to lead where
`RequestPath` of `Deployment` says.

Abstractions that matter:

* A command, key, value or label is a model value; a ciphertext is a record
  around its plaintext. In `Initializer` keys are sequences, because the name of a
  replica is the key followed by a decimal number.
* A thrift connection is a FIFO of frames. What is written to a dead process is
  lost. What was written to a connection that is closed is delivered or lost
  (`LossyClose`).
* In `ChainModule` the writes of an ack may throw. In `response_processor_` the
  generated processor catches the exception, so its loop goes on, but of the ack
  batch being handled nothing more is (`Skipped`).
* In `Forwarding` the death of an L2 head and `setup_chain` on its successor are
  one step (`ChainModule` has their interleavings); what the successor still
  receives in between is a nondeterministic prefix. A key hashes to one receiver
  (`route`); the dummy key (`Any`) has none of its own, since `send_op` draws a
  column for it at every sending, a repeated one included (`l2_interface.cpp:56-58`).
  Acks therefore say who sent them.
* In `L3Failover` an L3 process is one worker, and `L3_NUM_CORES` (16) is the
  constant `NumCores`. As in the code, all columns of a host are removed though
  one process has died. `erase` beyond the last column is undefined and excluded
  by the guard of `FailNode`; of `JumpConsistentHash` only its contract is kept.
* The bit vectors of the update cache are left out: the code only uses
  `populate_replica_updates`, which sets all bits, and the immutable look-up.
* `Worker` sends one representative argument where the argument does not matter
  (`AKey`), and all strings, the in-band mark `$ts$` included, where it does. An
  `async_proxy_client` reads once for every entry of `requests_`, one per call;
  a receive timeout uses an entry up.
* In `Deployment` a connection is the worker it leads to, except along a chain, where
  it is the worker that opened it and the number of the connection (`opened`,
  `prev_`): `setup` opens a new one even to the same successor. The manager reads
  nothing but the host table, so what it will do is fixed when it starts: `todo`
  is a sequence of sets of calls, the calls of a set being made by threads that
  are joined. The sleeps of the scripts are taken to be long enough.
* `Initializer` keeps probabilities as integers in units of 1/(nF), n keys and F
  lines of trace. `ceil` of the floating-point quotient may come out one too
  large where the quotient is a whole number above one, as it does for
  (5.0/6)/(1.0/6); both outcomes are explored.
* In `ReaderWriterQueue` a step is one access to a variable the other thread
  writes, in program order, which the fences of `readerwriterqueue.h` are for. The
  multi-producer queue of `p_proxy` and the queues under a lock are FIFOs.
* One host and one Redis server for the baselines.

## The runs

| Run | Question | Result |
|---|---|---|
| `chain_failover` | up to two failures in a chain of three: `TypeOK`, `ChainInv`, `LogOrder`, `PendingCovers`, `AckedIsDurable`; after one behind the head `SettledAgree` and `Replicates`; without one `AcksReturn` | hold |
| `chain_head_settled` | `SurvivorsAgree` after the failure of an L2 head | **violated** |
| `storage` | `Atomic` (refinement of `Register`), `KvNeverGoesBack`, `AnsweredIsStored`, `EveryRequestAnswered`, one by one with two L3 workers and in batches of two with one | hold |
| `forward` | `AtMostOnce`, `BatchAckedIsDurable`, `SettledDelivered`, `EveryBatchAcked`; L1 tail or L2 head fails, quiet repair, with and without a request for the dummy key | hold |
| `forward_window` | `SettledDelivered` when the tail fails and traffic goes on | **violated** |
| `l3_failover` | `TypeOK`, `ForgottenIsStored`, `EveryRequestStored` | hold |
| `l3_double_ack` | `AckedBatchStored` | **violated** |
| `l3_answers` | `EveryClientAnswered` | **violated** |
| `security_batches` | `FifoOnce`, `NobodyWaits`, `OnlyItsOwnRpc`, with and without `-f`, with keys that throw | hold |
| `worker` | `HandledAsSent`, `OwnReply`, `NoTornWrite`, `OnlyOwnAnswers`, `SettledAnswered`, and no deadlock, for each kind of worker with each pair of peers | hold |
| `deployment` | `StartsClean`, `RequestPath`, `AckRoute`, `ResendsReachLive`, `ManagerCompletes` | hold |
| `baseline` | `Smooth`, `Resolvable`, `NoLookupFails`, `DequeueFinds`, `ReadsAreFresh`, `ClosedLoop`, `PutsInOrder`, `SettledAnswered` | hold |

Some properties promise less than one would wish, because the code does:

* `AcksReturn` and `EveryBatchAcked` promise nothing once a process has failed, and
  `AckRoute` excludes ends that have failed and a promoted L2 head. `fail_node`
  repairs the way of the requests (`RequestPath`) and not that of the acks: a
  promoted L2 head has no connections to L1, a new tail is announced to nobody,
  `prev_` of the successor of a failed replica keeps pointing to it, and that of
  the successor of a promoted L2 head to the connection `setup` has closed, so
  that `pending_` there never drains.
* `AcksReturn` leaves out acks in an `ack_queue_` that holds less than a batch:
  nothing flushes it.
* `SettledDelivered` leaves out requests for the dummy key. One that is sent again
  may go to a column that has run a later request, which takes it for a duplicate.
* `BatchAckedIsDurable` excepts a batch in which a request for the dummy key was acked
  by two columns (`AckedTwice`): `pending_count_` takes the second ack for that of
  another request. TLC finds a counterexample to either property without its
  exception.
* `SettledAnswered` of `Worker` says that every request is answered on its client's
  connection. An `async_proxy_client` may leave answers unread, but only after a
  batch call (one entry, several answers) or a timeout.
* `Resolvable` lets replicas with equal names share a label. `key + to_string(i)`
  has no separator, so with eleven replicas of key 1 and a key 11 names collide
  and the code does not notice.
* `RequestPath` excludes the failure of the first replica of an L1 column, for
  which `fail_node` does nothing but the kill.
* `EveryRequestAnswered` and `SettledAnswered` of `Baseline` leave out requests
  that wait for a batch to fill up: no timer flushes the queues.
* `SettledAgree`, `RequestPath` and `ManagerCompletes` allow one failure. The manager
  connects to every process of the host table when it starts, so once a process is
  gone it cannot repair another failure.
* `ReadsAreFresh` holds although two workers of `p_proxy` can read and write back
  one label at the same time and so put an old value into the store: a get finds
  the newer value in the update cache, whose entries are never cleared. (The comment at
  `p_proxy.cpp:351` speaks of `check_for_update`, which would clear them; with it
  the property fails. That is its mutant.)

### What the violated runs show

* `chain_head_settled`: `setup_chain` on a new L2 head reopens the connection to
  its unchanged successor. A request on the new connection can be handled before
  one that is still on the old connection; it is refused as out of order and
  nothing sends it again.
* `forward_window`: requests forwarded between `setup_chain` and
  `resend_pending` raise the receiver's high-water mark, and the resent ones are
  dropped as duplicates although they were never run. `forward` assumes
  `QuietRepair`: no command reaches a tail during a repair. The code does not
  ensure it, and this run shows that it matters. (With `ReceiverFails` instead of
  `SenderFails` the same happens between `update_connections` and
  `resend_pending` at the L1 tails.)
* `l3_double_ack`: a resent request is executed and acked twice; `external_ack`
  counts acks and frees a batch one of whose requests is not stored.
* `l3_answers`: L3 acks before the answer has left; a failure in between loses
  the answer, and no one will repeat it.

### Bounds

A run with several configurations chooses one of them in `Init` (`config`, or
`kind` and `peer` in `Worker`), so that one run covers them all.

* `ChainModule`: three replicas have a head, a middle and a tail; two failures
  leave a singleton. With two commands one can be executed or in flight while the
  next one arrives, and their acks fill a batch of two; its safety is proved for
  any number. `MaxConns` is `N - 1` plus the reconnections the failures cause.
* `StoragePath`: two puts and a get on two replicas of one key are the least in
  which a get can see a value go back; the fake access is a write-back without a
  value; other keys share nothing with it but FIFOs.
* `Forwarding`: two receivers reorder acks, two batches have one resent behind
  another. `MCRoutes` has all routes of four requests over the two receivers, up to
  exchanging them, and those with a first request for the dummy key, which all
  others can overtake, one in its batch and a second batch that goes to both
  receivers. (With the dummy key at any place, 24 routes and three million states,
  the properties hold, too, beyond the five minutes of a run.)
* `L3Failover`: three servers, two of them removed with a failure: a sibling
  lives on, and the label, whose place is arbitrary, stays, shifts or moves.
* `SecurityBatch`: five requests in calls of at most two and batches of three, so
  that requests wait over several batches.
* `Worker`: two connections meet every pair of peers of every kind of worker, two
  clients with one id (a restart) included; `MaxCalls` 2 gives a call behind
  another on each (an `async_proxy_client` needs one more to ask for its id and
  register it).
* `Deployment`: a chain of two at L1, two columns with different numbers of
  workers (so that indices and columns differ) and three replicas at L2 (so that a
  promoted head has a successor), two L3 hosts with two processes each;
  `MaxInvocations` 2 is the set-up and one failure.
* `Baseline`: seven configurations: two Pancake workers on one label, security
  batches of two, a trace for which `ceil` can be rounded either way, encryption
  with one worker and two, one by one and in batches, and a client that goes
  through its three calls. `PUT_BATCH` 3 leaves a partial last batch; blocks of
  two slots, one of which is always wasted, make the queue allocate, fill and
  reuse blocks.

Symmetry is used on commands in `chain_head_settled`, a run without liveness.
`CHECK_DEADLOCK FALSE` is set where clients send finitely many requests and the
system is then idle; `worker` checks deadlock, with `Done` as the only way to
stop: when no caller waits.

### Fairness

`ChainModule`, `Forwarding`, `StoragePath` and `L3Failover` have weak fairness on
what their handlers, threads, deliveries and the store do: a server thread that
has input runs, TCP delivers while both ends live, redis answers. The manager
finishes a repair it began (it is a straight-line program whose RPCs return or
throw), and the kill it sent arrives; `Deployment` assumes these two only.
Nothing is assumed of clients or of when a failure happens, and an RPC that
throws is never assumed to succeed later. `Worker` and `Baseline` have no
fairness: each of their steps consumes something finite, and `SettledAnswered`
says what is true when no step is left.

## The proofs

### The chain

For all `N >= 2`, any set of commands, any ack batch size and any number of
failures and connections (`ChainAssumption`), TLAPS proves

* `TypeCorrect`: `Spec => []TypeOK`;
* `ChainSafe`: `Spec => []ChainInv`;
* `ChainLogOrder`: what a replica has run is a prefix of what every survivor
  before it has run;
* `ChainPendingCovers`: a command some survivor lacks is still in `pending_` of
  every replica that has it;
* `ChainAckedIsDurable`: what was acked upwards is at every survivor;
* `ChainSettledAgree`: when nothing is under way any more and no replica failed, or
  one behind the head, all survivors have run the same commands.

None of the last four is inductive. `ChainInv` adds: the sequence number of a
replica is the length of its log; connections lead down the chain and skip failed
replicas only (`LinksForward`); a head has no survivor before it and a tail none
behind it, also in the plan of the manager (`RolesFit`, `PlanFits`); requests in
flight and in `pending_` carry the command at their place in the sender's log;
and an ack anywhere, in flight, queued or still to be sent by the layer below, is
for a command every survivor has run (`AcksSound`). The last is what allows
`remove_pending`: by it the tail, and so by `LogOrder` everyone, has the command.

`ChainSettledAgree` is about what is missing at a replica, and needs to know where it
is. Between two neighbouring survivors the connection carries the commands the second
one has not run, in order (`LinksCarry`, `Coming`), and the last survivor has given
what is pending to the layer below (`LastCompletes`). Both except the replica that
the manager is at work on: there the next step of the manager is known
(`RepairGoesOn`). Either the replica becomes the tail and `resend_pending` completes all
that is pending (`RepairsLast`), or it is connected to the next survivor and sends what
that one did not have when `fetch_seq` asked it (`RepairsLink`); `PendingCovers` says
that it still can. The invariant (`RepairInv`) is claimed only while at most one
replica has failed and the head has not (`OneFailure`): the run `chain_head_settled`
shows what happens otherwise.

* `ChainModuleProofs`: types, action by action; a replica that runs the next command
  (`Accept`), used by both the head and `chain_request` (the gap check gives
  `LogOrder`); then submission, `chain_request`, acks, failure, crash, `setup`,
  `resend_pending`, and the first five theorems.
* `ChainRepairProofs`: queues in which commands are coming; `RepairInv` action by
  action; the sixth theorem.

### The batches of the L1 head

For every batch size, any requests in any grouping into RPCs, and any coins
(`SecurityBatchAssumption`), TLAPS proves

* `SecurityBatchFifoOnce`: the client requests are sent in the order in which they
  came, each once, and those that wait are behind all that were sent, except for
  what an exception took out;
* `SecurityBatchNobodyWaits`: with `-f`, `process_op` leaves the queue empty;
* `SecurityBatchOnlyItsOwnRpc`: with `-f`, every request that an exception took has
  an unknown key or stands behind one, refused too, in the same RPC. `begins` records
  with which request each RPC began, so that "the same" is about the calls the
  clients made.

One batch takes a prefix of the queue: after each slot, one more request than
before has left or the same number (`Leaving`, by counting coins), so every number up
to the last is met at one slot and the slots carry exactly that prefix in its order
(`LeavesAt`, `CarriesFirst`, `CarriesInOrder`), also when the batch stops at the first
unknown key. The third theorem needs the second, since with `-f` the new request is alone
in the queue (`AloneInQueue`), that the requests of the current RPC are the last
ones that arrived (`LastArrived`), and that no RPC began later than the last of them
(`BegunBefore`).

### The hop between two layers

For every batch size, number of commands and finite set of receivers
(`ForwardingAssumption`), any set of routes with and without the dummy key
(`RoutesAssumption`), any column drawn for the dummy key at each sending, and the
failure of the tail of the sending chain or of the head of a receiver at any point,
TLAPS proves

* `ForwardingAtMostOnce`: no receiver runs a request twice;
* `ForwardingAckedIsDurable`: each request of a command that the head of the
  sending chain has dropped from `pending_` is on every replica of a receiver it may
  go to, or one of them, for the dummy key, was acked by two receivers;
* `ForwardingDelivers`: once nothing is under way, every request the head has
  accepted, unless it is for the dummy key, has been run, if no command reaches a
  tail during a repair (`QuietRepair`). The run `forward_window` shows that the
  condition is needed.

The first two rest on `IInv`. A receiver runs its requests in increasing order and
its mark is above all of them (`MarkInv`): this is what makes a high-water mark a
test for duplicates. What is acked is on every replica (`AckInv`). The count of a
batch at replica 2, together with the acks it has read, is at least the size of the
batch (`CountDown`). As long as no request of a batch was acked by two receivers
(`AckedOnce`), the acks read are no more than its requests, of which there are
`BatchSize` at most (`BatchBound`); so the count reaches zero only when the last of
them was acked, and the `chain_ack` then under way is for a batch acked in full
(`AllAcked`). Receivers must be finite in number for this counting.

For the third, order matters, and a request with a route of its own meets one mark
only. On a connection no accepted request stands behind a
later one, unless it has been run (`OutInLine`), and so the mark never passes over a
request that was not run (`MarkBelow`). A request that was not run is on a connection
of the tail, or belongs to a command the tail has yet to read (`OnTheWay`); between a
failure and `resend_pending` it is neither, but then its command is still in
`pending_` of the replica that sends again, and the sort in `resend_pending` puts it
in line: what that replica has forgotten is acked in full (`OrderInv`), because until
something is sent again no request, be it for the dummy key, is at two receivers
(`PlaceInv`), so that no ack is counted twice.

`ForwardingProofs` has requests, commands and batches as numbers; what `InOrder`
lists; `IInv` conjunct by conjunct and the first two theorems; then requests in line
on a connection, the state of the repair and of the chain, and the invariant of the
third theorem action by action.

### The way to the store and back

For any keys, replicas, workers, servers and requests, any assignment of replicas to
workers and servers and any batch sizes (`StorageAssumption`), and with the update
cache enabled, TLAPS proves

* `StorageAtomic`: `StoragePath` implements `Register`. A put takes effect in
  `run_command`, a get in `forward_request`, all steps of L3 and the store are
  stutters until `responder_thread` answers;
* `StorageNeverGoesBack`: no step replaces the value of a label in the store by an
  older one;
* `StorageAnsweredIsStored`: a put that was answered or acked is in the store at its
  label, or a later put has replaced it.

`UpdateCacheEnabled` is a hypothesis of all three because they are about the cache:
without it (`update_cache_enabled_` is an option) a get is sent to the replica it was
routed to, and a put has only written its own.

The invariant `IInv` is about age. The puts of a key are numbered by the order in which
the tail enters them into the cache (`order`), and the age of a value is its number.
Every operation is forwarded with the newest value of its key (`CacheInv`,
`Forwarded`), and all operations on one label go from one L2 worker to one server.
So the operations on a label stand in line, from the MSETs back through
`crypto_queue_`, the MGETs and `get_queues_` to the connections, and along the line
the values get no older (`LineInv`, `Line`); none is older than what the store holds
(`PipeInv`), none that was executed is newer (`ExecutedInv`). What makes this inductive
is an operation that carries no value: its key had none when it was forwarded, so
nothing ahead of it in line does, and what it reads is the first value (`ReadInv`):
writing that back is harmless, and answering a get with it is right, however late the
read. The line needs a lemma for each way of moving along it (`LineRead`, `LineQueue`,
`LineFlush`, `LineGet`, `LineCrypt`, `LineSet`, `LineForward`), and `LineGrows` for a
put that makes `order` longer without changing the age of any value.

* `StorageStepProofs`: the invariant, the lines, the steps that need no counting, and
  the steps of the refinement.
* `StoragePathProofs`: positions and ranks in `order`, which rest on the cardinality
  of finite sets; the steps of the store; the theorems.

### The failure of an L3 server

For every number of requests, servers and servers per host (`FailoverAssumption`),
whichever server fails and wherever labels move, TLAPS proves

* `FailoverForgottenIsStored`: what an L2 tail has dropped from `pending_` is in the
  store;
* `FailoverTypeOK`: the L2 tail has a connection for each column that the hash can
  give, and they lead to distinct servers; queues and messages hold requests that
  were made, and batches and counts stay in their ranges.

For the first, a callback due at a server and an ack on a connection are always about
a request whose PUT the store has executed (`StoredInv`), and only an ack makes the
tail forget a request. For the second, the connections are those of all servers until
`update_connections` runs (`Connections`), so that `remove_connection` erases exactly
the columns of the failed host and leaves `Left` of them.

### The initializer

For every trace, every order of its keys, every batch size and either way of
rounding `ceil`, TLAPS proves of `InitSpec`

* `SmoothTheorem`: when the distribution file is written there are 2n labels, the
  dummy key has at least one of them, and real and fake accesses together hit all
  labels equally often;
* `ResolvableTheorem`: every replica that a proxy can draw then has a label, the
  label is in the store, and only replicas with equal names share one.

The only assumption about traces is `TraceAssumption`: a trace is not empty and does
not use the random dummy key. The invariant relates
the loop to the arithmetic behind it. A key with f lines of F gets `r_i` replicas
with `f * n <= r_i * F`, and at most one more than that needs; if every key done so
far has exactly one more, these keys have two lines per average key and more
(`Bounded`). Together this keeps `keys_created` below 2n when all keys are done,
so that the dummy key gets a label; no single step shows it. And every label below `label_count_` belongs to
at most one name and is either in the store or in `labels_`, waiting for the next
`put_batch`; at the dump `labels_` is flushed.

### What is only model-checked

* All liveness (`Replicates`, `AcksReturn`, `EveryRequestAnswered`,
  `EveryBatchAcked`, `EveryRequestStored`, `ManagerCompletes`): liveness under
  fairness and `ENABLED` are out of the prover's reach.
* `Worker`, `ThriftServices` and `Deployment`: they compute messages, routing tables
  and plans with `SelectSeq` and folds, whose results for every input need an
  induction over data, which is out of reach, too.
* `Baseline`, except for the initializer (`Smooth`, `Resolvable`). `ReadsAreFresh` and
  `PutsInOrder` compare with histories that `SelectSeq` filters; of `DequeueFinds`,
  `ClosedLoop`, `NoLookupFails` and `SettledAnswered` no proof has been written.

## Not modelled

* The arithmetic of the consistent hash, the OpenSSL calls, and which key a
  distribution draws: any draw is possible in the models.
* Several Redis servers. `init` spreads the labels over the servers by
  `consistent_hash`, while `l3_proxy.cpp:140` and `enc_proxy.cpp:75` use the server of
  their own host; `init_exp.sh:35` copies all keys to all servers ("Hack").
* The storage back ends other than `redis::put_batch`: wrappers of client
  libraries that no proxy uses.
* `BlockingConcurrentQueue`: its lock-free lists are beyond a small instance.
  Reorderings of memory accesses that the fences of `readerwriterqueue.h` forbid.
* `fail_host` of a host with several processes, which calls `remove_connection`
  again on lists that have already shrunk.
* Two chains of one column with their shared update cache when the tail fails, and
  labels that move between live L3 servers together with their values (the two
  hazards without a property that concern the layers): the products of
  `StoragePath` with `ChainModule` and with `L3Failover` are too large for TLC.
* `flush` of `enc_proxy`, called for the key `$flush$` that no client sends;
  `close` of the proxies, which nobody calls; the older `pancake_proxy.cpp`, whose
  `main` is commented out.
* Classes that thrift generates and nothing uses (concurrent clients, multifaces,
  null objects, skeletons), option and file parsing, statistics and logging.
