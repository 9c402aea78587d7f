---------------------------- MODULE BenchmarkClient ----------------------------
(***************************************************************************)
(* A client of the two baseline proxies: one thread of pancake_benchmark   *)
(* (run_benchmark, called for the warm-up, the measurement and the         *)
(* cool-down) on top of a pancake_client, which sends each request to a    *)
(* worker picked at random and has one response thread per worker.         *)
(***************************************************************************)
EXTENDS Integers, Sequences

CONSTANTS
  PHASES             \* calls of run_benchmark (3: warm-up, benchmark, cool-down)

VARIABLES
  config,            \* [mode, workers, queue_depth, ...]: the command lines
  phase,             \* the number of the current call of run_benchmark
  unsent,            \* requests of its initial set that are not sent yet
  idx, smallest_seq, sequence_num_,
  response_queue_,   \* answers between the response threads and the poll
  done_,
  reading,           \* the workers whose response thread runs
  requests,          \* per worker: requests on their way to it
  responses,         \* per worker: answers on their way to the client
  \* What the client has sent and seen (no program state):
  sent,              \* its requests; sent[s + 1] has sequence number s
  before,            \* before[s + 1]: what was answered when s was sent
  answers,           \* the answers that arrived
  polled             \* the sequence numbers that poll_responses returned

loopVars == <<phase, unsent, idx, smallest_seq, sequence_num_, sent, before, polled>>
clientVars == <<config, loopVars, response_queue_, done_, reading, requests, responses, answers>>

\* The empty string, which stands for "no value".
Empty == -1

Workers == config.workers

\* The trace that both `init` and the benchmark read.  Every put writes a
\* value of its own: 1 + its sequence number.
Request(line) ==
  [seq |-> sequence_num_, key |-> line.key,
   value |-> IF line.put THEN sequence_num_ + 1 ELSE Empty]

\* pancake_client::get and put.  max_requests bounds the run.
send(line) ==
  /\ sequence_num_ < config.max_requests
  /\ \E w \in Workers : requests' = [requests EXCEPT ![w] = Append(@, Request(line))]
  /\ sequence_num_' = sequence_num_ + 1
  /\ sent' = Append(sent, Request(line))
  /\ before' = Append(before, {a.seq : a \in answers})

---------------------------------------------------------------------------
client_init ==
  /\ phase = 1 /\ unsent = config.queue_depth
  /\ idx = 0 /\ smallest_seq = 0 /\ sequence_num_ = 0
  /\ response_queue_ = <<>>
  /\ done_ = FALSE /\ reading = Workers
  /\ requests = [w \in Workers |-> <<>>] /\ responses = [w \in Workers |-> <<>>]
  /\ sent = <<>> /\ before = <<>> /\ answers = {} /\ polled = {}

\* run_benchmark, the initial set.  Sequence numbers only grow, so the first
\* request of the set has the smallest one.
run_benchmark_Submit(trace) ==
  /\ phase <= PHASES /\ unsent > 0
  /\ send(trace[idx + 1])
  /\ idx' = (idx + 1) % Len(trace)
  /\ unsent' = unsent - 1
  /\ smallest_seq' = IF unsent = config.queue_depth THEN sequence_num_ ELSE smallest_seq
  /\ UNCHANGED <<config, phase, response_queue_, done_, reading, responses, answers, polled>>

\* The test of the loop: the time is up or not.  The next call starts at the
\* beginning of the trace; after the last one the client calls finish().
Elapsed(next_idx) ==
  \/ UNCHANGED <<phase, unsent, done_>> /\ idx' = next_idx
  \/ /\ phase' = phase + 1 /\ unsent' = config.queue_depth /\ idx' = 0
     /\ done_' = (phase = PHASES)

\* Mutant: an answer of an earlier call counts like any other.
run_benchmark_Poll_NoStaleCheck(trace) ==
  /\ phase <= PHASES /\ unsent = 0
  /\ response_queue_ # <<>>
  /\ response_queue_' = Tail(response_queue_)
  /\ polled' = polled \cup {Head(response_queue_).seq}
  /\ Elapsed((idx + 1) % Len(trace)) /\ send(trace[idx + 1])
  /\ UNCHANGED <<config, smallest_seq, reading, responses, answers>>

\* One pass of the loop of run_benchmark: an answer of an earlier call is
\* dropped, any other is replaced by a new request.
run_benchmark_Poll(trace) ==
  /\ phase <= PHASES /\ unsent = 0
  /\ response_queue_ # <<>>
  /\ response_queue_' = Tail(response_queue_)
  /\ polled' = polled \cup {Head(response_queue_).seq}
  /\ IF Head(response_queue_).seq < smallest_seq
     THEN Elapsed(idx) /\ UNCHANGED <<requests, sequence_num_, sent, before>>
     ELSE Elapsed((idx + 1) % Len(trace)) /\ send(trace[idx + 1])
  /\ UNCHANGED <<config, smallest_seq, reading, responses, answers>>

\* response_thread: blocked in recv_response while it does not look at done_.
response_thread(w) ==
  /\ w \in reading
  /\ responses[w] # <<>>
  /\ response_queue_' = Append(response_queue_, Head(responses[w]))
  /\ responses' = [responses EXCEPT ![w] = Tail(@)]
  /\ answers' = answers \cup {Head(responses[w])}
  /\ reading' = IF done_ THEN reading \ {w} ELSE reading
  /\ UNCHANGED <<config, loopVars, done_, requests>>

\* recv_response gives up after the receive timeout of 10 s.
response_thread_Timeout(w) ==
  /\ w \in reading
  /\ responses[w] = <<>> /\ done_
  /\ reading' = reading \ {w}
  /\ UNCHANGED <<config, loopVars, response_queue_, done_, requests, responses, answers>>

Client(trace) ==
  \/ run_benchmark_Submit(trace)
  \/ run_benchmark_Poll(trace)
  \/ \E w \in Workers : response_thread(w) \/ response_thread_Timeout(w)
=============================================================================
