------------------------------ MODULE Initializer ------------------------------
(***************************************************************************)
(* `proxy_server init` (init_main): reads the frequency of every key from  *)
(* a trace, decides how many replicas each key gets, stores every replica  *)
(* under a label of its own and writes the distribution file that all      *)
(* proxies load.  Half of the accesses follow the real distribution, half  *)
(* a fake one that is chosen so that all labels are accessed equally often *)
(* (delta_ is 1/2).                                                        *)
(*                                                                         *)
(* With n keys, F lines in the trace and f lines for a key, the code has   *)
(* pi = f/F and alpha_ = 1/n, so pi/alpha_ = f*n/F; probabilities are kept *)
(* here as integers in units of 1/(n*F).                                   *)
(***************************************************************************)
EXTENDS Integers, Sequences, FiniteSets, Redis

CONSTANTS
  Keys,              \* the keys that traces use: strings, as sequences
  DummyKey,          \* dummy_key_ = rand_str(16)
  Traces,            \* the trace files: sequences of [key, put] lines
  PUT_BATCH          \* labels per put_batch (50 in the code)

VARIABLES
  trace,             \* the file given with -t
  keys,              \* real_distribution_.get_items()
  step,              \* where create_replicas is
  index, keys_created,
  key, r_i, i,       \* the arguments and the counter of insert_replicas
  fake_probabilities,
  key_to_number_of_replicas_, replica_to_label_, label_count_,
  labels_,           \* labels collected for the next put_batch
  dinfo              \* the distribution file

createVars == <<index, keys_created, key, r_i, i, fake_probabilities,
                key_to_number_of_replicas_, replica_to_label_, label_count_,
                labels_>>
initVars == <<trace, keys, step, createVars, dinfo, kv>>

(***************************************************************************)
(* std::to_string of a natural number, as the sequence of its digits.      *)
(***************************************************************************)
NumDigits(num) == CHOOSE d \in 1..(num + 1) : num < 10^d /\ (d = 1 \/ num >= 10^(d - 1))
to_string(num) == [d \in 1..NumDigits(num) |-> (num \div 10^(NumDigits(num) - d)) % 10]

\* The name of a replica: key + std::to_string(i), without a separator.  With
\* keys of different lengths two replicas may have one name: replica 10 of
\* key "1" and replica 0 of key "11".
Replica(k, j) == k \o to_string(j)

(***************************************************************************)
(* The trace.                                                              *)
(***************************************************************************)
KeysOf(t) == {t[l].key : l \in DOMAIN t}
frequency_sum == Len(trace)
key_to_frequency(k) == Cardinality({l \in DOMAIN trace : trace[l].key = k})
num_keys == Len(keys)

\* Mutant: the quotient is truncated.
ceil_Floor(a, b) == {a \div b}

(***************************************************************************)
(* ceil(pi/alpha_) in floating point: when f*n/F is a whole number above   *)
(* one, the quotient of the two rounded numbers may come out a little too  *)
(* large (5/6 / (1.0/6) is 5.000000000000001).  For f*n = F both are the   *)
(* same double, and the quotient is exact.                                 *)
(***************************************************************************)
ceil(a, b) ==
  {r \in 1..(a + 1) : /\ (r - 1) * b <= a
                      /\ (r - 1) * b = a => a >= 2 * b
                      /\ a <= r * b}

\* A trace has lines, and dummy_key_ is none of its keys.
ASSUME TraceAssumption ==
  /\ \A t \in Traces : t \in Seq([key : Keys, put : BOOLEAN]) /\ Len(t) > 0
  /\ DummyKey \notin Keys

---------------------------------------------------------------------------
(***************************************************************************)
(* load_frequencies_from_trace lists the keys in the order of an           *)
(* unordered_map: any order.                                               *)
(***************************************************************************)
load_frequencies_from_trace ==
  /\ trace \in Traces
  /\ keys \in {s \in [1..Cardinality(KeysOf(trace)) -> KeysOf(trace)] :
                 \A m, o \in DOMAIN s : s[m] = s[o] => m = o}

initializer_init ==
  /\ load_frequencies_from_trace
  /\ step = "keys"
  /\ index = 0 /\ keys_created = 0
  /\ key = DummyKey /\ r_i = 0 /\ i = 0
  /\ fake_probabilities = <<>>
  /\ key_to_number_of_replicas_ = << >>
  /\ replica_to_label_ = << >>
  /\ label_count_ = 0
  /\ labels_ = {}
  /\ dinfo = [written |-> FALSE]

\* The call insert_replicas(k, r, value_cipher) and the lines before it.
CallInsert(k, r, weight) ==
  /\ fake_probabilities' = Append(fake_probabilities, weight)
  /\ key_to_number_of_replicas_' = Assign(key_to_number_of_replicas_, k, r)
  /\ key' = k /\ r_i' = r /\ i' = 0
  /\ step' = "replicas"

\* One pass of the loop over the keys, up to insert_replicas.
create_replicas_NextKey ==
  /\ step = "keys" /\ index < num_keys
  /\ LET k == keys[index + 1]
         f == key_to_frequency(k)
     IN  \E r \in ceil(f * num_keys, frequency_sum) :
           CallInsert(k, r, r * frequency_sum - f * num_keys)
  /\ UNCHANGED <<trace, keys, index, keys_created, replica_to_label_,
                 label_count_, labels_, dinfo, kv>>

\* One pass of the loop of insert_replicas: a new label for the replica, and
\* a put_batch when there are enough of them.
AssignLabel(replica) ==
  /\ replica_to_label_' = Assign(replica_to_label_, replica, label_count_)
  /\ LET collected == labels_ \cup {to_string(label_count_)}
     IN  IF Cardinality(collected) >= PUT_BATCH
         THEN put_batch(collected) /\ labels_' = {}
         ELSE labels_' = collected /\ UNCHANGED kv
  /\ label_count_' = label_count_ + 1
  /\ i' = i + 1
  /\ UNCHANGED <<trace, keys, step, index, keys_created, key, r_i,
                 fake_probabilities, key_to_number_of_replicas_, dinfo>>

\* Mutant: replicas are numbered from 1.
insert_replicas_FromOne == step = "replicas" /\ i < r_i /\ AssignLabel(Replica(key, i + 1))

insert_replicas == step = "replicas" /\ i < r_i /\ AssignLabel(Replica(key, i))

\* insert_replicas returns: to the loop over the keys, or from the dummy's.
insert_replicas_Return ==
  /\ step = "replicas" /\ i >= r_i
  /\ IF index < num_keys
     THEN /\ keys_created' = keys_created + r_i
          /\ index' = index + 1
          /\ step' = "keys"
     ELSE /\ step' = "dump"
          /\ UNCHANGED <<keys_created, index>>
  /\ UNCHANGED <<trace, keys, key, r_i, i, fake_probabilities,
                 key_to_number_of_replicas_, replica_to_label_, label_count_,
                 labels_, dinfo, kv>>

(***************************************************************************)
(* The dummy key takes what is left of 2n labels.  The comparison in the   *)
(* code is between unsigned numbers and never true; the difference is      *)
(* converted to int.                                                       *)
(***************************************************************************)
create_replicas_Dummy ==
  /\ step = "keys" /\ index = num_keys
  /\ LET dummy_r_i == 2 * num_keys - keys_created
     IN  IF dummy_r_i # 0
         THEN CallInsert(DummyKey, dummy_r_i, dummy_r_i * frequency_sum)
         ELSE /\ step' = "dump"
              /\ UNCHANGED <<fake_probabilities, key_to_number_of_replicas_, key, r_i, i>>
  /\ UNCHANGED <<trace, keys, index, keys_created, replica_to_label_,
                 label_count_, labels_, dinfo, kv>>

(***************************************************************************)
(* The end of create_replicas, distribution_info::dump, and load in the    *)
(* proxies: items and probabilities are paired by their position, and the  *)
(* file holds maps.                                                        *)
(***************************************************************************)
full_keys == Append(keys, DummyKey)
dump ==
  /\ dinfo' = [written |-> TRUE,
               key_to_number_of_replicas |-> key_to_number_of_replicas_,
               replica_to_label |-> replica_to_label_,
               fake_distribution |-> [k \in {full_keys[m] : m \in DOMAIN fake_probabilities} |->
                  fake_probabilities[CHOOSE m \in DOMAIN fake_probabilities : full_keys[m] = k]],
               real_distribution |-> [k \in KeysOf(trace) |-> key_to_frequency(k) * num_keys]]
  /\ step' = "done"
  /\ UNCHANGED <<trace, keys, createVars>>

\* Mutant: the last, partial batch of labels is not stored.
create_replicas_Dump_NoFlush == step = "dump" /\ UNCHANGED kv /\ dump

create_replicas_Dump == step = "dump" /\ put_batch(labels_) /\ dump

InitMain == \/ create_replicas_NextKey \/ insert_replicas \/ insert_replicas_Return
            \/ create_replicas_Dummy \/ create_replicas_Dump

InitSpec == initializer_init /\ kv = << >> /\ [][InitMain]_initVars

---------------------------------------------------------------------------
(***************************************************************************)
(* What the proxies rely on.                                               *)
(***************************************************************************)

\* Smoothing: the file has 2n labels, the dummy key has one at least, so that
\* fake_distribution_ has a weight for every item of full_keys, and each replica
\* is accessed with the same probability 1/2n: half of the real weight of its
\* key and half of the fake one, shared by the replicas, whichever way
\* ceil(pi/alpha_) is rounded.
Smooth ==
  step = "done" =>
    /\ label_count_ = 2 * num_keys
    /\ Len(fake_probabilities) = num_keys + 1
    /\ \A m \in 1..num_keys :
         /\ fake_probabilities[m] >= 0
         /\ key_to_frequency(keys[m]) * num_keys + fake_probabilities[m]
              = key_to_number_of_replicas_[keys[m]] * frequency_sum
    /\ key_to_number_of_replicas_[DummyKey] >= 1
    /\ fake_probabilities[num_keys + 1]
         = key_to_number_of_replicas_[DummyKey] * frequency_sum

\* Every replica that a proxy can pick (create_security_batch draws below
\* key_to_number_of_replicas_) has a label, the label is in the store before
\* the file exists, and only replicas whose names are equal share one (the code
\* does not check that names differ; they do for fewer than eleven replicas).
Drawn(k) == 0..(key_to_number_of_replicas_[k] - 1)
LabelOf(k, j) == replica_to_label_[Replica(k, j)]
Resolvable ==
  step = "done" =>
    \A k \in DOMAIN key_to_number_of_replicas_ : \A j \in Drawn(k) :
      /\ Replica(k, j) \in DOMAIN replica_to_label_
      /\ to_string(LabelOf(k, j)) \in DOMAIN kv
      /\ \A l \in DOMAIN key_to_number_of_replicas_ : \A o \in Drawn(l) :
           LabelOf(k, j) = LabelOf(l, o) => Replica(k, j) = Replica(l, o)
=============================================================================
