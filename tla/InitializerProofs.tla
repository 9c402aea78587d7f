--------------------------- MODULE InitializerProofs ---------------------------
(***************************************************************************)
(* Proofs about Initializer: for every trace and every rounding of         *)
(* ceil(pi/alpha_) the labels are accessed uniformly (Smooth), and every   *)
(* replica a proxy can draw has a stored label of its own (Resolvable).    *)
(***************************************************************************)
EXTENDS Initializer, FiniteSetTheorems, TLAPS

(***************************************************************************)
(* The inductive invariant                                                 *)
(***************************************************************************)
AllKeys == KeysOf(trace) \cup {DummyKey}

\* What the variables of create_replicas hold.
TypeInv ==
  /\ trace \in Traces
  /\ keys \in [1..Cardinality(KeysOf(trace)) -> KeysOf(trace)]
  /\ \A m, o \in DOMAIN keys : keys[m] = keys[o] => m = o
  /\ step \in {"keys", "replicas", "dump", "done"}
  /\ index \in 0..num_keys /\ keys_created \in Nat
  /\ key \in AllKeys /\ r_i \in Nat /\ i \in 0..r_i
  /\ fake_probabilities \in Seq(Int)
  /\ DOMAIN key_to_number_of_replicas_ \subseteq AllKeys
  /\ key_to_number_of_replicas_ \in [DOMAIN key_to_number_of_replicas_ -> 0..(2 * num_keys)]
  /\ label_count_ \in Nat
  /\ replica_to_label_ \in [DOMAIN replica_to_label_ -> Nat]

\* The lines of the trace for the first j keys, and how many they are.
LinesUpTo(j) == {l \in DOMAIN trace : \E m \in 1..j : trace[l].key = keys[m]}
UpTo(j) == Cardinality(LinesUpTo(j))

\* c replicas for j keys are at most one too many for each key; if they are
\* all one too many, then these keys have two lines per key and more.
Bounded(c, j) ==
  \/ c * frequency_sum < UpTo(j) * num_keys + j * frequency_sum
  \/ /\ c * frequency_sum = UpTo(j) * num_keys + j * frequency_sum
     /\ UpTo(j) * num_keys >= 2 * (j * frequency_sum)

\* The weights of the keys that are done.
Weights ==
  \A m \in 1..num_keys : m <= Len(fake_probabilities) =>
    /\ keys[m] \in DOMAIN key_to_number_of_replicas_
    /\ fake_probabilities[m] >= 0
    /\ key_to_frequency(keys[m]) * num_keys + fake_probabilities[m]
         = key_to_number_of_replicas_[keys[m]] * frequency_sum

DummyDone ==
  /\ Len(fake_probabilities) = num_keys + 1
  /\ DummyKey \in DOMAIN key_to_number_of_replicas_
  /\ key_to_number_of_replicas_[DummyKey] >= 1
  /\ key_to_number_of_replicas_[DummyKey] = 2 * num_keys - keys_created
  /\ fake_probabilities[num_keys + 1]
       = key_to_number_of_replicas_[DummyKey] * frequency_sum

CountInv ==
  /\ Weights
  /\ Bounded(keys_created, index)
  /\ step = "keys" => label_count_ = keys_created /\ Len(fake_probabilities) = index
  /\ step = "replicas" =>
       /\ label_count_ = keys_created + i
       /\ key \in DOMAIN key_to_number_of_replicas_
       /\ r_i = key_to_number_of_replicas_[key]
       /\ index < num_keys =>
            /\ Len(fake_probabilities) = index + 1
            /\ Bounded(keys_created + r_i, index + 1)
       /\ index = num_keys => DummyDone /\ key = DummyKey
  /\ step \in {"dump", "done"} =>
       index = num_keys /\ DummyDone /\ label_count_ = 2 * num_keys

LabelInv ==
  /\ \A x \in DOMAIN replica_to_label_ :
       /\ replica_to_label_[x] < label_count_
       /\ to_string(replica_to_label_[x]) \in labels_ \cup DOMAIN kv
  /\ \A x, y \in DOMAIN replica_to_label_ : replica_to_label_[x] = replica_to_label_[y] => x = y
  /\ \A k \in DOMAIN key_to_number_of_replicas_ : \A j \in Drawn(k) :
       (step = "replicas" /\ k = key => j < i) => Replica(k, j) \in DOMAIN replica_to_label_
  /\ step = "replicas" => r_i = key_to_number_of_replicas_[key]
  /\ step = "done" =>
       \A x \in DOMAIN replica_to_label_ : to_string(replica_to_label_[x]) \in DOMAIN kv

(***************************************************************************)
(* Arithmetic                                                              *)
(***************************************************************************)

\* A product distributes over a sum and over a difference.
LEMMA Distribute ==
  ASSUME NEW a \in Int, NEW b \in Int, NEW c \in Int
  PROVE  (a + b) * c = a * c + b * c /\ (a - b) * c = a * c - b * c /\ a * c \in Int
OBVIOUS

\* Multiplication by a positive number keeps the order, and can be cancelled.
LEMMA Monotone ==
  ASSUME NEW a \in Int, NEW b \in Int, NEW c \in Nat, c > 0
  PROVE  /\ a <= b => a * c <= b * c
         /\ a * c <= b * c => a <= b
<1>1. \A d \in Nat : d * c \in Nat
  OBVIOUS
<1>2. ASSUME a <= b PROVE a * c <= b * c
  <2>1. (b - a) * c \in Nat
    BY <1>1, <1>2
  <2> QED BY <2>1, Distribute
<1>3. ASSUME b < a PROVE b * c < a * c
  <2>1. (a - b - 1) * c \in Nat
    BY <1>1, <1>3
  <2>2. (a - b - 1) * c = (a - b) * c - 1 * c /\ (a - b) * c = a * c - b * c
    BY Distribute
  <2> QED BY <2>1, <2>2, Distribute
<1> QED BY <1>2, <1>3, Distribute

(***************************************************************************)
(* The trace and its keys                                                  *)
(***************************************************************************)

\* load_frequencies_from_trace: a trace has lines and finitely many keys.
LEMMA TraceFacts ==
  ASSUME trace \in Traces
  PROVE  /\ frequency_sum \in Nat /\ frequency_sum > 0
         /\ DOMAIN trace = 1..frequency_sum
         /\ IsFiniteSet(DOMAIN trace) /\ Cardinality(DOMAIN trace) = frequency_sum
         /\ IsFiniteSet(KeysOf(trace))
         /\ Cardinality(KeysOf(trace)) \in Nat /\ Cardinality(KeysOf(trace)) > 0
         /\ DummyKey \notin KeysOf(trace)
<1>1. trace \in Seq([key : Keys, put : BOOLEAN]) /\ Len(trace) > 0 /\ DummyKey \notin Keys
  BY TraceAssumption, Zenon
<1>2. frequency_sum \in Nat /\ frequency_sum > 0 /\ DOMAIN trace = 1..frequency_sum
  BY <1>1 DEF frequency_sum
<1>3. IsFiniteSet(DOMAIN trace) /\ Cardinality(DOMAIN trace) = frequency_sum
  BY <1>2, FS_Interval
<1>4. DummyKey \notin KeysOf(trace)
  <2> DEFINE R == [key : Keys, put : BOOLEAN]
  <2>1. \A l \in DOMAIN trace : trace[l] \in R
    <3> HIDE DEF R
    <3>1. trace \in Seq(R)
      BY <1>1 DEF R
    <3> QED BY <3>1
  <2>2. \A l \in DOMAIN trace : trace[l].key \in Keys
    BY <2>1
  <2> QED BY <1>1, <2>2 DEF KeysOf
<1> DEFINE f == [l \in DOMAIN trace |-> trace[l].key]
<1>5. f \in Surjection(DOMAIN trace, KeysOf(trace))
  BY DEF Surjection, KeysOf
<1>6. IsFiniteSet(KeysOf(trace))
  BY <1>3, <1>5, FS_Surjection
<1>7. KeysOf(trace) # {}
  <2>1. trace[1].key \in KeysOf(trace)
    BY <1>2 DEF KeysOf
  <2> QED BY <2>1
<1>8. Cardinality(KeysOf(trace)) \in Nat /\ Cardinality(KeysOf(trace)) # 0
  BY <1>6, <1>7, FS_CardinalityType, FS_EmptySet
<1> QED BY <1>2, <1>3, <1>4, <1>6, <1>8

\* get_items lists every key once.
LEMMA KeysFacts ==
  ASSUME TypeInv
  PROVE  /\ num_keys = Cardinality(KeysOf(trace))
         /\ num_keys \in Nat /\ num_keys > 0
         /\ DOMAIN keys = 1..num_keys
         /\ \A m \in 1..num_keys : keys[m] \in KeysOf(trace)
         /\ \A k \in KeysOf(trace) : \E m \in 1..num_keys : keys[m] = k
<1> DEFINE n == Cardinality(KeysOf(trace))
<1>1. n \in Nat /\ n > 0 /\ IsFiniteSet(KeysOf(trace))
  BY TraceFacts DEF TypeInv
<1>2. keys \in [1..n -> KeysOf(trace)]
  BY DEF TypeInv
<1>3. keys \in Seq(KeysOf(trace)) /\ Len(keys) = n
  BY <1>1, <1>2
<1>4. keys \in Injection(1..n, KeysOf(trace))
  BY <1>2 DEF Injection, IsInjective, TypeInv
<1>5. Cardinality(1..n) = n
  BY <1>1, FS_Interval
<1>6. keys \in Surjection(1..n, KeysOf(trace))
  BY <1>1, <1>4, <1>5, FS_Injection
<1>7. \A k \in KeysOf(trace) : \E m \in 1..n : keys[m] = k
  BY <1>6 DEF Surjection
<1> QED BY <1>1, <1>2, <1>3, <1>7 DEF num_keys

\* The lines of one key are some of the lines of the trace.
LEMMA FrequencyFacts ==
  ASSUME TypeInv, NEW k
  PROVE  key_to_frequency(k) \in Nat /\ key_to_frequency(k) <= frequency_sum
<1> DEFINE L == {l \in DOMAIN trace : trace[l].key = k}
<1>1. IsFiniteSet(DOMAIN trace) /\ Cardinality(DOMAIN trace) = frequency_sum
  BY TraceFacts DEF TypeInv
<1>2. L \in SUBSET DOMAIN trace
  OBVIOUS
<1>3. IsFiniteSet(L) /\ Cardinality(L) <= frequency_sum
  BY <1>1, <1>2, FS_Subset
<1>4. Cardinality(L) \in Nat
  BY <1>3, FS_CardinalityType
<1> QED BY <1>3, <1>4 DEF key_to_frequency

\* The lines of the first j keys: none for j = 0, all at the end, and each
\* key adds its own.
LEMMA UpToFacts ==
  ASSUME TypeInv
  PROVE  /\ UpTo(0) = 0
         /\ UpTo(num_keys) = frequency_sum
         /\ \A j \in 0..num_keys : UpTo(j) \in Nat
         /\ \A j \in 0..(num_keys - 1) : UpTo(j + 1) = UpTo(j) + key_to_frequency(keys[j + 1])
<1> USE KeysFacts
<1>1. IsFiniteSet(DOMAIN trace) /\ Cardinality(DOMAIN trace) = frequency_sum
  BY TraceFacts DEF TypeInv
<1>2. UpTo(0) = 0
  <2>1. LinesUpTo(0) = {}
    BY DEF LinesUpTo
  <2> QED BY <2>1, FS_EmptySet DEF UpTo
<1>3. UpTo(num_keys) = frequency_sum
  <2>1. \A l \in DOMAIN trace : trace[l].key \in KeysOf(trace)
    BY DEF KeysOf
  <2>2. LinesUpTo(num_keys) = DOMAIN trace
    BY <2>1, Zenon DEF LinesUpTo
  <2> QED BY <1>1, <2>2 DEF UpTo
<1>4. ASSUME NEW j \in 0..num_keys
      PROVE  IsFiniteSet(LinesUpTo(j)) /\ UpTo(j) \in Nat
  <2>1. LinesUpTo(j) \in SUBSET DOMAIN trace
    BY DEF LinesUpTo
  <2>2. IsFiniteSet(LinesUpTo(j))
    BY <1>1, <2>1, FS_Subset
  <2> QED BY <2>2, FS_CardinalityType DEF UpTo
<1>5. ASSUME NEW j \in 0..(num_keys - 1)
      PROVE  UpTo(j + 1) = UpTo(j) + key_to_frequency(keys[j + 1])
  <2> DEFINE L == {l \in DOMAIN trace : trace[l].key = keys[j + 1]}
  <2>1. LinesUpTo(j + 1) = LinesUpTo(j) \cup L
    <3>1. 1..(j + 1) = (1..j) \cup {j + 1}
      OBVIOUS
    <3> QED BY <3>1 DEF LinesUpTo
  <2>2. LinesUpTo(j) \cap L = {}
    <3>1. \A m \in 1..j : keys[m] # keys[j + 1]
      BY DEF TypeInv
    <3> QED BY <3>1 DEF LinesUpTo
  <2>3. L \in SUBSET DOMAIN trace /\ j \in 0..num_keys
    OBVIOUS
  <2>4. IsFiniteSet(L) /\ IsFiniteSet(LinesUpTo(j)) /\ UpTo(j) \in Nat
    BY <1>1, <1>4, <2>3, FS_Subset
  <2>5. Cardinality(L) \in Nat
    BY <2>4, FS_CardinalityType
  <2>6. Cardinality(LinesUpTo(j) \cup L) = Cardinality(LinesUpTo(j)) + Cardinality(L) - 0
    BY <2>2, <2>4, FS_Union, FS_EmptySet
  <2>7. key_to_frequency(keys[j + 1]) = Cardinality(L)
    BY DEF key_to_frequency
  <2>8. UpTo(j + 1) = Cardinality(LinesUpTo(j) \cup L)
    BY <2>1, Zenon DEF UpTo
  <2>9. UpTo(j) = Cardinality(LinesUpTo(j))
    BY DEF UpTo
  <2> HIDE DEF L
  <2> QED BY <2>4, <2>5, <2>6, <2>7, <2>8, <2>9
<1> QED BY <1>2, <1>3, <1>4, <1>5

(***************************************************************************)
(* The number of replicas of a key, and of all keys                        *)
(***************************************************************************)

\* ceil(pi/alpha_) is enough for the weight of the key, and at most n + 1.
LEMMA CeilFacts ==
  ASSUME TypeInv, NEW k, NEW r \in ceil(key_to_frequency(k) * num_keys, frequency_sum)
  PROVE  /\ r \in Nat /\ r >= 1 /\ r <= 2 * num_keys
         /\ r * frequency_sum >= key_to_frequency(k) * num_keys
         /\ (r - 1) * frequency_sum <= key_to_frequency(k) * num_keys
         /\ (r - 1) * frequency_sum = key_to_frequency(k) * num_keys
              => key_to_frequency(k) * num_keys >= 2 * frequency_sum
<1> DEFINE F == frequency_sum
           n == num_keys
           f == key_to_frequency(k)
<1>1. F \in Nat /\ F > 0 /\ n \in Nat /\ n > 0 /\ f \in Nat /\ f <= F
  BY TraceFacts, KeysFacts, FrequencyFacts, Zenon DEF TypeInv
<1>2. f * n \in Nat
  BY <1>1
<1>3. /\ r \in Nat /\ r >= 1
      /\ (r - 1) * F <= f * n
      /\ (r - 1) * F = f * n => f * n >= 2 * F
      /\ f * n <= r * F
  BY <1>2 DEF ceil
<1> HIDE DEF F, n, f
<1>4. f * n <= F * n
  BY <1>1, Monotone
<1>5. F * n = n * F
  BY <1>1
<1>6. (r - 1) * F <= n * F
  BY <1>1, <1>2, <1>3, <1>4, <1>5, Distribute
<1>7. r - 1 <= n
  BY <1>1, <1>3, <1>6, Monotone
<1> QED BY <1>1, <1>2, <1>3, <1>7, Distribute DEF F, n, f

\* One more key keeps the bound on the number of replicas.
LEMMA BoundedStep ==
  ASSUME TypeInv, NEW c \in Nat, NEW j \in 0..(num_keys - 1), Bounded(c, j),
         NEW r \in ceil(key_to_frequency(keys[j + 1]) * num_keys, frequency_sum)
  PROVE  Bounded(c + r, j + 1)
<1> DEFINE F == frequency_sum
           n == num_keys
           f == key_to_frequency(keys[j + 1])
           U == UpTo(j)
<1>0. F \in Nat /\ F > 0 /\ n \in Nat /\ n > 0 /\ f \in Nat
  BY TraceFacts, KeysFacts, FrequencyFacts, Zenon DEF TypeInv
<1>1. /\ F \in Nat /\ F > 0 /\ n \in Nat /\ n > 0 /\ f \in Nat /\ j \in Nat
      /\ U \in Nat /\ UpTo(j + 1) = U + f
  <2>1. j \in 0..num_keys
    BY <1>0
  <2> QED BY <1>0, <2>1, UpToFacts
<1>2. r \in Nat /\ (r - 1) * F <= f * n /\ ((r - 1) * F = f * n => f * n >= 2 * F)
  BY CeilFacts
<1>3. \/ c * F < U * n + j * F
      \/ c * F = U * n + j * F /\ U * n >= 2 * (j * F)
  BY DEF Bounded
<1> HIDE DEF F, n, f, U
<1>4. /\ (c + r) * F = c * F + r * F
      /\ (r - 1) * F = r * F - F
      /\ (U + f) * n = U * n + f * n
      /\ (j + 1) * F = j * F + F
  BY <1>1, <1>2, Distribute
<1>5. c * F \in Int /\ r * F \in Int /\ U * n \in Int /\ f * n \in Int /\ j * F \in Int
  BY <1>1, <1>2
<1>6. \/ (c + r) * F < (U + f) * n + (j + 1) * F
      \/ (c + r) * F = (U + f) * n + (j + 1) * F /\ (U + f) * n >= 2 * ((j + 1) * F)
  BY <1>1, <1>2, <1>3, <1>4, <1>5
<1> QED BY <1>1, <1>6 DEF Bounded, F, n, U

\* All keys together have fewer than 2n replicas: one label is left at least
\* for the dummy key.
LEMMA BoundedEnd ==
  ASSUME TypeInv, NEW c \in Nat, Bounded(c, num_keys)
  PROVE  2 * num_keys - c >= 1
<1> DEFINE F == frequency_sum
           n == num_keys
<1>1. F \in Nat /\ F > 0 /\ n \in Nat /\ n > 0 /\ UpTo(n) = F
  BY TraceFacts, KeysFacts, UpToFacts, Zenon DEF TypeInv
<1>2. \/ c * F < F * n + n * F
      \/ c * F = F * n + n * F /\ F * n >= 2 * (n * F)
  BY <1>1 DEF Bounded
<1> HIDE DEF F, n
<1>3. F * n = n * F /\ n * F \in Int /\ c * F \in Int
  BY <1>1
<1>4. 1 * F <= n * F
  BY <1>1, Monotone
<1>5. (2 * n) * F = n * F + n * F
  BY <1>1, Distribute
<1>6. c * F < (2 * n) * F
  BY <1>1, <1>2, <1>3, <1>4, <1>5
<1>7. ~ (2 * n <= c)
  BY <1>1, <1>3, <1>5, <1>6, Monotone
<1> QED BY <1>1, <1>7 DEF n

-----------------------------------------------------------------------------
(***************************************************************************)
(* The steps of create_replicas                                            *)
(***************************************************************************)
IInv == TypeInv /\ CountInv /\ LabelInv

\* std::map::operator[].
LEMMA AssignFacts ==
  ASSUME NEW m, NEW x, NEW v
  PROVE  /\ DOMAIN Assign(m, x, v) = DOMAIN m \cup {x}
         /\ Assign(m, x, v)[x] = v
         /\ \A y \in DOMAIN m : y # x => Assign(m, x, v)[y] = m[y]
BY DEF Assign

\* ... and the type of a map that has been assigned to.
LEMMA AssignType ==
  ASSUME NEW m, NEW S, m \in [DOMAIN m -> S], NEW x, NEW v \in S
  PROVE  Assign(m, x, v) \in [DOMAIN Assign(m, x, v) -> S]
<1>1. DOMAIN Assign(m, x, v) = DOMAIN m \cup {x}
  BY AssignFacts, Zenon
<1>2. \A y \in DOMAIN m \cup {x} : (IF y = x THEN v ELSE m[y]) \in S
  OBVIOUS
<1> QED BY <1>1, <1>2 DEF Assign

\* create_replicas_NextKey: the loop over the keys calls insert_replicas.
LEMMA NextKeyStep ==
  ASSUME IInv, create_replicas_NextKey
  PROVE  IInv'
<1> DEFINE n == num_keys
           F == frequency_sum
           k == keys[index + 1]
           f == key_to_frequency(k)
<1>1. TypeInv /\ CountInv /\ LabelInv
  BY DEF IInv
<1>2. /\ step = "keys" /\ index < n /\ step' = "replicas"
      /\ UNCHANGED <<trace, keys, index, keys_created, replica_to_label_, label_count_, labels_, kv>>
  BY DEF create_replicas_NextKey, CallInsert
<1>3. PICK r \in ceil(f * n, F) : CallInsert(k, r, r * F - f * n)
  BY DEF create_replicas_NextKey
<1>4. /\ fake_probabilities' = Append(fake_probabilities, r * F - f * n)
      /\ key_to_number_of_replicas_' = Assign(key_to_number_of_replicas_, k, r)
      /\ key' = k /\ r_i' = r /\ i' = 0
  BY <1>3 DEF CallInsert
<1>5. /\ n \in Nat /\ n > 0 /\ F \in Nat /\ f \in Nat /\ index \in 0..(n - 1)
      /\ k \in KeysOf(trace) /\ k # DummyKey /\ index + 1 \in 1..n
  <2>1. n \in Nat /\ n > 0 /\ \A m \in 1..n : keys[m] \in KeysOf(trace)
    BY <1>1, KeysFacts
  <2>2. F \in Nat /\ DummyKey \notin KeysOf(trace) /\ index \in 0..n
    BY <1>1, TraceFacts DEF TypeInv
  <2>3. f \in Nat
    BY <1>1, FrequencyFacts
  <2>4. index \in 0..(n - 1) /\ index + 1 \in 1..n
    BY <1>2, <2>1, <2>2
  <2> QED BY <2>1, <2>2, <2>3, <2>4
<1>6. /\ r \in Nat /\ r >= 1 /\ r <= 2 * n /\ r * F >= f * n
  BY <1>1, CeilFacts
<1>7. r * F - f * n \in Int /\ r * F - f * n >= 0 /\ f * n + (r * F - f * n) = r * F
  BY <1>5, <1>6
<1>8. Bounded(keys_created + r, index + 1)
  BY <1>1, <1>5, BoundedStep, Zenon DEF CountInv, TypeInv
<1>9. /\ fake_probabilities \in Seq(Int) /\ Len(fake_probabilities) = index
      /\ fake_probabilities' \in Seq(Int) /\ Len(fake_probabilities') = index + 1
      /\ fake_probabilities'[index + 1] = r * F - f * n
      /\ \A m \in 1..index : fake_probabilities'[m] = fake_probabilities[m]
  <2>1. fake_probabilities \in Seq(Int) /\ Len(fake_probabilities) = index
    BY <1>1, <1>2 DEF TypeInv, CountInv
  <2> QED BY <1>4, <1>7, <2>1
<1> HIDE DEF n, F, k, f
<1>map. /\ DOMAIN key_to_number_of_replicas_' = DOMAIN key_to_number_of_replicas_ \cup {k}
      /\ key_to_number_of_replicas_'[k] = r
      /\ \A y \in DOMAIN key_to_number_of_replicas_ :
           y # k => key_to_number_of_replicas_'[y] = key_to_number_of_replicas_[y]
  <2> DEFINE t == key_to_number_of_replicas_
  <2>1. /\ DOMAIN Assign(t, k, r) = DOMAIN t \cup {k}
        /\ Assign(t, k, r)[k] = r
        /\ \A y \in DOMAIN t : y # k => Assign(t, k, r)[y] = t[y]
    BY DEF Assign
  <2>2. t' = Assign(t, k, r)
    BY <1>4
  <2> QED BY <2>1, <2>2, Zenon
<1>10. TypeInv'
  <2>1. key_to_number_of_replicas_' \in [DOMAIN key_to_number_of_replicas_' -> 0..(2 * n)]
    <3>1. key_to_number_of_replicas_ \in [DOMAIN key_to_number_of_replicas_ -> 0..(2 * n)]
      BY <1>1 DEF TypeInv, n
    <3>2. r \in 0..(2 * n)
      BY <1>5, <1>6
    <3> QED BY <1>4, <3>1, <3>2, AssignType, Zenon
  <2>2. DOMAIN key_to_number_of_replicas_' \subseteq AllKeys
    BY <1>1, <1>5, <1>map DEF TypeInv, AllKeys
  <2>3. n' = n /\ AllKeys' = AllKeys
    BY <1>2 DEF AllKeys, num_keys, n
  <2>4. r_i' \in Nat /\ i' \in 0..r_i' /\ key' \in AllKeys /\ step' \in {"keys", "replicas", "dump", "done"}
    BY <1>2, <1>4, <1>5, <1>6 DEF AllKeys
  <2> QED BY <1>1, <1>2, <1>9, <2>1, <2>2, <2>3, <2>4, Zenon DEF TypeInv, n
<1>11. CountInv'
  <2>1. ASSUME NEW m \in 1..n, m <= index + 1
        PROVE  /\ keys[m] \in DOMAIN key_to_number_of_replicas_'
               /\ fake_probabilities'[m] >= 0
               /\ key_to_frequency(keys[m]) * n + fake_probabilities'[m]
                    = key_to_number_of_replicas_'[keys[m]] * F
    <3>1. CASE m = index + 1
      <4>1. keys[m] = k /\ key_to_frequency(keys[m]) = f
        BY <3>1 DEF k, f
      <4> QED BY <1>7, <1>9, <1>map, <3>1, <4>1
    <3>2. CASE m # index + 1
      <4>1. m \in 1..index /\ m <= Len(fake_probabilities)
        BY <1>5, <1>9, <2>1, <3>2
      <4>2. keys[m] # k
        <5>1. m \in DOMAIN keys /\ index + 1 \in DOMAIN keys
          BY <1>1, <1>5, KeysFacts DEF n
        <5> QED BY <1>1, <3>2, <5>1 DEF TypeInv, k
      <4>3. /\ keys[m] \in DOMAIN key_to_number_of_replicas_
            /\ fake_probabilities[m] >= 0
            /\ key_to_frequency(keys[m]) * n + fake_probabilities[m]
                 = key_to_number_of_replicas_[keys[m]] * F
        BY <1>1, <4>1 DEF CountInv, Weights, n, F
      <4> QED BY <1>9, <1>map, <4>1, <4>2, <4>3
    <3> QED BY <3>1, <3>2
  <2>2. Weights'
    BY <1>2, <1>9, <2>1, Zenon DEF Weights, n, F, num_keys, frequency_sum, key_to_frequency
  <2>3. Bounded(keys_created, index)' /\ Bounded(keys_created + r_i, index + 1)'
    BY <1>1, <1>2, <1>4, <1>8, Zenon DEF CountInv, Bounded, UpTo, LinesUpTo, num_keys, frequency_sum
  <2>4. label_count_' = keys_created' + i'
    BY <1>1, <1>2, <1>4 DEF CountInv, TypeInv
  <2>5. key' \in DOMAIN key_to_number_of_replicas_' /\ r_i' = key_to_number_of_replicas_'[key']
    BY <1>4, <1>map
  <2>6. index' < num_keys' /\ index' # num_keys' /\ Len(fake_probabilities') = index' + 1
    BY <1>2, <1>5, <1>9 DEF n, num_keys
  <2> QED BY <1>2, <2>2, <2>3, <2>4, <2>5, <2>6 DEF CountInv
<1>12. LabelInv'
  <2>1. ASSUME NEW l \in DOMAIN key_to_number_of_replicas_', NEW j \in Drawn(l)', l # k
        PROVE  Replica(l, j) \in DOMAIN replica_to_label_
    <3>1. l \in DOMAIN key_to_number_of_replicas_ /\ j \in Drawn(l)
      BY <1>map, <2>1 DEF Drawn
    <3> QED BY <1>1, <1>2, <3>1 DEF LabelInv
  <2>2. r_i' = key_to_number_of_replicas_'[key']
    BY <1>4, <1>map
  <2>3. \A l \in DOMAIN key_to_number_of_replicas_' : \A j \in Drawn(l)' :
          (step' = "replicas" /\ l = key' => j < i') => Replica(l, j) \in DOMAIN replica_to_label_
    <3> SUFFICES ASSUME NEW l \in DOMAIN key_to_number_of_replicas_', NEW j \in Drawn(l)',
                        step' = "replicas" /\ l = key' => j < i'
                 PROVE  Replica(l, j) \in DOMAIN replica_to_label_
      OBVIOUS
    <3>1. l # k
      <4> SUFFICES ASSUME l = k PROVE FALSE
        OBVIOUS
      <4>1. j < 0
        BY <1>2, <1>4
      <4>2. j \in 0..(key_to_number_of_replicas_'[l] - 1)
        BY DEF Drawn
      <4> QED BY <1>6, <1>map, <4>1, <4>2
    <3> QED BY <2>1, <3>1
  <2> QED BY <1>1, <1>2, <2>2, <2>3 DEF LabelInv
<1> QED BY <1>10, <1>11, <1>12 DEF IInv

\* insert_replicas: one label.
LEMMA InsertStep ==
  ASSUME IInv, insert_replicas
  PROVE  IInv'
<1> DEFINE x == Replica(key, i)
           r == replica_to_label_
<1>1. TypeInv /\ CountInv /\ LabelInv
  BY DEF IInv
<1>2. /\ step = "replicas" /\ i < r_i /\ i' = i + 1 /\ label_count_' = label_count_ + 1
      /\ UNCHANGED <<trace, keys, step, index, keys_created, key, r_i, fake_probabilities,
                     key_to_number_of_replicas_>>
  BY DEF insert_replicas, AssignLabel
<1>3. r' = Assign(r, x, label_count_)
  BY DEF insert_replicas, AssignLabel
<1>4. /\ DOMAIN r' = DOMAIN r \cup {x}
      /\ r'[x] = label_count_
      /\ \A y \in DOMAIN r : y # x => r'[y] = r[y]
  <2>1. /\ DOMAIN Assign(r, x, label_count_) = DOMAIN r \cup {x}
        /\ Assign(r, x, label_count_)[x] = label_count_
        /\ \A y \in DOMAIN r : y # x => Assign(r, x, label_count_)[y] = r[y]
    BY DEF Assign
  <2> QED BY <1>3, <2>1, Zenon
<1>5. labels_ \cup {to_string(label_count_)} \cup DOMAIN kv \subseteq labels_' \cup DOMAIN kv'
  BY DEF insert_replicas, AssignLabel, put_batch
<1>6. label_count_ \in Nat /\ i \in Nat /\ r_i \in Nat /\ keys_created \in Nat
  BY <1>1 DEF TypeInv
<1> HIDE DEF x
<1>7. TypeInv'
  <2>1. replica_to_label_' \in [DOMAIN replica_to_label_' -> Nat]
    BY <1>1, <1>3, <1>6, AssignType, Zenon DEF TypeInv
  <2>2. i' \in 0..r_i' /\ label_count_' \in Nat
    BY <1>2, <1>6
  <2> QED BY <1>1, <1>2, <2>1, <2>2, Zenon DEF TypeInv, AllKeys, num_keys
<1>8. CountInv'
  <2>1. label_count_' = keys_created' + i'
    BY <1>1, <1>2, <1>6 DEF CountInv
  <2>2. Weights' /\ Bounded(keys_created, index)' /\ (DummyDone => DummyDone')
    BY <1>1, <1>2, Zenon DEF CountInv, Weights, Bounded, DummyDone, UpTo, LinesUpTo, num_keys,
                      frequency_sum, key_to_frequency
  <2>3. Bounded(keys_created + r_i, index + 1) => Bounded(keys_created + r_i, index + 1)'
    BY <1>2 DEF Bounded, UpTo, LinesUpTo, num_keys, frequency_sum
  <2>4. num_keys' = num_keys
    BY <1>2 DEF num_keys
  <2> QED BY <1>1, <1>2, <2>1, <2>2, <2>3, <2>4 DEF CountInv
<1>9. LabelInv'
  <2>1. \A y \in DOMAIN r' : y # x => y \in DOMAIN r /\ r'[y] = r[y] /\ r[y] \in Nat /\ r[y] < label_count_
    BY <1>1, <1>4 DEF LabelInv, TypeInv
  <2>2. \A y \in DOMAIN r' : r'[y] < label_count_' /\ to_string(r'[y]) \in labels_' \cup DOMAIN kv'
    <3> SUFFICES ASSUME NEW y \in DOMAIN r'
                 PROVE  r'[y] < label_count_' /\ to_string(r'[y]) \in labels_' \cup DOMAIN kv'
      OBVIOUS
    <3>1. CASE y = x
      BY <1>2, <1>4, <1>5, <1>6, <3>1
    <3>2. CASE y # x
      BY <1>1, <1>2, <1>5, <1>6, <2>1, <3>2 DEF LabelInv
    <3> QED BY <3>1, <3>2
  <2>3. \A y, z \in DOMAIN r' : r'[y] = r'[z] => y = z
    <3>1. \A y, z \in DOMAIN r : r[y] = r[z] => y = z
      BY <1>1 DEF LabelInv
    <3> QED BY <1>4, <1>6, <2>1, <3>1
  <2>4. ASSUME NEW k \in DOMAIN key_to_number_of_replicas_', NEW j \in Drawn(k)',
               step' = "replicas" /\ k = key' => j < i'
        PROVE  Replica(k, j) \in DOMAIN r'
    <3>1. k \in DOMAIN key_to_number_of_replicas_ /\ j \in Drawn(k)
      BY <1>2 DEF Drawn
    <3>2. CASE k = key /\ j = i
      BY <1>4, <3>2 DEF x
    <3>3. CASE ~ (k = key /\ j = i)
      <4>1. k = key => j < i
        <5>1. j \in Int
          BY <3>1 DEF Drawn
        <5> QED BY <1>2, <1>6, <2>4, <3>3, <5>1
      <4> QED BY <1>1, <1>4, <3>1, <4>1 DEF LabelInv
    <3> QED BY <3>2, <3>3
  <2>5. r_i' = key_to_number_of_replicas_'[key'] /\ step' # "done"
    BY <1>1, <1>2 DEF LabelInv
  <2> QED BY <2>2, <2>3, <2>4, <2>5 DEF LabelInv
<1> QED BY <1>7, <1>8, <1>9 DEF IInv

\* insert_replicas_Return: back to the loop over the keys, or on to the end.
LEMMA ReturnStep ==
  ASSUME IInv, insert_replicas_Return
  PROVE  IInv'
<1>1. TypeInv /\ CountInv /\ LabelInv
  BY DEF IInv
<1>2. /\ step = "replicas" /\ i >= r_i
      /\ UNCHANGED <<trace, keys, key, r_i, i, fake_probabilities, key_to_number_of_replicas_,
                     replica_to_label_, label_count_, labels_, kv>>
  BY DEF insert_replicas_Return
<1>3. i = r_i /\ r_i \in Nat /\ keys_created \in Nat /\ index \in 0..num_keys /\ num_keys \in Nat
  BY <1>1, <1>2, KeysFacts DEF TypeInv
<1>4. num_keys' = num_keys /\ Weights' /\ (DummyDone /\ UNCHANGED keys_created => DummyDone')
  BY <1>1, <1>2 DEF CountInv, Weights, DummyDone, num_keys, frequency_sum, key_to_frequency
<1>5. LabelInv' \/ step' \notin {"keys", "dump"}
  <2> SUFFICES ASSUME step' \in {"keys", "dump"} PROVE LabelInv'
    OBVIOUS
  <2>1. ASSUME NEW k \in DOMAIN key_to_number_of_replicas_', NEW j \in Drawn(k)'
        PROVE  Replica(k, j) \in DOMAIN replica_to_label_
    <3>1. k \in DOMAIN key_to_number_of_replicas_ /\ j \in Drawn(k)
      BY <1>2 DEF Drawn
    <3>2. k = key => j < i
      BY <1>1, <1>2, <1>3, <3>1 DEF LabelInv, Drawn
    <3> QED BY <1>1, <3>1, <3>2 DEF LabelInv
  <2> QED BY <1>1, <1>2, <2>1 DEF LabelInv
<1>6. CASE index < num_keys
  <2>1. keys_created' = keys_created + r_i /\ index' = index + 1 /\ step' = "keys"
    BY <1>6 DEF insert_replicas_Return
  <2>2. TypeInv'
    BY <1>1, <1>2, <1>3, <1>6, <2>1 DEF TypeInv, AllKeys, num_keys
  <2>3. Bounded(keys_created, index)'
    <3>1. Bounded(keys_created + r_i, index + 1)
      BY <1>1, <1>2, <1>6 DEF CountInv
    <3> QED BY <1>2, <2>1, <3>1 DEF Bounded, UpTo, LinesUpTo, num_keys, frequency_sum
  <2>4. label_count_' = keys_created' /\ Len(fake_probabilities') = index'
    BY <1>1, <1>2, <1>3, <1>6, <2>1 DEF CountInv
  <2> QED BY <1>4, <1>5, <2>1, <2>2, <2>3, <2>4 DEF IInv, CountInv
<1>7. CASE index = num_keys
  <2>1. UNCHANGED <<keys_created, index>> /\ step' = "dump"
    BY <1>3, <1>7 DEF insert_replicas_Return
  <2>2. TypeInv'
    BY <1>1, <1>2, <2>1 DEF TypeInv, AllKeys, num_keys
  <2>3. Bounded(keys_created, index)'
    BY <1>1, <1>2, <2>1, Zenon DEF CountInv, Bounded, UpTo, LinesUpTo, num_keys, frequency_sum
  <2>4. DummyDone /\ key = DummyKey /\ label_count_ = keys_created + i
    BY <1>1, <1>2, <1>7 DEF CountInv
  <2>5. label_count_' = 2 * num_keys'
    <3>1. i = 2 * num_keys - keys_created
      BY <1>1, <1>2, <1>3, <2>4 DEF CountInv, DummyDone
    <3> QED BY <1>2, <1>3, <1>4, <2>4, <3>1
  <2> QED BY <1>4, <1>5, <1>7, <2>1, <2>2, <2>3, <2>4, <2>5 DEF IInv, CountInv
<1> QED BY <1>3, <1>6, <1>7

\* create_replicas_Dummy: the dummy key always gets a label.
LEMMA DummyStep ==
  ASSUME IInv, create_replicas_Dummy
  PROVE  IInv'
<1> DEFINE n == num_keys
           F == frequency_sum
           r == 2 * n - keys_created
           t == key_to_number_of_replicas_
<1>1. TypeInv /\ CountInv /\ LabelInv
  BY DEF IInv
<1>2. /\ step = "keys" /\ index = n
      /\ UNCHANGED <<trace, keys, index, keys_created, replica_to_label_, label_count_, labels_, kv>>
  BY DEF create_replicas_Dummy
<1>3. n \in Nat /\ n > 0 /\ F \in Nat /\ keys_created \in Nat
  BY <1>1, TraceFacts, KeysFacts DEF TypeInv
<1>4. r >= 1 /\ r \in Nat /\ r <= 2 * n
  <2>1. Bounded(keys_created, num_keys)
    BY <1>1, <1>2 DEF CountInv
  <2>2. r >= 1
    BY <1>1, <1>3, <2>1, BoundedEnd
  <2> QED BY <1>3, <2>2
<1>5. /\ step' = "replicas"
      /\ fake_probabilities' = Append(fake_probabilities, r * F)
      /\ t' = Assign(t, DummyKey, r) /\ key' = DummyKey /\ r_i' = r /\ i' = 0
  <2>1. CallInsert(DummyKey, r, r * F)
    BY <1>4 DEF create_replicas_Dummy
  <2> QED BY <2>1 DEF CallInsert
<1>6. /\ DOMAIN t' = DOMAIN t \cup {DummyKey}
      /\ t'[DummyKey] = r
      /\ \A y \in DOMAIN t : y # DummyKey => t'[y] = t[y]
  <2>1. /\ DOMAIN Assign(t, DummyKey, r) = DOMAIN t \cup {DummyKey}
        /\ Assign(t, DummyKey, r)[DummyKey] = r
        /\ \A y \in DOMAIN t : y # DummyKey => Assign(t, DummyKey, r)[y] = t[y]
    BY DEF Assign
  <2> QED BY <1>5, <2>1, Zenon
<1>7. /\ fake_probabilities \in Seq(Int) /\ Len(fake_probabilities) = n
      /\ fake_probabilities' \in Seq(Int) /\ Len(fake_probabilities') = n + 1
      /\ fake_probabilities'[n + 1] = r * F
      /\ \A m \in 1..n : fake_probabilities'[m] = fake_probabilities[m]
  <2>1. fake_probabilities \in Seq(Int) /\ Len(fake_probabilities) = n
    BY <1>1, <1>2 DEF TypeInv, CountInv
  <2>2. r * F \in Int
    BY <1>3, <1>4
  <2> QED BY <1>3, <1>5, <2>1, <2>2
<1>8. n' = n /\ F' = F /\ r' = r
  BY <1>2 DEF num_keys, frequency_sum
<1> HIDE DEF n, F, r
<1>9. TypeInv'
  <2>1. t' \in [DOMAIN t' -> 0..(2 * n)]
    <3>1. t \in [DOMAIN t -> 0..(2 * n)] /\ r \in 0..(2 * n)
      BY <1>1, <1>3, <1>4 DEF TypeInv, n
    <3> QED BY <1>5, <3>1, AssignType, Zenon
  <2>2. DOMAIN t' \subseteq AllKeys' /\ AllKeys' = AllKeys /\ key' \in AllKeys'
    BY <1>1, <1>2, <1>5, <1>6 DEF TypeInv, AllKeys
  <2>3. r_i' \in Nat /\ i' \in 0..r_i'
    BY <1>4, <1>5
  <2> QED BY <1>1, <1>2, <1>5, <1>7, <1>8, <2>1, <2>2, <2>3 DEF TypeInv, n
<1>10. CountInv'
  <2>1. \A m \in 1..n : /\ keys[m] \in DOMAIN t /\ keys[m] # DummyKey
                        /\ fake_probabilities[m] >= 0
                        /\ key_to_frequency(keys[m]) * n + fake_probabilities[m] = t[keys[m]] * F
    <3>1. \A m \in 1..n : keys[m] \in KeysOf(trace)
      BY <1>1, KeysFacts DEF n
    <3>2. DummyKey \notin KeysOf(trace)
      BY <1>1, TraceFacts DEF TypeInv
    <3>3. \A m \in 1..n : m <= Len(fake_probabilities)
      BY <1>3, <1>7
    <3>4. Weights
      BY <1>1 DEF CountInv
    <3> QED BY <3>1, <3>2, <3>3, <3>4 DEF Weights, n, F
  <2>2. \A m \in 1..n : /\ keys[m] \in DOMAIN t'
                        /\ fake_probabilities'[m] >= 0
                        /\ key_to_frequency(keys[m]) * n + fake_probabilities'[m] = t'[keys[m]] * F
    BY <1>6, <1>7, <2>1
  <2>3. Weights'
    BY <1>2, <2>2 DEF Weights, n, F, num_keys, frequency_sum, key_to_frequency
  <2>4. Bounded(keys_created, index)'
    BY <1>1, <1>2 DEF CountInv, Bounded, UpTo, LinesUpTo, num_keys, frequency_sum
  <2>5. DummyDone'
    <3>1. /\ Len(fake_probabilities') = n' + 1
          /\ t'[DummyKey] = 2 * n' - keys_created'
          /\ fake_probabilities'[n' + 1] = t'[DummyKey] * F'
      BY <1>2, <1>6, <1>7, <1>8 DEF r
    <3> QED BY <1>4, <1>6, <3>1 DEF DummyDone, n, F
  <2>6. label_count_' = keys_created' + i' /\ index' = n' /\ ~ (index' < n')
    BY <1>1, <1>2, <1>3, <1>5, <1>8 DEF CountInv, TypeInv
  <2> QED BY <1>5, <1>6, <2>3, <2>4, <2>5, <2>6 DEF CountInv, n
<1>11. LabelInv'
  <2>1. ASSUME NEW k \in DOMAIN key_to_number_of_replicas_', NEW j \in Drawn(k)',
               k = DummyKey => j < 0
        PROVE  Replica(k, j) \in DOMAIN replica_to_label_
    <3>1. j \in 0..(t'[k] - 1)
      BY DEF Drawn
    <3>2. k # DummyKey
      BY <1>4, <1>6, <2>1, <3>1
    <3>3. k \in DOMAIN t /\ j \in Drawn(k)
      BY <1>6, <3>1, <3>2 DEF Drawn
    <3> QED BY <1>1, <1>2, <3>3, Zenon DEF LabelInv
  <2>2. r_i' = key_to_number_of_replicas_'[key']
    BY <1>5, <1>6
  <2> QED BY <1>1, <1>2, <1>5, <2>1, <2>2, Zenon DEF LabelInv
<1> QED BY <1>9, <1>10, <1>11 DEF IInv

\* create_replicas_Dump: the last labels are stored, then the file is written.
LEMMA DumpStep ==
  ASSUME IInv, create_replicas_Dump
  PROVE  IInv'
<1>1. TypeInv /\ CountInv /\ LabelInv
  BY DEF IInv
<1>2. step = "dump" /\ step' = "done" /\ UNCHANGED <<trace, keys, createVars>>
  BY DEF create_replicas_Dump, dump
<1>3. DOMAIN kv' = DOMAIN kv \cup labels_
  BY DEF create_replicas_Dump, put_batch
<1>4. TypeInv'
  BY <1>1, <1>2 DEF TypeInv, AllKeys, num_keys, createVars
<1>5. CountInv'
  <2>1. Weights' /\ Bounded(keys_created, index)' /\ DummyDone'
    BY <1>1, <1>2, Zenon DEF CountInv, Weights, Bounded, DummyDone, UpTo, LinesUpTo, num_keys,
                      frequency_sum, key_to_frequency, createVars
  <2>2. num_keys' = num_keys /\ index' = num_keys' /\ label_count_' = 2 * num_keys'
    BY <1>1, <1>2 DEF CountInv, num_keys, createVars
  <2> QED BY <1>2, <2>1, <2>2 DEF CountInv
<1>6. LabelInv'
  <2>1. \A k \in DOMAIN key_to_number_of_replicas_' : \A j \in Drawn(k)' :
          Replica(k, j) \in DOMAIN replica_to_label_'
    BY <1>1, <1>2 DEF LabelInv, Drawn, createVars
  <2> QED BY <1>1, <1>2, <1>3, <2>1, Zenon DEF LabelInv, createVars
<1> QED BY <1>4, <1>5, <1>6 DEF IInv

\* The state that initializer_init leaves satisfies the invariant.
LEMMA InitStep ==
  ASSUME initializer_init, kv = << >>
  PROVE  IInv
<1> USE DEF initializer_init, load_frequencies_from_trace
<1>1. Cardinality(KeysOf(trace)) \in Nat /\ frequency_sum \in Nat
  BY TraceFacts
<1>2. num_keys = Cardinality(KeysOf(trace))
  <2>1. keys \in [1..Cardinality(KeysOf(trace)) -> KeysOf(trace)]
    OBVIOUS
  <2>2. keys \in Seq(KeysOf(trace)) /\ Len(keys) = Cardinality(KeysOf(trace))
    BY <1>1, <2>1
  <2> QED BY <2>2 DEF num_keys
<1>3. TypeInv
  BY <1>1, <1>2 DEF TypeInv, AllKeys
<1>4. CountInv
  <2>1. UpTo(0) = 0
    BY <1>3, UpToFacts
  <2>2. Bounded(0, 0)
    BY <1>1, <1>2, <2>1 DEF Bounded
  <2>3. Weights
    BY <1>1, <1>2 DEF Weights
  <2> QED BY <2>2, <2>3 DEF CountInv
<1>5. LabelInv
  BY DEF LabelInv
<1> QED BY <1>3, <1>4, <1>5 DEF IInv

\* Every step of init_main keeps the invariant.
LEMMA MainStep ==
  ASSUME IInv, InitMain
  PROVE  IInv'
BY NextKeyStep, InsertStep, ReturnStep, DummyStep, DumpStep DEF InitMain

\* The invariant gives the two properties of the distribution file.
LEMMA InvSmooth ==
  ASSUME IInv
  PROVE  Smooth
<1> SUFFICES ASSUME step = "done" PROVE Smooth
  BY DEF Smooth
<1>1. /\ Weights /\ DummyDone /\ label_count_ = 2 * num_keys /\ num_keys \in Nat
  BY KeysFacts, Zenon DEF IInv, CountInv
<1>2. \A m \in 1..num_keys : m <= Len(fake_probabilities)
  BY <1>1 DEF DummyDone
<1> QED BY <1>1, <1>2 DEF Smooth, Weights, DummyDone

\* When the file is written every label is stored, and labels were never reused.
LEMMA InvResolvable ==
  ASSUME IInv
  PROVE  Resolvable
<1> SUFFICES ASSUME step = "done",
                    NEW k \in DOMAIN key_to_number_of_replicas_, NEW j \in Drawn(k)
             PROVE  /\ Replica(k, j) \in DOMAIN replica_to_label_
                    /\ to_string(LabelOf(k, j)) \in DOMAIN kv
                    /\ \A l \in DOMAIN key_to_number_of_replicas_ : \A o \in Drawn(l) :
                         LabelOf(k, j) = LabelOf(l, o) => Replica(k, j) = Replica(l, o)
  BY DEF Resolvable
<1>1. LabelInv
  BY DEF IInv
<1>2. \A l \in DOMAIN key_to_number_of_replicas_ : \A o \in Drawn(l) :
        Replica(l, o) \in DOMAIN replica_to_label_
  BY <1>1 DEF LabelInv
<1>3. ASSUME NEW l \in DOMAIN key_to_number_of_replicas_, NEW o \in Drawn(l),
             LabelOf(k, j) = LabelOf(l, o)
      PROVE  Replica(k, j) = Replica(l, o)
  BY <1>1, <1>2, <1>3 DEF LabelInv, LabelOf
<1> QED BY <1>1, <1>2, <1>3 DEF LabelInv, LabelOf

(***************************************************************************)
(* Theorems                                                                *)
(***************************************************************************)

\* IInv holds in every state of `proxy_server init`: replicas are counted
\* against the lines of the keys that are done, and labels against replicas.
THEOREM InitializerInvariant == InitSpec => []IInv
<1>1. initializer_init /\ kv = << >> => IInv
  BY InitStep
<1>2. IInv /\ [InitMain]_initVars => IInv'
  <2> SUFFICES ASSUME IInv, [InitMain]_initVars PROVE IInv'
    OBVIOUS
  <2>1. CASE InitMain
    BY <2>1, MainStep
  <2>2. CASE UNCHANGED initVars
    <3> USE <2>2 DEF initVars, createVars
    <3>1. TypeInv'
      BY DEF IInv, TypeInv, AllKeys, num_keys
    <3>2. CountInv'
      <4>1. Weights <=> Weights'
        BY Zenon DEF Weights, num_keys, frequency_sum, key_to_frequency
      <4>2. DummyDone <=> DummyDone'
        BY DEF DummyDone, num_keys, frequency_sum
      <4>3. Bounded(keys_created, index) <=> Bounded(keys_created, index)'
        BY DEF Bounded, UpTo, LinesUpTo, num_keys, frequency_sum
      <4>4. Bounded(keys_created + r_i, index + 1) <=> Bounded(keys_created + r_i, index + 1)'
        BY DEF Bounded, UpTo, LinesUpTo, num_keys, frequency_sum
      <4> QED BY <4>1, <4>2, <4>3, <4>4, Zenon DEF IInv, CountInv, num_keys
    <3>3. LabelInv'
      BY DEF IInv, LabelInv, Drawn
    <3> QED BY <3>1, <3>2, <3>3 DEF IInv
  <2> QED BY <2>1, <2>2
<1> QED BY <1>1, <1>2, PTL DEF InitSpec

\* `proxy_server init` gives every replica the same access probability and the
\* dummy key at least one of the 2n labels, for every trace and every way in
\* which ceil(pi/alpha_) is rounded.
THEOREM SmoothTheorem == InitSpec => []Smooth
BY InitializerInvariant, InvSmooth, PTL

\* Every replica that a proxy can draw has a label that is in the store before
\* the distribution file exists, and shares it only with a replica of the same
\* name, for every trace.
THEOREM ResolvableTheorem == InitSpec => []Resolvable
BY InitializerInvariant, InvResolvable, PTL
=============================================================================
