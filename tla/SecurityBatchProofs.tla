------------------------- MODULE SecurityBatchProofs -------------------------
(***************************************************************************)
(* Proofs about SecurityBatch, for every batch size and any number of      *)
(* requests, however the clients group them into RPCs and whatever coins   *)
(* come up: client requests leave in the order in which they came, each    *)
(* once; with -f none of them waits, and an unknown key costs no request   *)
(* of another RPC.                                                         *)
(***************************************************************************)
EXTENDS SecurityBatch, FiniteSetTheorems, TLAPS

-----------------------------------------------------------------------------
(***************************************************************************)
(* Counting the coins                                                      *)
(***************************************************************************)

\* A non-empty set of numbers has a least one.
LEMMA LeastOf ==
  ASSUME NEW S \in SUBSET Nat, S # {}
  PROVE  \E x \in S : \A y \in S : x <= y
<1> DEFINE R == OpToRel(<, Nat)
<1>1. IsWellFoundedOn(R, Nat)
  BY NatLessThanWellFounded
<1>2. PICK x \in S : \A y \in S : ~(<<y, x>> \in R)
  <2> HIDE DEF R
  <2> QED BY <1>1, WFMin, Zenon
<1>3. \A y \in S : ~(y < x)
  BY <1>2 DEF OpToRel
<1>4. ASSUME NEW y \in S PROVE x <= y
  <2>1. x \in Nat /\ y \in Nat /\ ~(y < x)
    BY <1>2, <1>3
  <2> QED BY <2>1
<1> QED BY <1>2, <1>4

\* The coins of the first slots, one more at a time.
Trues(coins, i) == {j \in 1..i : coins[j]}

\* How many coins came up true grows by at most one from slot to slot.
LEMMA TruesFacts ==
  ASSUME NEW coins
  PROVE  /\ Cardinality(Trues(coins, 0)) = 0
         /\ \A i \in Nat : Cardinality(Trues(coins, i)) \in Nat
         /\ \A i, j \in Nat :
               i <= j => Cardinality(Trues(coins, i)) <= Cardinality(Trues(coins, j))
         /\ \A i \in Nat \ {0} :
               Cardinality(Trues(coins, i)) <= Cardinality(Trues(coins, i - 1)) + 1
         /\ \A i \in Nat : Trues(coins, i) # {} => Cardinality(Trues(coins, i)) # 0
<1>1. \A i \in Nat : IsFiniteSet(Trues(coins, i))
  <2>1. \A i \in Nat : IsFiniteSet(1..i)
    BY FS_Interval
  <2>2. \A i \in Nat : Trues(coins, i) \subseteq 1..i
    BY DEF Trues
  <2> QED BY <2>1, <2>2, FS_Subset, Zenon
<1>2. \A i \in Nat : Cardinality(Trues(coins, i)) \in Nat
  BY <1>1, FS_CardinalityType, Zenon
<1>3. Trues(coins, 0) = {}
  BY DEF Trues
<1>4. ASSUME NEW i \in Nat, NEW j \in Nat, i <= j
      PROVE  Cardinality(Trues(coins, i)) <= Cardinality(Trues(coins, j))
  <2>1. Trues(coins, i) \subseteq Trues(coins, j)
    BY <1>4 DEF Trues
  <2> QED BY <1>1, <2>1, FS_Subset, Zenon
<1>5. ASSUME NEW i \in Nat \ {0}
      PROVE  Cardinality(Trues(coins, i)) <= Cardinality(Trues(coins, i - 1)) + 1
  <2>1. i - 1 \in Nat /\ i \in Nat
    BY <1>5
  <2> DEFINE S == Trues(coins, i - 1)
             T == Trues(coins, i)
  <2>2. T \subseteq S \cup {i} /\ i \notin S
    BY <2>1 DEF Trues
  <2>3. IsFiniteSet(S) /\ Cardinality(S) \in Nat /\ Cardinality(T) \in Nat
    BY <1>1, <1>2, <2>1, Zenon
  <2> HIDE DEF S, T
  <2>4. IsFiniteSet(S \cup {i}) /\ Cardinality(S \cup {i}) = Cardinality(S) + 1
    BY <2>2, <2>3, FS_AddElement, Zenon
  <2>5. Cardinality(T) <= Cardinality(S \cup {i})
    BY <2>2, <2>4, FS_Subset, Zenon
  <2>6. Cardinality(T) <= Cardinality(S) + 1
    BY <2>4, <2>5
  <2> QED BY <2>6 DEF S, T
<1>6. ASSUME NEW i \in Nat, Trues(coins, i) # {}
      PROVE  Cardinality(Trues(coins, i)) # 0
  BY <1>1, <1>6, FS_EmptySet, Zenon
<1>7. Cardinality(Trues(coins, 0)) = 0
  BY <1>3, FS_EmptySet, Zenon
<1> QED BY <1>2, <1>4, <1>5, <1>6, <1>7, Zenon

\* Requests leave the queue one at a time: t[i] of the n requests have left it
\* after slot i.
Leaving(t, n) ==
    /\ t \in [0..BatchSize -> 0..n]
    /\ t[0] = 0
    /\ \A i, j \in 0..BatchSize : i <= j => t[i] <= t[j]
    /\ \A i \in Slots : t[i] <= t[i - 1] + 1

TakenAt(q, coins) == [i \in 0..BatchSize |-> Taken(q, coins, i)]

\* The requests that create_security_batch has taken after each slot.
LEMMA TakenLeaves ==
  ASSUME NEW q \in Seq(Nat), NEW coins
  PROVE  Leaving(TakenAt(q, coins), Len(q))
<1> DEFINE c == [i \in Nat |-> Cardinality(Trues(coins, i))]
           n == Len(q)
           t == TakenAt(q, coins)
<1>1. /\ c \in [Nat -> Nat] /\ c[0] = 0
      /\ \A i, j \in Nat : i <= j => c[i] <= c[j]
      /\ \A i \in Nat \ {0} : i - 1 \in Nat /\ c[i] <= c[i - 1] + 1
  <2>1. \A i \in Nat \ {0} : i - 1 \in Nat
    OBVIOUS
  <2>2. 0 \in Nat
    OBVIOUS
  <2> QED BY <2>1, <2>2, TruesFacts, Zenon
<1>2. n \in Nat
  OBVIOUS
<1>3. \A i \in 0..BatchSize : i \in Nat
  BY SecurityBatchAssumption
<1>4. \A i \in 0..BatchSize : t[i] = IF c[i] < n THEN c[i] ELSE n
  BY <1>3, Zenon DEF TakenAt, Taken, Trues
<1>5. DOMAIN t = 0..BatchSize /\ t = [i \in 0..BatchSize |-> t[i]]
  BY Zenon DEF TakenAt
<1> HIDE DEF c, n, t
<1>6. ASSUME NEW i \in 0..BatchSize PROVE t[i] \in 0..n
  <2>1. c[i] \in Nat
    BY <1>1, <1>3, Zenon
  <2> QED BY <1>2, <1>4, <2>1
<1>7. t \in [0..BatchSize -> 0..n]
  BY <1>5, <1>6, Zenon
<1>8. t[0] = 0
  BY <1>1, <1>2, <1>4, SecurityBatchAssumption
<1>9. ASSUME NEW i \in 0..BatchSize, NEW j \in 0..BatchSize, i <= j PROVE t[i] <= t[j]
  <2>1. c[i] <= c[j] /\ c[i] \in Nat /\ c[j] \in Nat
    BY <1>1, <1>3, <1>9
  <2> QED BY <1>2, <1>4, <2>1
<1>10. ASSUME NEW i \in Slots PROVE t[i] <= t[i - 1] + 1
  <2>1. i \in 0..BatchSize /\ i - 1 \in 0..BatchSize /\ i \in Nat \ {0}
    BY SecurityBatchAssumption DEF Slots
  <2>2. c[i] <= c[i - 1] + 1 /\ c[i] \in Nat /\ c[i - 1] \in Nat
    BY <1>1, <1>3, <2>1
  <2> QED BY <1>2, <1>4, <2>1, <2>2
<1>11. Leaving(t, n)
  BY <1>7, <1>8, <1>9, <1>10, Zenon DEF Leaving
<1> QED BY <1>11 DEF t, n

\* The k-th request leaves at some slot.
LEMMA LeavesAt ==
  ASSUME NEW n \in Nat, NEW t, Leaving(t, n),
         NEW l \in 0..BatchSize, NEW k \in 1..t[l]
  PROVE  \E i \in 1..l : t[i] = k /\ t[i - 1] = k - 1
<1>1. l \in Nat /\ l <= BatchSize /\ BatchSize \in Nat
  BY SecurityBatchAssumption
<1>2. \A i \in 0..l : i \in 0..BatchSize /\ t[i] \in Nat
  BY <1>1 DEF Leaving
<1>3. k \in Nat /\ k >= 1 /\ k <= t[l]
  BY <1>1, <1>2
<1> DEFINE S == {i \in 0..l : t[i] >= k}
<1>4. S \in SUBSET Nat /\ l \in S
  BY <1>1, <1>3
<1>5. PICK x \in S : \A y \in S : x <= y
  <2> HIDE DEF S
  <2> QED BY <1>4, LeastOf, Zenon
<1>6. x \in 0..l /\ t[x] >= k /\ t[x] \in Nat
  BY <1>2, <1>5
<1>7. x # 0
  BY <1>3, <1>6 DEF Leaving
<1>8. x \in 1..l /\ x \in Slots /\ x - 1 \in 0..l /\ ~(x <= x - 1)
  BY <1>1, <1>6, <1>7 DEF Slots
<1>9. ~(t[x - 1] >= k) /\ t[x - 1] \in Nat
  BY <1>2, <1>5, <1>8
<1>10. t[x] <= t[x - 1] + 1
  BY <1>8 DEF Leaving
<1>11. t[x] = k /\ t[x - 1] = k - 1
  BY <1>3, <1>6, <1>9, <1>10
<1> QED BY <1>8, <1>11

\* What the slots carry, s[i] being Slot(q, coins, i): the first t[l] requests
\* of the queue in the first l slots, in their order.
Carries(s, q, t) ==
    /\ s \in [Slots -> Nat]
    /\ \A i \in Slots : s[i] = IF t[i] > t[i - 1] THEN q[t[i]] ELSE Fake

First(q, n) == {q[k] : k \in 1..n}

Carried(s, l) == {s[i] : i \in 1..l} \ {Fake}

LEMMA CarriesFirst ==
  ASSUME NEW q \in Seq(Nat \ {0}), NEW t, Leaving(t, Len(q)),
         NEW s, Carries(s, q, t), NEW l \in 0..BatchSize
  PROVE  Carried(s, l) = First(q, t[l])
<1>1. l \in Nat /\ l <= BatchSize /\ BatchSize \in Nat /\ Len(q) \in Nat
  BY SecurityBatchAssumption
<1>2. \A i \in 0..l : i \in 0..BatchSize /\ t[i] \in 0..Len(q)
  BY <1>1 DEF Leaving
<1>3. ASSUME NEW i \in 1..l, s[i] # Fake PROVE s[i] \in First(q, t[l])
  <2>1. i \in Slots /\ i \in 0..l /\ i - 1 \in 0..l /\ l \in 0..l /\ i <= l
    BY <1>1 DEF Slots
  <2>2. t[i] > t[i - 1] /\ s[i] = q[t[i]]
    BY <1>3, <2>1 DEF Carries
  <2>3. t[i] <= t[l]
    BY <1>2, <2>1 DEF Leaving
  <2>4. t[i] \in Nat /\ t[i - 1] \in Nat /\ t[l] \in Nat
    BY <1>2, <2>1
  <2>5. t[i] \in 1..t[l]
    BY <2>2, <2>3, <2>4
  <2> QED BY <2>2, <2>5, Zenon DEF First
<1>4. ASSUME NEW k \in 1..t[l] PROVE \E i \in 1..l : s[i] = q[k] /\ q[k] # Fake
  <2>1. PICK i \in 1..l : t[i] = k /\ t[i - 1] = k - 1
    <3>1. Len(q) \in Nat
      BY <1>1
    <3> QED BY <3>1, <1>4, LeavesAt, SMT
  <2>2. i \in Slots /\ l \in 0..l
    BY <1>1 DEF Slots
  <2>3. t[l] \in 0..Len(q)
    BY <1>2, <2>2, Zenon
  <2>4. k \in 1..Len(q) /\ k > k - 1
    BY <1>1, <2>3
  <2>5. s[i] = q[k]
    BY <2>1, <2>2, <2>4 DEF Carries
  <2>6. q[k] # Fake
    BY <2>4 DEF Fake
  <2> QED BY <2>5, <2>6
<1> QED BY <1>3, <1>4, Zenon DEF First, Carried

\* Two slots that carry client requests carry them in their order.
LEMMA CarriesInOrder ==
  ASSUME NEW q \in Seq(Nat \ {0}), Increasing(q), NEW t, Leaving(t, Len(q)),
         NEW s, Carries(s, q, t),
         NEW i \in Slots, NEW j \in Slots, i < j, s[i] # Fake, s[j] # Fake
  PROVE  s[i] < s[j]
<1>1. /\ i \in 0..BatchSize /\ i - 1 \in 0..BatchSize
      /\ j \in 0..BatchSize /\ j - 1 \in 0..BatchSize /\ i <= j - 1
  BY SecurityBatchAssumption DEF Slots
<1>2. t[i] > t[i - 1] /\ s[i] = q[t[i]] /\ t[j] > t[j - 1] /\ s[j] = q[t[j]]
  BY DEF Carries
<1>3. t[i] <= t[j - 1]
  BY <1>1 DEF Leaving
<1>4. /\ t[i] \in 0..Len(q) /\ t[i - 1] \in 0..Len(q)
      /\ t[j] \in 0..Len(q) /\ t[j - 1] \in 0..Len(q)
  BY <1>1 DEF Leaving
<1>5. t[i] \in 1..Len(q) /\ t[j] \in 1..Len(q) /\ t[i] < t[j]
  <2> DEFINE n == Len(q)
  <2>1. n \in Nat
    OBVIOUS
  <2> HIDE DEF n
  <2>2. t[i] \in 0..n /\ t[i - 1] \in 0..n /\ t[j] \in 0..n /\ t[j - 1] \in 0..n
    BY <1>4 DEF n
  <2>3. t[i] \in 1..n /\ t[j] \in 1..n /\ t[i] < t[j]
    BY <1>2, <1>3, <2>1, <2>2
  <2> QED BY <2>3 DEF n
<1>6. q[t[i]] < q[t[j]]
  BY <1>5 DEF Increasing
<1> QED BY <1>2, <1>6

-----------------------------------------------------------------------------
(***************************************************************************)
(* Queues                                                                  *)
(***************************************************************************)

\* What stays in the queue when its first n requests have left.
LEMMA RestOf ==
  ASSUME NEW q \in Seq(Nat \ {0}), Increasing(q), NEW n \in 0..Len(q)
  PROVE  LET r == SubSeq(q, n + 1, Len(q))
         IN  /\ r \in Seq(Nat \ {0}) /\ Increasing(r)
             /\ Range(q) = First(q, n) \cup Range(r)
             /\ AllBefore(First(q, n), Range(r))
<1> DEFINE r == SubSeq(q, n + 1, Len(q))
<1>1. n \in Nat /\ Len(q) \in Nat /\ n <= Len(q) /\ DOMAIN q = 1..Len(q)
  OBVIOUS
<1>2. r \in Seq(Nat \ {0}) /\ DOMAIN r = 1..(Len(q) - n)
  BY <1>1
<1>3. ASSUME NEW i \in DOMAIN r PROVE r[i] = q[n + i] /\ n + i \in DOMAIN q
  <2>1. i \in 1..(Len(q) - n)
    BY <1>2, <1>3
  <2>2. n + i \in DOMAIN q
    <3> HIDE DEF r
    <3> QED BY <1>1, <2>1
  <2>3. i \in 1..(Len(q) - (n + 1) + 1) /\ (n + 1) + i - 1 = n + i
    <3> HIDE DEF r
    <3> QED BY <1>1, <2>1
  <2>4. r[i] = q[(n + 1) + i - 1]
    <3> DEFINE m == n + 1
               l == Len(q)
    <3>1. m \in Nat /\ l \in Nat /\ i \in 1..(l - m + 1)
      BY <1>1, <2>3
    <3> HIDE DEF m, l
    <3>2. SubSeq(q, m, l) = [j \in 1..(l - m + 1) |-> q[m + j - 1]]
      BY <3>1
    <3>3. SubSeq(q, m, l)[i] = q[m + i - 1]
      BY <3>1, <3>2, Zenon
    <3> QED BY <3>3 DEF m, l
  <2> QED BY <2>2, <2>3, <2>4
<1>4. \A k \in DOMAIN q : k \in 1..n \/ (k - n \in DOMAIN r /\ k = n + (k - n) /\ k > n)
  BY <1>1, <1>2
<1>5. \A k \in 1..n : k \in DOMAIN q
  BY <1>1
<1>6. \A k \in 1..n, i \in DOMAIN r : k < n + i
  BY <1>1, <1>2
<1>7. \A i, j \in DOMAIN r : i < j => n + i < n + j
  BY <1>1, <1>2
<1> HIDE DEF r
<1>8. Increasing(r)
  BY <1>3, <1>7, Zenon DEF Increasing
<1>9. AllBefore(First(q, n), Range(r))
  BY <1>3, <1>5, <1>6 DEF AllBefore, First, Range, Increasing
<1>10. Range(q) = First(q, n) \cup Range(r)
  <2>1. ASSUME NEW k \in DOMAIN q PROVE q[k] \in First(q, n) \cup Range(r)
    <3>1. CASE k \in 1..n
      BY <3>1, Zenon DEF First
    <3>2. CASE k - n \in DOMAIN r /\ k = n + (k - n)
      <4>1. r[k - n] = q[k]
        BY <1>3, <3>2
      <4> QED BY <3>2, <4>1, Zenon DEF Range
    <3> QED BY <1>4, <3>1, <3>2
  <2>2. First(q, n) \subseteq Range(q)
    BY <1>5, Zenon DEF First, Range
  <2>3. Range(r) \subseteq Range(q)
    BY <1>3, Zenon DEF Range
  <2> QED BY <2>1, <2>2, <2>3, Zenon DEF Range
<1> QED BY <1>2, <1>8, <1>9, <1>10 DEF r

\* A request that is later than all that wait joins the queue at its end.
LEMMA AppendLater ==
  ASSUME NEW q \in Seq(Nat \ {0}), Increasing(q), NEW x \in Nat \ {0},
         \A y \in Range(q) : y < x
  PROVE  /\ Append(q, x) \in Seq(Nat \ {0}) /\ Increasing(Append(q, x))
         /\ Range(Append(q, x)) = Range(q) \cup {x}
<1> DEFINE a == Append(q, x)
<1>1. a \in Seq(Nat \ {0}) /\ DOMAIN a = 1..(Len(q) + 1) /\ DOMAIN q = 1..Len(q) /\ Len(q) \in Nat
  OBVIOUS
<1>2. a[Len(q) + 1] = x /\ \A i \in DOMAIN q : i \in DOMAIN a /\ a[i] = q[i]
  OBVIOUS
<1> HIDE DEF a
<1>3. Len(q) + 1 \in DOMAIN a /\ \A i \in DOMAIN a : i \in DOMAIN q \/ i = Len(q) + 1
  BY <1>1
<1>4. Range(a) = Range(q) \cup {x}
  BY <1>2, <1>3, Zenon DEF Range
<1>5. ASSUME NEW i \in DOMAIN a, NEW j \in DOMAIN a, i < j PROVE a[i] < a[j]
  <2>1. i \in DOMAIN q
    BY <1>1, <1>5
  <2>2. CASE j \in DOMAIN q
    BY <1>2, <1>5, <2>1, <2>2 DEF Increasing
  <2>3. CASE j = Len(q) + 1
    BY <1>2, <2>1, <2>3, Zenon DEF Range
  <2> QED BY <1>3, <2>2, <2>3
<1>6. Increasing(a)
  BY <1>5, Zenon DEF Increasing
<1> QED BY <1>1, <1>4, <1>6 DEF a

\* The head of a queue, and the rest of it.
LEMMA HeadAndTail ==
  ASSUME NEW q \in Seq(Nat \ {0}), q # <<>>, Increasing(q)
  PROVE  /\ Head(q) \in Nat \ {0} /\ Head(q) = q[1] /\ 1 \in DOMAIN q
         /\ Tail(q) \in Seq(Nat \ {0}) /\ Len(Tail(q)) = Len(q) - 1
         /\ \A i \in DOMAIN Tail(q) : i + 1 \in DOMAIN q /\ Tail(q)[i] = q[i + 1]
         /\ Increasing(Tail(q))
         /\ Range(q) = {Head(q)} \cup Range(Tail(q))
         /\ \A y \in Range(Tail(q)) : Head(q) < y
<1> DEFINE r == Tail(q)
<1>1. Head(q) \in Nat \ {0} /\ Head(q) = q[1] /\ 1 \in DOMAIN q
  OBVIOUS
<1>2. r \in Seq(Nat \ {0}) /\ Len(r) = Len(q) - 1
  OBVIOUS
<1>3. \A i \in DOMAIN r : i + 1 \in DOMAIN q /\ r[i] = q[i + 1] /\ 1 < i + 1
  OBVIOUS
<1>4. \A i, j \in DOMAIN r : i < j => i + 1 < j + 1
  OBVIOUS
<1>5. \A k \in DOMAIN q : k = 1 \/ (k - 1 \in DOMAIN r /\ (k - 1) + 1 = k)
  OBVIOUS
<1> HIDE DEF r
<1>6. Increasing(r)
  BY <1>3, <1>4, Zenon DEF Increasing
<1>7. \A y \in Range(r) : Head(q) < y
  BY <1>1, <1>3 DEF Range, Increasing
<1>8. Range(r) \subseteq Range(q) /\ Head(q) \in Range(q)
  <2>1. \A i \in DOMAIN r : r[i] \in {q[k] : k \in DOMAIN q}
    BY <1>3
  <2>2. Head(q) \in Range(q)
    BY <1>1, Zenon DEF Range
  <2> QED BY <2>1, <2>2, Zenon DEF Range
<1>9. ASSUME NEW k \in DOMAIN q PROVE q[k] \in {Head(q)} \cup Range(r)
  <2>1. CASE k = 1
    BY <1>1, <2>1
  <2>2. CASE k - 1 \in DOMAIN r /\ (k - 1) + 1 = k
    <3>1. r[k - 1] = q[k]
      BY <1>3, <2>2
    <3> QED BY <2>2, <3>1, Zenon DEF Range
  <2> QED BY <1>5, <2>1, <2>2
<1>10. Range(q) = {Head(q)} \cup Range(r)
  BY <1>8, <1>9, Zenon DEF Range
<1> QED BY <1>1, <1>2, <1>3, <1>6, <1>7, <1>10 DEF r

-----------------------------------------------------------------------------
(***************************************************************************)
(* The invariant.  The requests of the current RPC are the last ones that  *)
(* arrived, and no RPC began after the first of them.                      *)
(***************************************************************************)
Typed ==
    /\ disable_all_false_ \in BOOLEAN
    /\ arrived \in Nat
    /\ rpc \in Seq(Nat \ {0})
    /\ internal_queue_ \in Seq(Nat \ {0})
    /\ batches \in Seq([Slots -> Nat])
    /\ refused \subseteq 1..arrived

LastArrived == \A i \in DOMAIN rpc : rpc[i] = arrived - Len(rpc) + i

BegunBefore == \A b \in begins : b \in Nat /\ b <= arrived - Len(rpc) + 1

IInv == Typed /\ LastArrived /\ BegunBefore /\ FifoOnce /\ NobodyWaits /\ OnlyItsOwnRpc

\* Nothing has arrived, nothing waits.
LEMMA InitIInv == Init => IInv
<1> SUFFICES ASSUME Init PROVE IInv
  OBVIOUS
<1>1. /\ arrived = 0 /\ rpc = <<>> /\ internal_queue_ = <<>> /\ batches = <<>>
      /\ refused = {} /\ begins = {} /\ disable_all_false_ \in BOOLEAN
  BY DEF Init
<1>2. Typed
  BY <1>1 DEF Typed
<1>3. DOMAIN rpc = {} /\ DOMAIN internal_queue_ = {} /\ DOMAIN batches = {} /\ 1..arrived = {}
  BY <1>1
<1>4. LastArrived
  BY <1>3, Zenon DEF LastArrived
<1>5. Range(rpc) = {} /\ Range(internal_queue_) = {} /\ Sent = {}
  BY <1>3 DEF Range, Sent
<1>6. FifoOnce
  BY <1>1, <1>3, <1>5 DEF FifoOnce, Increasing, AllBefore
<1>7. NobodyWaits /\ OnlyItsOwnRpc /\ BegunBefore
  BY <1>1 DEF NobodyWaits, OnlyItsOwnRpc, BegunBefore
<1> QED BY <1>2, <1>4, <1>6, <1>7 DEF IInv

\* An RPC brings the next requests.
LEMMA RpcStep ==
  ASSUME IInv, NEW m \in 1..MaxRpc, Rpc(m)
  PROVE  IInv'
<1>1. /\ rpc = <<>> /\ arrived' = arrived + m /\ rpc' = [i \in 1..m |-> arrived + i]
      /\ begins' = begins \cup {arrived + 1}
      /\ UNCHANGED <<disable_all_false_, known, internal_queue_, batches, refused>>
  BY DEF Rpc, config
<1>2. arrived \in Nat /\ m \in Nat \ {0} /\ refused \subseteq 1..arrived
  BY SecurityBatchAssumption DEF IInv, Typed
<1>3. /\ rpc' \in Seq(Nat \ {0}) /\ Len(rpc') = m /\ DOMAIN rpc' = 1..m
      /\ \A i \in 1..m : rpc'[i] = arrived + i
  BY <1>1, <1>2
<1>4. Typed'
  <2>1. refused' \subseteq 1..arrived' /\ arrived' \in Nat
    BY <1>1, <1>2
  <2>2. /\ disable_all_false_ \in BOOLEAN /\ internal_queue_ \in Seq(Nat \ {0})
        /\ batches \in Seq([Slots -> Nat])
    BY DEF IInv, Typed
  <2> QED BY <1>1, <1>3, <2>1, <2>2 DEF Typed, Slots
<1>5. LastArrived'
  BY <1>1, <1>2, <1>3 DEF LastArrived
<1>6. Range(rpc') = (arrived + 1)..(arrived + m)
  <2>1. \A k \in (arrived + 1)..(arrived + m) : k - arrived \in 1..m /\ k = arrived + (k - arrived)
    BY <1>2
  <2>2. \A i \in 1..m : arrived + i \in (arrived + 1)..(arrived + m)
    BY <1>2
  <2>3. Range(rpc') = {arrived + i : i \in 1..m}
    BY <1>3 DEF Range
  <2> QED BY <2>1, <2>2, <2>3
<1>7. Range(rpc) = {}
  BY <1>1 DEF Range
<1>8. Sent' = Sent
  BY <1>1 DEF Sent, Slots
<1>9. /\ Sent \cup Range(internal_queue_) = (1..arrived) \ refused
      /\ \A b, c \in DOMAIN batches, i, j \in Slots :
            SentBefore(b, i, c, j) /\ batches[b][i] # Fake /\ batches[c][j] # Fake
                => batches[b][i] < batches[c][j]
      /\ Increasing(internal_queue_)
      /\ AllBefore(Sent, Range(internal_queue_))
  BY <1>7 DEF IInv, FifoOnce
<1>10. (Sent \cup Range(internal_queue_) \cup Range(rpc) = (1..arrived) \ refused)'
  <2>1. 1..arrived' = 1..arrived \cup (arrived + 1)..(arrived + m)
    BY <1>1, <1>2
  <2>2. refused \cap (arrived + 1)..(arrived + m) = {}
    BY <1>2
  <2>3. (Sent \cup Range(internal_queue_))' = (1..arrived) \ refused /\ refused' = refused
    BY <1>1, <1>8, <1>9
  <2> QED BY <1>6, <2>1, <2>2, <2>3, Zenon
<1>11. Increasing(rpc)'
  BY <1>2, <1>3 DEF Increasing
<1>12. AllBefore(Sent, Range(rpc))' /\ AllBefore(Range(internal_queue_), Range(rpc))'
  <2>1. \A x \in 1..arrived, y \in (arrived + 1)..(arrived + m) : x < y
    BY <1>2
  <2>2. Sent' \subseteq 1..arrived /\ Range(internal_queue_') \subseteq 1..arrived
    BY <1>1, <1>8, <1>9
  <2> QED BY <1>6, <2>1, <2>2, Zenon DEF AllBefore
<1>13. FifoOnce'
  <2>1. (\A b, c \in DOMAIN batches, i, j \in Slots :
            SentBefore(b, i, c, j) /\ batches[b][i] # Fake /\ batches[c][j] # Fake
                => batches[b][i] < batches[c][j])'
    BY <1>1, <1>9, Zenon DEF SentBefore, Slots, Fake
  <2>2. internal_queue_' = internal_queue_
    BY <1>1
  <2>3. Increasing(internal_queue_)'
    BY <1>9, <2>2, Zenon
  <2>4. AllBefore(Sent, Range(internal_queue_))'
    BY <1>8, <1>9, <2>2, Zenon
  <2> QED BY <1>10, <1>11, <1>12, <2>1, <2>3, <2>4, Zenon DEF FifoOnce
<1>14. NobodyWaits'
  BY <1>1, Zenon DEF IInv, NobodyWaits
<1>15. BegunBefore'
  <2>1. \A b \in begins : b \in Nat /\ b <= arrived + 1
    BY <1>1, <1>2 DEF IInv, BegunBefore
  <2>2. arrived' - Len(rpc') + 1 = arrived + 1
    BY <1>1, <1>2, <1>3
  <2>3. \A b \in begins' : b \in Nat /\ b <= arrived + 1
    BY <1>1, <1>2, <2>1
  <2> QED BY <2>2, <2>3 DEF BegunBefore
<1>16. OnlyItsOwnRpc'
  <2>1. ASSUME disable_all_false_, NEW op \in refused
        PROVE  \E u \in refused \ known : SameRpc(u, op)'
    <3>1. PICK u \in refused \ known : SameRpc(u, op)
      BY <2>1 DEF IInv, OnlyItsOwnRpc
    <3>2. op < arrived + 1
      BY <1>2
    <3>3. SameRpc(u, op)'
      BY <1>1, <3>1, <3>2 DEF SameRpc
    <3> QED BY <3>1, <3>3
  <2> QED BY <1>1, <2>1, Zenon DEF OnlyItsOwnRpc
<1> QED BY <1>4, <1>5, <1>13, <1>14, <1>15, <1>16 DEF IInv

\* The slots of a batch carry the queue in its order.
LEMMA SlotCarries ==
  ASSUME NEW q \in Seq(Nat \ {0}), NEW coins
  PROVE  /\ Leaving(TakenAt(q, coins), Len(q))
         /\ Carries([i \in Slots |-> Slot(q, coins, i)], q, TakenAt(q, coins))
<1> DEFINE t == TakenAt(q, coins)
           s == [i \in Slots |-> Slot(q, coins, i)]
<1>1. q \in Seq(Nat)
  OBVIOUS
<1>2. Leaving(t, Len(q))
  BY <1>1, TakenLeaves, Zenon
<1>3. \A i \in 0..BatchSize : t[i] = Taken(q, coins, i)
  BY Zenon DEF TakenAt
<1>4. \A i \in Slots : i \in 0..BatchSize /\ i - 1 \in 0..BatchSize
  BY SecurityBatchAssumption DEF Slots
<1>5. \A i \in Slots : s[i] = IF t[i] > t[i - 1] THEN q[t[i]] ELSE Fake
  <2> HIDE DEF t
  <2> QED BY <1>3, <1>4, Zenon DEF Slot
<1>6. DOMAIN s = Slots /\ s = [i \in Slots |-> s[i]]
  OBVIOUS
<1> HIDE DEF t, s
<1>7. ASSUME NEW i \in Slots PROVE s[i] \in Nat
  <2>1. t[i] \in 0..Len(q) /\ t[i - 1] \in 0..Len(q)
    BY <1>2, <1>4 DEF Leaving
  <2>2. CASE t[i] > t[i - 1]
    <3>1. t[i] \in 1..Len(q)
      BY <2>1, <2>2
    <3> QED BY <1>5, <2>2, <3>1
  <2>3. CASE ~(t[i] > t[i - 1])
    BY <1>5, <2>3 DEF Fake
  <2> QED BY <2>2, <2>3
<1>8. s \in [Slots -> Nat]
  BY <1>6, <1>7, Zenon
<1>9. Carries(s, q, t)
  BY <1>5, <1>8 DEF Carries
<1> QED BY <1>2, <1>9 DEF t, s

\* The next request h of the RPC joins the requests that wait, behind them and
\* before the rest r of the RPC: q is the queue that process_op then serves.
Joined(q, h, r) ==
    /\ h \in Nat \ {0} /\ q \in Seq(Nat \ {0}) /\ Increasing(q)
    /\ Range(q) = Range(internal_queue_) \cup {h}
    /\ Range(rpc) = {h} \cup Range(r)
    /\ r \in Seq(Nat \ {0}) /\ Increasing(r)
    /\ AllBefore(Sent, Range(q)) /\ AllBefore(Range(q), Range(r))

\* The request that process_op adds to the queue is later than all that wait.
LEMMA NextJoins ==
  ASSUME IInv, rpc # <<>>
  PROVE  Joined(Append(internal_queue_, Head(rpc)), Head(rpc), Tail(rpc))
<1>1. /\ rpc \in Seq(Nat \ {0}) /\ internal_queue_ \in Seq(Nat \ {0})
      /\ Increasing(rpc) /\ Increasing(internal_queue_)
      /\ AllBefore(Sent, Range(internal_queue_)) /\ AllBefore(Sent, Range(rpc))
      /\ AllBefore(Range(internal_queue_), Range(rpc))
  BY DEF IInv, Typed, FifoOnce
<1> DEFINE h == Head(rpc)
           r == Tail(rpc)
           q == Append(internal_queue_, h)
<1>2. /\ h \in Nat \ {0} /\ r \in Seq(Nat \ {0}) /\ Increasing(r)
      /\ Range(rpc) = {h} \cup Range(r) /\ \A y \in Range(r) : h < y
  BY <1>1, HeadAndTail, Zenon
<1> HIDE DEF h, r
<1>3. \A y \in Range(internal_queue_) : y < h
  BY <1>1, <1>2, Zenon DEF AllBefore
<1>4. /\ q \in Seq(Nat \ {0}) /\ Increasing(q)
      /\ Range(q) = Range(internal_queue_) \cup {h}
  BY <1>1, <1>2, <1>3, AppendLater, Zenon
<1> HIDE DEF q
<1>5. AllBefore(Sent, Range(q)) /\ AllBefore(Range(q), Range(r))
  BY <1>1, <1>2, <1>4, Zenon DEF AllBefore
<1>6. Joined(q, h, r)
  BY <1>2, <1>4, <1>5, Zenon DEF Joined
<1> QED BY <1>6 DEF q, h, r

\* What process_op does, in terms of the requests that leave the queue: the
\* first t[last] of q.
Processed(q, r, s, t, last) ==
    /\ last \in Slots
    /\ Leaving(t, Len(q)) /\ Carries(s, q, t)
    /\ internal_queue_' = SubSeq(q, t[last] + 1, Len(q))
    /\ UNCHANGED <<disable_all_false_, known, arrived, begins>>
    /\ \/ /\ last = BatchSize
          /\ batches' = Append(batches, s) /\ rpc' = r /\ refused' = refused
       \/ /\ s[last] \notin known \cup {Fake}
          /\ rpc' = <<>> /\ batches' = batches
          /\ refused' = (refused \cup Range(r) \cup {s[i] : i \in 1..last}) \ {Fake}

\* process_op and create_security_batch, with and without the exception.
LEMMA ProcessOpDoes ==
  ASSUME IInv, NEW coins, ProcessOp(coins)
  PROVE  LET q == Append(internal_queue_, Head(rpc))
         IN  /\ rpc # <<>>
             /\ \E last \in Slots :
                   Processed(q, Tail(rpc), [i \in Slots |-> Slot(q, coins, i)],
                             TakenAt(q, coins), last)
<1> DEFINE q == Append(internal_queue_, Head(rpc))
           s == [i \in Slots |-> Slot(q, coins, i)]
           t == TakenAt(q, coins)
           bad == {i \in Slots : Slot(q, coins, i) \notin known \cup {Fake}}
           last == IF bad = {} THEN BatchSize ELSE CHOOSE i \in bad : \A j \in bad : i <= j
<1>1. rpc # <<>>
  BY DEF ProcessOp
<1>2. q \in Seq(Nat \ {0})
  BY <1>1, NextJoins, Zenon DEF Joined
<1>3. Leaving(t, Len(q)) /\ Carries(s, q, t)
  <2> HIDE DEF q
  <2> QED BY <1>2, SlotCarries, Zenon
<1>4. /\ internal_queue_' = SubSeq(q, Taken(q, coins, last) + 1, Len(q))
      /\ UNCHANGED <<disable_all_false_, known, arrived, begins>>
  BY Zenon DEF ProcessOp, config
<1>5. bad = {} => batches' = Append(batches, s) /\ rpc' = Tail(rpc) /\ refused' = refused
  BY Zenon DEF ProcessOp
<1>6. bad # {} =>
        /\ rpc' = <<>> /\ batches' = batches
        /\ refused' = (refused \cup Range(Tail(rpc))
                               \cup {Slot(q, coins, i) : i \in 1..last}) \ {Fake}
  BY Zenon DEF ProcessOp
<1>7. last \in Slots /\ (bad # {} => last \in bad)
  <2>1. CASE bad = {}
    BY <2>1, SecurityBatchAssumption DEF Slots
  <2>2. CASE bad # {}
    <3>1. bad \in SUBSET Nat /\ bad \subseteq Slots
      BY SecurityBatchAssumption DEF Slots
    <3>2. \E x \in bad : \A y \in bad : x <= y
      <4> HIDE DEF bad
      <4> QED BY <2>2, <3>1, LeastOf, Zenon
    <3>3. last \in bad
      <4> HIDE DEF bad
      <4> QED BY <2>2, <3>2, Zenon
    <3> QED BY <3>1, <3>3, Zenon
  <2> QED BY <2>1, <2>2
<1> DEFINE u == last
<1>8. u \in Slots /\ (bad = {} => u = BatchSize) /\ (bad # {} => s[u] \notin known \cup {Fake})
  <2>1. bad = {} => u = BatchSize
    BY Zenon
  <2>2. \A i \in bad : i \in Slots /\ s[i] \notin known \cup {Fake}
    BY Zenon
  <2> HIDE DEF bad, s, last
  <2> QED BY <1>7, <2>1, <2>2, Zenon DEF u
<1> HIDE DEF last
<1>9. u \in 0..BatchSize /\ 1..u \subseteq Slots
  <2> HIDE DEF u
  <2> QED BY <1>8, SecurityBatchAssumption DEF Slots
<1>10. t[u] = Taken(q, coins, u)
  <2> HIDE DEF u, q
  <2> QED BY <1>9, Zenon DEF TakenAt
<1>11. {Slot(q, coins, i) : i \in 1..u} = {s[i] : i \in 1..u}
  <2> HIDE DEF u, q
  <2>1. \A i \in 1..u : s[i] = Slot(q, coins, i)
    BY <1>9
  <2> HIDE DEF s
  <2> QED BY <2>1
<1> HIDE DEF q, s, t, bad
<1>12. Processed(q, Tail(rpc), s, t, u)
  BY <1>3, <1>4, <1>5, <1>6, <1>8, <1>10, <1>11, Zenon DEF Processed, u
<1>13. \E l \in Slots : Processed(q, Tail(rpc), s, t, l)
  BY <1>8, <1>12, Zenon
<1> QED BY <1>1, <1>13, Zenon DEF q, s, t

\* The queue is divided into the requests that leave and those that stay.
LEMMA Divided ==
  ASSUME NEW q, NEW h, NEW r, NEW s, NEW t, NEW last,
         Joined(q, h, r), Processed(q, r, s, t, last)
  PROVE  /\ t[last] \in 0..Len(q)
         /\ internal_queue_' \in Seq(Nat \ {0}) /\ Increasing(internal_queue_')
         /\ Carried(s, last) = First(q, t[last])
         /\ Range(q) = First(q, t[last]) \cup Range(internal_queue_')
         /\ AllBefore(First(q, t[last]), Range(internal_queue_'))
<1>1. q \in Seq(Nat \ {0}) /\ Increasing(q)
  BY Zenon DEF Joined
<1>2. /\ last \in Slots /\ Leaving(t, Len(q)) /\ Carries(s, q, t)
      /\ internal_queue_' = SubSeq(q, t[last] + 1, Len(q))
  BY Zenon DEF Processed
<1>3. last \in 0..BatchSize
  BY <1>2, SecurityBatchAssumption DEF Slots
<1>4. t[last] \in 0..Len(q)
  BY <1>2, <1>3 DEF Leaving
<1>5. Carried(s, last) = First(q, t[last])
  BY <1>1, <1>2, <1>3, CarriesFirst, Zenon
<1> QED BY <1>1, <1>2, <1>4, <1>5, RestOf, Zenon

\* The batch that is given to chain_request comes after the ones before it.
LEMMA BatchSent ==
  ASSUME IInv, NEW q, NEW h, NEW r, NEW s, NEW t,
         Joined(q, h, r), Processed(q, r, s, t, BatchSize), batches' = Append(batches, s)
  PROVE  /\ batches' \in Seq([Slots -> Nat])
         /\ Sent' = Sent \cup First(q, t[BatchSize])
         /\ \A b, c \in DOMAIN batches', i, j \in Slots :
               SentBefore(b, i, c, j) /\ batches'[b][i] # Fake /\ batches'[c][j] # Fake
                   => batches'[b][i] < batches'[c][j]
<1>1. /\ q \in Seq(Nat \ {0}) /\ Increasing(q) /\ AllBefore(Sent, Range(q))
      /\ Leaving(t, Len(q)) /\ Carries(s, q, t) /\ s \in [Slots -> Nat]
  BY Zenon DEF Joined, Processed, Carries
<1>2. batches \in Seq([Slots -> Nat])
  BY DEF IInv, Typed
<1>3. {s[i] : i \in Slots} \ {Fake} = First(q, t[BatchSize])
  <2>1. Carried(s, BatchSize) = First(q, t[BatchSize])
    BY Divided
  <2> QED BY <2>1, Zenon DEF Slots, Carried
<1>4. First(q, t[BatchSize]) \subseteq Range(q)
  BY Divided
<1> DEFINE n == Len(batches) + 1
<1>5. /\ n \in Nat /\ batches' \in Seq([Slots -> Nat]) /\ batches'[n] = s
      /\ \A b \in DOMAIN batches : b \in DOMAIN batches' /\ batches'[b] = batches[b] /\ b < n
      /\ n \in DOMAIN batches'
      /\ \A b \in DOMAIN batches' : b \in Nat /\ (b \in DOMAIN batches \/ b = n)
  BY <1>1, <1>2
<1>6. \A b \in DOMAIN batches' : b <= n
  BY <1>1, <1>2
<1> HIDE DEF n
<1>7. \A x : x \in Sent <=> x # Fake /\ \E b \in DOMAIN batches, i \in Slots : x = batches[b][i]
  BY DEF Sent
<1>8. \A x : x \in Sent' <=> x # Fake /\ \E b \in DOMAIN batches', i \in Slots : x = batches'[b][i]
  BY DEF Sent, Slots, Fake
<1>9. Sent' = Sent \cup First(q, t[BatchSize])
  <2>1. ASSUME NEW b \in DOMAIN batches', NEW i \in Slots, batches'[b][i] # Fake
        PROVE  batches'[b][i] \in Sent \cup First(q, t[BatchSize])
    <3>1. CASE b = n
      <4>1. s[i] # Fake
        BY <1>5, <2>1, <3>1, Zenon
      <4>2. s[i] \in First(q, t[BatchSize])
        BY <1>3, <4>1, Zenon
      <4> QED BY <1>5, <3>1, <4>2, Zenon
    <3>2. CASE b \in DOMAIN batches
      BY <1>5, <1>7, <2>1, <3>2, Zenon
    <3> QED BY <1>5, <3>1, <3>2, Zenon
  <2>2. ASSUME NEW x \in Sent PROVE x \in Sent'
    BY <1>5, <1>7, <1>8, <2>2
  <2>3. ASSUME NEW x \in First(q, t[BatchSize]) PROVE x \in Sent'
    <3>1. x # Fake /\ \E i \in Slots : x = s[i]
      <4>1. x \in {s[i] : i \in Slots} \ {Fake}
        BY <1>3, <2>3, Zenon
      <4> QED BY <4>1, Zenon
    <3> QED BY <1>5, <1>8, <3>1, Zenon
  <2>4. ASSUME NEW x \in Sent' PROVE x \in Sent \cup First(q, t[BatchSize])
    <3>1. x # Fake /\ \E b \in DOMAIN batches', i \in Slots : x = batches'[b][i]
      BY <1>8, <2>4
    <3>2. PICK b \in DOMAIN batches', i \in Slots : x = batches'[b][i]
      BY <3>1, Zenon
    <3>3. batches'[b][i] # Fake /\ x = batches'[b][i]
      BY <3>1, <3>2, Zenon
    <3>4. batches'[b][i] \in Sent \cup First(q, t[BatchSize])
      BY <2>1, <3>3, Zenon
    <3> QED BY <3>3, <3>4
  <2> QED BY <2>2, <2>3, <2>4, Zenon
<1>10. ASSUME NEW b \in DOMAIN batches', NEW c \in DOMAIN batches',
             NEW i \in Slots, NEW j \in Slots,
             SentBefore(b, i, c, j), batches'[b][i] # Fake, batches'[c][j] # Fake
      PROVE  batches'[b][i] < batches'[c][j]
  <2>1. CASE b = n
    <3>1. c = n /\ i < j
      <4>1. b < c \/ (b = c /\ i < j)
        BY <1>10 DEF SentBefore
      <4>2. ~(b < c)
        BY <1>5, <1>6, <2>1
      <4> QED BY <2>1, <4>1, <4>2
    <3>2. s[i] # Fake /\ s[j] # Fake
      BY <1>5, <1>10, <2>1, <3>1, Zenon
    <3>3. s[i] < s[j]
      BY <1>1, <3>1, <3>2, CarriesInOrder, Zenon
    <3> QED BY <1>5, <2>1, <3>1, <3>3, Zenon
  <2>2. CASE b \in DOMAIN batches /\ c = n
    <3>1. batches'[b][i] \in Sent
      BY <1>5, <1>7, <1>10, <2>2, Zenon
    <3>2. batches'[c][j] \in Range(q)
      <4>1. s[j] # Fake
        BY <1>5, <1>10, <2>2, Zenon
      <4>2. s[j] \in First(q, t[BatchSize])
        BY <1>3, <4>1, Zenon
      <4> QED BY <1>4, <1>5, <2>2, <4>2, Zenon
    <3> QED BY <1>1, <3>1, <3>2, Zenon DEF AllBefore
  <2>3. CASE b \in DOMAIN batches /\ c \in DOMAIN batches
    <3>1. batches'[b] = batches[b] /\ batches'[c] = batches[c]
      BY <1>5, <2>3, Zenon
    <3>2. batches[b][i] # Fake /\ batches[c][j] # Fake
      BY <1>10, <3>1, Zenon
    <3>3. batches[b][i] < batches[c][j]
      BY <1>10, <2>3, <3>2, Zenon DEF IInv, FifoOnce
    <3> QED BY <3>1, <3>3, Zenon
  <2> QED BY <1>5, <2>1, <2>2, <2>3, Zenon
<1>11. \A b, c \in DOMAIN batches', i, j \in Slots :
          SentBefore(b, i, c, j) /\ batches'[b][i] # Fake /\ batches'[c][j] # Fake
              => batches'[b][i] < batches'[c][j]
  BY <1>10, Zenon
<1>12. batches' \in Seq([Slots -> Nat])
  BY <1>5
<1> QED BY <1>9, <1>11, <1>12

\* With -f the request that joins the queue is alone in it, and leaves it: in
\* the batch, or with the exception that its unknown key raises.
LEMMA AloneInQueue ==
  ASSUME IInv, disable_all_false_ = TRUE, rpc # <<>>, NEW coins \in Coins, NEW s, NEW last,
         Processed(Append(internal_queue_, Head(rpc)), Tail(rpc), s,
                   TakenAt(Append(internal_queue_, Head(rpc)), coins), last)
  PROVE  /\ internal_queue_' = <<>>
         /\ \A x : x \in First(Append(internal_queue_, Head(rpc)),
                               TakenAt(Append(internal_queue_, Head(rpc)), coins)[last])
                      <=> x = Head(rpc)
         /\ last = BatchSize \/ Head(rpc) \notin known
<1> DEFINE h == Head(rpc)
           q == Append(internal_queue_, h)
           t == TakenAt(q, coins)
<1>1. internal_queue_ = <<>> /\ Joined(q, h, Tail(rpc))
  BY NextJoins, Zenon DEF IInv, NobodyWaits
<1>2. q = <<h>> /\ Len(q) = 1 /\ q[1] = h
  BY <1>1
<1>3. /\ last \in Slots /\ Leaving(t, Len(q)) /\ Carries(s, q, t)
      /\ internal_queue_' = SubSeq(q, t[last] + 1, Len(q))
      /\ last = BatchSize \/ s[last] \notin known \cup {Fake}
  BY Zenon DEF Processed
<1> HIDE DEF q
<1>4. /\ last \in 0..BatchSize /\ last - 1 \in 0..BatchSize
      /\ BatchSize \in 0..BatchSize /\ BatchSize \in Nat
  BY <1>3, SecurityBatchAssumption DEF Slots
<1>5. t[last] \in 0..1 /\ t[last - 1] \in 0..1 /\ t[BatchSize] \in 0..1
  BY <1>2, <1>3, <1>4 DEF Leaving
<1>6. t[BatchSize] = 1
  <2>1. PICK i \in Slots : coins[i]
    BY Zenon DEF Coins
  <2>2. Trues(coins, BatchSize) # {}
    BY <2>1 DEF Trues, Slots
  <2>3. /\ Cardinality(Trues(coins, BatchSize)) \in Nat
        /\ Cardinality(Trues(coins, BatchSize)) # 0
    BY <1>4, <2>2, TruesFacts, Zenon
  <2>4. t[BatchSize] = IF Cardinality(Trues(coins, BatchSize)) < Len(q)
                       THEN Cardinality(Trues(coins, BatchSize)) ELSE Len(q)
    BY <1>4, Zenon DEF TakenAt, Taken, Trues
  <2> HIDE DEF t
  <2> QED BY <1>2, <2>3, <2>4
<1> HIDE DEF t
<1>7. CASE last = BatchSize
  <2>1. t[last] = 1
    BY <1>6, <1>7
  <2>2. First(q, 1) = {h}
    BY <1>2 DEF First
  <2>3. SubSeq(q, 1 + 1, Len(q)) = <<>>
    BY <1>2
  <2> QED BY <1>3, <1>7, <2>1, <2>2, <2>3 DEF t, q, h
<1>8. CASE s[last] \notin known \cup {Fake}
  <2>1. t[last] > t[last - 1] /\ s[last] = q[t[last]]
    BY <1>3, <1>8 DEF Carries
  <2>2. t[last] = 1
    BY <1>5, <2>1
  <2>3. h \notin known
    BY <1>2, <1>8, <2>1, <2>2
  <2>4. First(q, 1) = {h}
    BY <1>2 DEF First
  <2>5. SubSeq(q, 1 + 1, Len(q)) = <<>>
    BY <1>2
  <2> QED BY <1>3, <2>2, <2>3, <2>4, <2>5 DEF t, q, h
<1> QED BY <1>3, <1>7, <1>8, Zenon

\* process_op keeps the types, and what is left of the RPC are the last requests
\* that arrived, in an RPC that began before them.
LEMMA ProcessOpTyped ==
  ASSUME IInv, rpc # <<>>, NEW q, NEW s, NEW t, NEW last,
         Joined(q, Head(rpc), Tail(rpc)), Processed(q, Tail(rpc), s, t, last)
  PROVE  Typed' /\ LastArrived' /\ BegunBefore'
<1> DEFINE h == Head(rpc)
           r == Tail(rpc)
           F == First(q, t[last])
<1>1. /\ disable_all_false_ \in BOOLEAN /\ arrived \in Nat /\ rpc \in Seq(Nat \ {0})
      /\ batches \in Seq([Slots -> Nat]) /\ refused \subseteq 1..arrived
      /\ \A i \in DOMAIN rpc : rpc[i] = arrived - Len(rpc) + i
      /\ Sent \cup Range(internal_queue_) \cup Range(rpc) = (1..arrived) \ refused
      /\ Increasing(rpc)
  BY DEF IInv, Typed, LastArrived, FifoOnce
<1>2. /\ disable_all_false_' = disable_all_false_ /\ arrived' = arrived /\ begins' = begins
      /\ s \in [Slots -> Nat]
  BY Zenon DEF Processed, Carries
<1>3. /\ r \in Seq(Nat \ {0}) /\ Len(r) = Len(rpc) - 1
      /\ \A i \in DOMAIN r : i + 1 \in DOMAIN rpc /\ r[i] = rpc[i + 1]
  BY <1>1, HeadAndTail, Zenon
<1>4. internal_queue_' \in Seq(Nat \ {0})
  BY Divided
<1>5. CASE batches' = Append(batches, s) /\ rpc' = r /\ refused' = refused
  <2>1. batches' \in Seq([Slots -> Nat])
    BY <1>1, <1>2, <1>5
  <2>2. Typed'
    BY <1>1, <1>2, <1>3, <1>4, <1>5, <2>1 DEF Typed, Slots
  <2>3. ASSUME NEW i \in DOMAIN r PROVE r[i] = arrived - Len(r) + i
    <3>1. r[i] = arrived - Len(rpc) + (i + 1)
      BY <1>1, <1>3
    <3>2. i \in Nat /\ Len(rpc) \in Nat
      BY <1>1, <1>3
    <3> QED BY <1>1, <1>3, <3>1, <3>2
  <2>4. LastArrived'
    <3> HIDE DEF r
    <3> QED BY <1>2, <1>5, <2>3, Zenon DEF LastArrived
  <2>5. BegunBefore'
    <3>1. Len(rpc) \in Nat /\ Len(r) = Len(rpc) - 1 /\ arrived \in Nat
      BY <1>1, <1>3
    <3>2. \A b \in begins : b \in Nat /\ b <= arrived - Len(rpc) + 1
      BY DEF IInv, BegunBefore
    <3> HIDE DEF r
    <3> QED BY <1>2, <1>5, <3>1, <3>2 DEF BegunBefore
  <2> QED BY <2>2, <2>4, <2>5
<1>6. CASE /\ rpc' = <<>> /\ batches' = batches
           /\ refused' = (refused \cup Range(r) \cup {s[i] : i \in 1..last}) \ {Fake}
  <2>1. {s[i] : i \in 1..last} \ {Fake} = F
    <3>1. Carried(s, last) = F
      BY Divided
    <3> QED BY <3>1, Zenon DEF Carried
  <2>2. F \subseteq Range(internal_queue_) \cup Range(rpc)
    <3>1. F \subseteq Range(q)
      BY Divided
    <3>2. Range(q) \subseteq Range(internal_queue_) \cup Range(rpc)
      BY Zenon DEF Joined
    <3> HIDE DEF F
    <3> QED BY <3>1, <3>2, Zenon
  <2>3. Range(r) \subseteq Range(rpc)
    BY Zenon DEF Joined
  <2>4. refused' \subseteq 1..arrived
    <3> HIDE DEF F, r
    <3> QED BY <1>1, <1>6, <2>1, <2>2, <2>3, Zenon
  <2>5. Typed'
    BY <1>1, <1>2, <1>4, <1>6, <2>4 DEF Typed, Slots
  <2>6. LastArrived'
    BY <1>6 DEF LastArrived
  <2>7. BegunBefore'
    <3>1. Len(rpc) \in Nat /\ Len(<<>>) = 0 /\ arrived \in Nat
      BY <1>1
    <3>2. \A b \in begins : b \in Nat /\ b <= arrived - Len(rpc) + 1
      BY DEF IInv, BegunBefore
    <3> QED BY <1>2, <1>6, <3>1, <3>2 DEF BegunBefore
  <2> QED BY <2>5, <2>6, <2>7
<1> QED BY <1>5, <1>6, Zenon DEF Processed

\* process_op keeps the order.
LEMMA ProcessOpFifo ==
  ASSUME IInv, NEW q, NEW h, NEW r, NEW s, NEW t, NEW last,
         Joined(q, h, r), Processed(q, r, s, t, last)
  PROVE  FifoOnce'
<1> DEFINE F == First(q, t[last])
           D == Range(internal_queue_')
           A == 1..arrived
<1>1. /\ Sent \cup Range(internal_queue_) \cup Range(rpc) = A \ refused
      /\ refused \subseteq A /\ Fake \notin A
  BY DEF IInv, Typed, FifoOnce, Fake
<1>2. /\ Range(q) = Range(internal_queue_) \cup {h} /\ Range(rpc) = {h} \cup Range(r)
      /\ Increasing(r) /\ AllBefore(Sent, Range(q)) /\ AllBefore(Range(q), Range(r))
  BY Zenon DEF Joined
<1>3. /\ Range(q) = F \cup D /\ AllBefore(F, D) /\ Increasing(internal_queue_')
      /\ Carried(s, last) = F
  BY Divided
<1>4. arrived' = arrived
  BY Zenon DEF Processed
<1>5. AllBefore(Sent, Range(rpc))
  BY DEF IInv, FifoOnce
<1>6. \A x : ~(x \in A /\ x < x)
  OBVIOUS
<1>7. CASE last = BatchSize /\ batches' = Append(batches, s) /\ rpc' = r /\ refused' = refused
  <2>1. /\ Sent' = Sent \cup F
        /\ \A b, c \in DOMAIN batches', i, j \in Slots :
              SentBefore(b, i, c, j) /\ batches'[b][i] # Fake /\ batches'[c][j] # Fake
                  => batches'[b][i] < batches'[c][j]
    BY <1>7, BatchSent
  <2> HIDE DEF F, D
  <2>2. Sent' \cup D \cup Range(r) = A \ refused
    BY <1>1, <1>2, <1>3, <2>1, Zenon
  <2>3. (Sent \cup Range(internal_queue_) \cup Range(rpc) = (1..arrived) \ refused)'
    BY <1>4, <1>7, <2>2 DEF D
  <2>4. AllBefore(Sent', D) /\ AllBefore(Sent', Range(r)) /\ AllBefore(D, Range(r))
    BY <1>2, <1>3, <1>5, <2>1, Zenon DEF AllBefore
  <2>5. /\ Increasing(rpc') /\ Increasing(internal_queue_')
        /\ AllBefore(Sent', Range(internal_queue_')) /\ AllBefore(Sent', Range(rpc'))
        /\ AllBefore(Range(internal_queue_'), Range(rpc'))
    BY <1>2, <1>3, <1>7, <2>4, Zenon DEF D
  <2> QED BY <2>1, <2>3, <2>5, Zenon
          DEF FifoOnce, Slots, Fake, SentBefore, Increasing, AllBefore, Range
<1>8. CASE /\ rpc' = <<>> /\ batches' = batches
           /\ refused' = (refused \cup Range(r) \cup {s[i] : i \in 1..last}) \ {Fake}
  <2>1. Sent' = Sent
    BY <1>8 DEF Sent, Slots
  <2>2. refused' = refused \cup Range(r) \cup F
    <3>1. {s[i] : i \in 1..last} \ {Fake} = F
      BY <1>3 DEF Carried
    <3>2. Range(r) \subseteq A
      BY <1>1, <1>2, Zenon
    <3> HIDE DEF F, A
    <3> QED BY <1>1, <1>8, <3>1, <3>2, Zenon
  <2>3. Range(rpc') = {}
    BY <1>8 DEF Range
  <2> HIDE DEF F, D
  <2>4. Sent \cup D = A \ (refused \cup Range(r) \cup F)
    <3>1. /\ Sent \subseteq A /\ D \subseteq A /\ Range(r) \subseteq A /\ F \subseteq A
          /\ Sent \cup F \cup D \cup Range(r) = A \ refused
      BY <1>1, <1>2, <1>3, Zenon
    <3>2. /\ \A x \in Sent, y \in F : x < y
          /\ \A x \in Sent, y \in Range(r) : x < y
          /\ \A x \in F, y \in D : x < y
          /\ \A x \in D, y \in Range(r) : x < y
      BY <1>2, <1>3, <1>5, Zenon DEF AllBefore
    <3> HIDE DEF A
    <3>3. /\ Sent \cap F = {} /\ Sent \cap Range(r) = {}
          /\ F \cap D = {} /\ D \cap Range(r) = {}
      BY <1>6, <3>1, <3>2, Zenon
    <3> QED BY <3>1, <3>3, Zenon
  <2>5. (Sent \cup Range(internal_queue_) \cup Range(rpc) = (1..arrived) \ refused)'
    BY <1>4, <2>1, <2>2, <2>3, <2>4 DEF D
  <2>6. /\ AllBefore(Sent', Range(internal_queue_')) /\ AllBefore(Sent', Range(rpc'))
        /\ AllBefore(Range(internal_queue_'), Range(rpc'))
    BY <1>2, <1>3, <2>1, <2>3, Zenon DEF AllBefore, D
  <2>7. Increasing(rpc')
    BY <1>8 DEF Increasing
  <2>8. \A b, c \in DOMAIN batches', i, j \in Slots :
           SentBefore(b, i, c, j) /\ batches'[b][i] # Fake /\ batches'[c][j] # Fake
               => batches'[b][i] < batches'[c][j]
    BY <1>8, Zenon DEF IInv, FifoOnce
  <2> QED BY <1>3, <2>5, <2>6, <2>7, <2>8, Zenon
          DEF FifoOnce, Slots, Fake, SentBefore, Increasing, AllBefore, Range
<1> QED BY <1>7, <1>8, Zenon DEF Processed

\* With -f, process_op leaves nobody waiting, and refuses nobody else's request.
LEMMA ProcessOpAlone ==
  ASSUME IInv, NEW coins \in Coins, ProcessOp(coins)
  PROVE  NobodyWaits' /\ OnlyItsOwnRpc'
<1> DEFINE h == Head(rpc)
           r == Tail(rpc)
           q == Append(internal_queue_, h)
           s == [i \in Slots |-> Slot(q, coins, i)]
           t == TakenAt(q, coins)
<1>1. rpc # <<>> /\ \E l \in Slots : Processed(q, r, s, t, l)
  BY ProcessOpDoes, Zenon
<1>2. PICK last \in Slots : Processed(q, r, s, t, last)
  BY <1>1, Zenon
<1>3. Joined(q, h, r)
  BY <1>1, NextJoins, Zenon
<1>4. disable_all_false_' = disable_all_false_ /\ known' = known /\ begins' = begins
  BY <1>2, Zenon DEF Processed
<1>5. CASE disable_all_false_
  <2>1. /\ internal_queue_' = <<>> /\ First(q, t[last]) = {h}
        /\ last = BatchSize \/ h \notin known
    <3> HIDE DEF s
    <3>1. disable_all_false_ = TRUE
      BY <1>5 DEF IInv, Typed
    <3>2. /\ internal_queue_' = <<>> /\ \A x : x \in First(q, t[last]) <=> x = h
          /\ last = BatchSize \/ h \notin known
      BY <1>1, <1>2, <3>1, AloneInQueue
    <3> HIDE DEF q, t, h
    <3> QED BY <3>2
  <2>2. \A op \in refused : \E u \in refused \ known : SameRpc(u, op)
    BY <1>5 DEF IInv, OnlyItsOwnRpc
  <2>3. \/ refused' = refused
        \/ /\ s[last] \notin known \cup {Fake}
           /\ refused' = (refused \cup Range(r) \cup {s[i] : i \in 1..last}) \ {Fake}
    BY <1>2, Zenon DEF Processed
  <2>4. CASE refused' = refused
    BY <1>4, <2>1, <2>2, <2>4, Zenon DEF NobodyWaits, OnlyItsOwnRpc, SameRpc
  <2>5. CASE /\ s[last] \notin known \cup {Fake}
             /\ refused' = (refused \cup Range(r) \cup {s[i] : i \in 1..last}) \ {Fake}
    <3> HIDE DEF s, t, q
    <3>1. {s[i] : i \in 1..last} \ {Fake} = {h}
      <4>1. Carried(s, last) = First(q, t[last])
        <5> HIDE DEF h, r
        <5> QED BY <1>2, <1>3, Divided
      <4> QED BY <2>1, <4>1 DEF Carried
    <3>2. h \notin known
      <4>1. last \in 1..last /\ s[last] # Fake
        BY <2>5, SecurityBatchAssumption DEF Slots
      <4>2. s[last] = h
        BY <3>1, <4>1
      <4> QED BY <2>5, <4>2
    <3>3. /\ arrived \in Nat /\ refused \subseteq 1..arrived /\ rpc \in Seq(Nat \ {0})
          /\ \A i \in DOMAIN rpc : rpc[i] = arrived - Len(rpc) + i
          /\ Increasing(rpc)
      BY DEF IInv, Typed, LastArrived, FifoOnce
    <3>4. /\ h \in Nat \ {0} /\ h = rpc[1] /\ r \in Seq(Nat \ {0})
          /\ Range(rpc) = {h} \cup Range(r)
          /\ \A i \in DOMAIN r : i + 1 \in DOMAIN rpc /\ r[i] = rpc[i + 1]
      BY <1>1, <3>3, HeadAndTail, Zenon
    <3>5. refused' = refused \cup Range(rpc)
      <4>1. Fake \notin refused /\ Fake \notin Range(r)
        <5>1. Fake \notin refused
          BY <3>3 DEF Fake
        <5>2. Fake \notin Range(r)
          BY <3>4 DEF Fake, Range
        <5> QED BY <5>1, <5>2
      <4> HIDE DEF r, h
      <4> QED BY <2>5, <3>1, <3>4, <4>1, Zenon
    <3>6. ASSUME NEW op \in Range(rpc) PROVE SameRpc(h, op)
      <4>1. PICK i \in DOMAIN rpc : op = rpc[i]
        BY Zenon DEF Range
      <4>2. i \in Nat \ {0} /\ Len(rpc) \in Nat /\ 1 \in DOMAIN rpc
        BY <1>1, <3>3
      <4>3. op = arrived - Len(rpc) + i /\ h = arrived - Len(rpc) + 1
        BY <3>3, <3>4, <4>1, <4>2
      <4>4. \A b \in begins : b \in Nat /\ b <= arrived - Len(rpc) + 1
        BY DEF IInv, BegunBefore
      <4> HIDE DEF h
      <4>5. h <= op
        BY <3>3, <4>2, <4>3
      <4>6. \A b \in begins : b <= h
        BY <4>3, <4>4
      <4> QED BY <4>5, <4>6, Zenon DEF SameRpc
    <3>7. \A op \in refused' : \E u \in refused' \ known : SameRpc(u, op)
      <4> HIDE DEF h, r
      <4>1. h \in refused' \ known
        BY <3>2, <3>4, <3>5, Zenon
      <4> QED BY <2>2, <3>5, <3>6, <4>1, Zenon
    <3> QED BY <1>4, <2>1, <3>7, Zenon DEF NobodyWaits, OnlyItsOwnRpc, SameRpc
  <2> QED BY <2>3, <2>4, <2>5, Zenon
<1>6. CASE ~disable_all_false_
  BY <1>4, <1>6 DEF NobodyWaits, OnlyItsOwnRpc
<1> QED BY <1>5, <1>6

\* process_op keeps the invariant.
LEMMA ProcessOpStep ==
  ASSUME IInv, NEW coins \in Coins, ProcessOp(coins)
  PROVE  IInv'
<1> DEFINE h == Head(rpc)
           r == Tail(rpc)
           q == Append(internal_queue_, h)
           s == [i \in Slots |-> Slot(q, coins, i)]
           t == TakenAt(q, coins)
<1>1. rpc # <<>> /\ \E l \in Slots : Processed(q, r, s, t, l)
  BY ProcessOpDoes, Zenon
<1>2. PICK last \in Slots : Processed(q, r, s, t, last)
  BY <1>1, Zenon
<1>3. Joined(q, h, r)
  BY <1>1, NextJoins, Zenon
<1> HIDE DEF q, s, t
<1>4. Typed' /\ LastArrived' /\ BegunBefore'
  BY <1>1, <1>2, <1>3, ProcessOpTyped
<1>5. FifoOnce'
  <2> HIDE DEF h, r
  <2> QED BY <1>2, <1>3, ProcessOpFifo
<1>6. NobodyWaits' /\ OnlyItsOwnRpc'
  BY ProcessOpAlone
<1> QED BY <1>4, <1>5, <1>6 DEF IInv

\* So does a step that changes nothing.
LEMMA StutterStep ==
  ASSUME IInv, UNCHANGED vars
  PROVE  IInv'
<1>1. UNCHANGED <<disable_all_false_, known, arrived, rpc, internal_queue_, batches, refused, begins>>
  BY DEF vars, config
<1>2. Typed'
  BY <1>1 DEF IInv, Typed, Slots
<1>3. LastArrived' /\ BegunBefore'
  BY <1>1, Zenon DEF IInv, LastArrived, BegunBefore
<1>4. Sent' = Sent
  BY <1>1 DEF Sent, Slots
<1>5. FifoOnce'
  BY <1>1, <1>4, Zenon DEF IInv, FifoOnce
<1>6. NobodyWaits' /\ OnlyItsOwnRpc'
  BY <1>1, Zenon DEF IInv, NobodyWaits, OnlyItsOwnRpc, SameRpc
<1> QED BY <1>2, <1>3, <1>5, <1>6 DEF IInv

\* The invariant holds throughout.
LEMMA SpecIInv == Spec => []IInv
<1>1. IInv /\ [Next]_vars => IInv'
  BY RpcStep, ProcessOpStep, StutterStep DEF Next
<1> QED BY InitIInv, <1>1, PTL DEF Spec

-----------------------------------------------------------------------------
(***************************************************************************)
(* The theorems                                                            *)
(***************************************************************************)

\* create_security_batch sends the client requests in the order in which they
\* came, each once, and what waits in internal_queue_ is behind what was sent;
\* only an exception takes a request out of this order.
THEOREM SecurityBatchFifoOnce == Spec => []FifoOnce
<1>1. IInv => FifoOnce
  BY DEF IInv
<1> QED BY SpecIInv, <1>1, PTL

\* With -f (disable_all_false_) process_op returns with internal_queue_ empty:
\* no client request waits for the batch of a later one.
THEOREM SecurityBatchNobodyWaits == Spec => []NobodyWaits
<1>1. IInv => NobodyWaits
  BY DEF IInv
<1> QED BY SpecIInv, <1>1, PTL

\* With -f the exception that create_security_batch throws for an unknown key
\* costs that request and those after it in the same RPC, and no other.
THEOREM SecurityBatchOnlyItsOwnRpc == Spec => []OnlyItsOwnRpc
<1>1. IInv => OnlyItsOwnRpc
  BY DEF IInv
<1> QED BY SpecIInv, <1>1, PTL
=============================================================================
