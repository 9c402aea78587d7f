-------------------------- MODULE StoragePathProofs --------------------------
(***************************************************************************)
(* Theorems about StoragePath, with the update cache enabled: the requests *)
(* of the clients are atomic (Spec implements Register), a write-back      *)
(* never replaces a value of the store by an older one, and what was       *)
(* answered or acked is stored; for any keys, replicas, workers, servers,  *)
(* requests, hash functions and batch sizes.                               *)
(*                                                                         *)
(* The invariant and most of its steps are in StorageStepProofs.  Here are *)
(* the two steps that count positions in a batch, the MSET and put_cb.     *)
(***************************************************************************)
EXTENDS StorageStepProofs, FiniteSetTheorems

-----------------------------------------------------------------------------
(***************************************************************************)
(* Positions of a batch                                                    *)
(***************************************************************************)

\* The number of smaller elements tells the elements of a set apart, so that
\* each of 0..(n - 1) is taken.
LEMMA Rank ==
  ASSUME NEW T \in SUBSET Nat, IsFiniteSet(T), NEW i \in 1..Cardinality(T)
  PROVE  \E x \in T : Cardinality({y \in T : y < x}) = i - 1
  <1> DEFINE n == Cardinality(T)
             below(x) == {y \in T : y < x}
             rank == [x \in T |-> Cardinality(below(x))]
  <1>1. n \in Nat
    BY FS_CardinalityType
  <1>2. ASSUME NEW x \in T
        PROVE  /\ IsFiniteSet(below(x)) /\ rank[x] \in Nat /\ rank[x] < n
    <2>1. below(x) \in SUBSET T /\ below(x) # T
      OBVIOUS
    <2>2. IsFiniteSet(below(x)) /\ Cardinality(below(x)) <= n /\ Cardinality(below(x)) # n
      BY <2>1, FS_Subset
    <2>3. Cardinality(below(x)) \in Nat
      BY <2>2, FS_CardinalityType
    <2>4. QED
      BY <2>2, <2>3, <1>1
  <1>3. ASSUME NEW x \in T, NEW y \in T, x < y
        PROVE  rank[x] # rank[y]
    <2>1. below(x) \in SUBSET below(y) /\ below(x) # below(y)
      <3>1. \A z \in T : z < x => z < y
        BY <1>3
      <3>2. ~(x < x)
        OBVIOUS
      <3>3. QED
        BY <1>3, <3>1, <3>2, Zenon
    <2>2. IsFiniteSet(below(y))
      BY <1>2
    <2>3. Cardinality(below(y)) # Cardinality(below(x))
      BY <2>1, <2>2, FS_Subset
    <2>4. QED
      BY <2>3
  <1>4. \E x \in T : Cardinality(below(x)) = i - 1
    <2> SUFFICES ASSUME \A x \in T : rank[x] # i - 1
                 PROVE  FALSE
      OBVIOUS
    <2> DEFINE U == (0..(n - 1)) \ {i - 1}
    <2>1. IsFiniteSet(0..(n - 1)) /\ Cardinality(0..(n - 1)) = n
      <3>1. n - 1 \in Int /\ ~(0 > n - 1) /\ n - 1 - 0 + 1 = n
        BY <1>1
      <3> HIDE DEF n
      <3>2. QED
        BY <3>1, FS_Interval
    <2>2. IsFiniteSet(U) /\ Cardinality(U) = n - 1
      <3>1. i - 1 \in 0..(n - 1)
        BY <1>1
      <3>2. IsFiniteSet(U) /\ Cardinality(U) = Cardinality(0..(n - 1)) - 1
        <4> DEFINE V == 0..(n - 1)
        <4>1. U = V \ {i - 1} /\ i - 1 \in V /\ IsFiniteSet(V)
          BY <2>1, <3>1
        <4> HIDE DEF U, V
        <4>2. IsFiniteSet(U) /\ Cardinality(U) = Cardinality(V) - 1
          BY <4>1, FS_RemoveElement
        <4>3. QED
          BY <4>2 DEF V
      <3>3. QED
        BY <2>1, <3>2
    <2>3. rank \in [T -> U]
      BY <1>1, <1>2
    <2>4. PICK x \in T, y \in T : x # y /\ rank[x] = rank[y]
      <3>1. Cardinality(U) < Cardinality(T)
        BY <2>2, <1>1
      <3> HIDE DEF U, rank
      <3>2. QED
        BY <2>2, <2>3, <3>1, FS_PigeonHole, Zenon
    <2>5. x < y \/ y < x
      BY <2>4
    <2>6. QED
      BY <2>4, <2>5, <1>3
  <1>5. QED
    BY <1>4, Zenon

\* A set of positions has a last one.
LEMMA LastPosition ==
  ASSUME NEW T \in SUBSET Nat, IsFiniteSet(T), T # {}
  PROVE  \E x \in T : \A y \in T : y <= x
  <1> DEFINE n == Cardinality(T)
  <1>1. n \in Nat /\ n # 0
    BY FS_CardinalityType, FS_EmptySet, Zenon
  <1>2. n \in 1..n
    BY <1>1
  <1>3. PICK x \in T : Cardinality({y \in T : y < x}) = n - 1
    BY <1>2, Rank, Zenon
  <1> DEFINE low == {y \in T : y < x}
  <1>4. ASSUME NEW z \in T, x < z
        PROVE  FALSE
    <2>1. low \in SUBSET (T \ {z}) /\ low # T \ {z}
      <3>1. x \in T \ {z} /\ x \notin low /\ z \notin low
        BY <1>4
      <3> QED  BY <3>1, Zenon
    <2>2. IsFiniteSet(T \ {z}) /\ Cardinality(T \ {z}) = n - 1
      BY FS_RemoveElement, Zenon
    <2>3. Cardinality(low) # Cardinality(T \ {z})
      BY <2>1, <2>2, FS_Subset, Zenon
    <2> QED  BY <1>3, <2>2, <2>3, Zenon
  <1>5. \A y \in T : y <= x
    BY <1>4
  <1> QED  BY <1>5, Zenon

\* put_cb takes elements of the batch.
LEMMA AtPositions ==
  ASSUME NEW S, NEW q \in Seq(S), NEW I \in SUBSET DOMAIN q
  PROVE  /\ At(q, I) \in Seq(S)
         /\ \A x \in Range(At(q, I)) : \E i \in I : x = q[i]
  <1> DEFINE n == Cardinality(I)
             nth(k) == CHOOSE i \in I : Cardinality({j \in I : j < i}) = k - 1
  <1>1. I \in SUBSET Nat /\ IsFiniteSet(I)
    <2>1. DOMAIN q = 1..Len(q) /\ Len(q) \in Int /\ 1 \in Int
      OBVIOUS
    <2>2. IsFiniteSet(1..Len(q)) /\ 1..Len(q) \subseteq Nat
      BY <2>1, FS_Interval
    <2> QED  BY <2>1, <2>2, FS_Subset, Zenon
  <1>2. n \in Nat
    BY <1>1, FS_CardinalityType, Zenon
  <1>3. \A k \in 1..n : nth(k) \in I
    BY <1>1, Rank, Zenon
  <1>4. At(q, I) = [k \in 1..n |-> q[nth(k)]]
    BY Zenon DEF At
  <1> HIDE DEF nth, n
  <1>5. \A k \in 1..n : q[nth(k)] \in S
    BY <1>3
  <1>6. At(q, I) \in Seq(S)
    BY <1>2, <1>4, <1>5
  <1>7. \A x \in Range(At(q, I)) : \E k \in 1..n : x = q[nth(k)]
    BY <1>4 DEF Range
  <1>8. \A x \in Range(At(q, I)) : \E i \in I : x = q[i]
    BY <1>3, <1>7, Zenon
  <1> QED  BY <1>6, <1>8, Zenon

-----------------------------------------------------------------------------
(***************************************************************************)
(* The MSET and its callback                                               *)
(***************************************************************************)

\* KvSet stores the newest of the values an MSET has for a label.
LEMMA KvSetEffect ==
    ASSUME IInv, NEW s \in Servers, KvSet(s), NEW ops, ops = Head(msets[s])
    PROVE  /\ ops \in Seq(L3Op) /\ Range(ops) \subseteq All(msets[s])
           /\ \A l \in Labels :
                 \/ (\A y \in Range(ops) : y.label # l) /\ kv'[l] = kv[l]
                 \/ \E x \in Range(ops) : /\ x.label = l /\ kv'[l] = encrypt(Writes(x))
                                          /\ \A y \in Range(ops) : NoNewer(order, y, x)
<1>1. msets[s] # <<>> /\ msets[s] \in Seq(Seq(L3Op))
  BY Zenon DEF KvSet, IInv, TypeInv, L3Type
<1>2. ops \in Seq(L3Op) /\ Range(ops) \subseteq All(msets[s])
  BY <1>1, AllTail, Zenon
<1>3. InLine(order, ops)
  <2>1. Line(order, Connections(s), get_queue[s], mgets[s], CryptoOps(crypto_queue_[s]), msets[s])
    BY ServerLine, Zenon
  <2> QED  BY <1>1, <2>1, LineSet, Zenon
<1>4. ASSUME NEW l \in Labels, \E i \in DOMAIN ops : ops[i].label = l
      PROVE  \E x \in Range(ops) : /\ x.label = l /\ kv'[l] = encrypt(Writes(x))
                                   /\ \A y \in Range(ops) : NoNewer(order, y, x)
  <2> DEFINE I == {i \in DOMAIN ops : ops[i].label = l}
             isLast(i) == ops[i].label = l /\ \A j \in DOMAIN ops : ops[j].label = l => j <= i
             n == CHOOSE i \in DOMAIN ops : isLast(i)
  <2>1. \E i \in DOMAIN ops : isLast(i)
    <3>1. I \in SUBSET Nat /\ IsFiniteSet(I) /\ I # {}
      <4>1. DOMAIN ops = 1..Len(ops) /\ Len(ops) \in Int /\ 1 \in Int
        BY <1>2
      <4>2. IsFiniteSet(1..Len(ops)) /\ 1..Len(ops) \subseteq Nat
        BY <4>1, FS_Interval
      <4>3. I \subseteq 1..Len(ops)
        BY <4>1, Zenon
      <4> QED  BY <1>4, <4>2, <4>3, FS_Subset, Zenon
    <3>2. PICK i \in I : \A j \in I : j <= i
      BY <3>1, LastPosition, Zenon
    <3> QED  BY <3>2, Zenon
  <2>2. n \in DOMAIN ops /\ isLast(n)
    BY <2>1, Zenon
  <2>3. kv'[l] = encrypt(ops[n].plaintext)
    BY <1>4, Zenon DEF KvSet
  <2> HIDE DEF n
  <2>4. ops[n] \in Range(ops)
    BY <2>2, Zenon DEF Range
  <2>5. ops[n].plaintext = Writes(ops[n])
    BY <1>2, <2>4, Zenon DEF IInv, ReadInv
  <2>6. ASSUME NEW j \in DOMAIN ops
        PROVE  NoNewer(order, ops[j], ops[n])
    <3>1. CASE ops[j].label # l
      BY <2>2, <3>1, Zenon DEF NoNewer
    <3>2. CASE ops[j].label = l /\ j = n
      <4>1. ops[n] \in All(msets[s])
        BY <1>2, <2>4, Zenon
      <4>2. Forwarded(ops[n])
        BY <4>1, Zenon DEF IInv, PipeInv, Taken, Ahead
      <4>3. AgeOf(order, ops[n]) \in Nat
        BY <4>2, AgeTypes, Zenon
      <4>4. AgeOf(order, ops[n]) <= AgeOf(order, ops[n])
        <5> DEFINE a == AgeOf(order, ops[n])
        <5>1. a \in Nat
          BY <4>3, Zenon
        <5> HIDE DEF a
        <5>2. a <= a
          BY <5>1
        <5> QED  BY <5>2, Zenon DEF a
      <4> QED  BY <3>2, <4>4, Zenon DEF NoNewer
    <3>3. CASE ops[j].label = l /\ j # n
      <4>1. j \in Nat /\ n \in Nat
        BY <1>2, <2>2
      <4>2. j <= n
        BY <2>2, <3>3, Zenon
      <4>3. j < n
        BY <3>3, <4>1, <4>2
      <4> QED  BY <1>3, <2>2, <4>3, Zenon DEF InLine
    <3> QED  BY <3>1, <3>2, <3>3, Zenon
  <2>7. \A y \in Range(ops) : NoNewer(order, y, ops[n])
    BY <2>6, Zenon DEF Range
  <2> QED  BY <2>2, <2>3, <2>4, <2>5, <2>7, Zenon
<1>5. ASSUME NEW l \in Labels, ~\E i \in DOMAIN ops : ops[i].label = l
      PROVE  (\A y \in Range(ops) : y.label # l) /\ kv'[l] = kv[l]
  <2>1. kv'[l] = kv[l]
    BY <1>5, Zenon DEF KvSet
  <2> QED  BY <1>5, <2>1, Zenon DEF Range
<1> QED  BY <1>2, <1>4, <1>5, Zenon

\* It never makes the store older, and what it executes is then no newer than
\* the store.
LEMMA KvSetAges ==
    ASSUME IInv, NEW s \in Servers, KvSet(s), UNCHANGED config, NEW ops, ops = Head(msets[s])
    PROVE  /\ \A l \in Labels : StoreAge(l) <= StoreAge(l)' /\ StoreAge(l)' \in Nat
           /\ \A l \in Labels : ServerOf[l] # s => kv'[l] = kv[l]
           /\ \A y \in Range(ops) : Ahead(s, y) /\ AgeOf(order, y) <= StoreAge(y.label)'
           /\ \A y : Ahead(s, y) /\ Before(order, Range(ops), {y})
                  => StoreAge(y.label)' <= AgeOf(order, y)
           /\ \A l \in Labels : decrypt(kv'[l]) \in Known(order[l[1]]) /\ kv'[l] \in [cipher : Values]
<1>1. UNCHANGED order
  BY Zenon DEF KvSet, histVars
<1>2. /\ ops \in Seq(L3Op) /\ Range(ops) \subseteq All(msets[s])
      /\ \A l \in Labels :
            \/ (\A y \in Range(ops) : y.label # l) /\ kv'[l] = kv[l]
            \/ \E x \in Range(ops) : /\ x.label = l /\ kv'[l] = encrypt(Writes(x))
                                     /\ \A y \in Range(ops) : NoNewer(order, y, x)
  BY KvSetEffect, Zenon
<1>3. \A y \in Range(ops) : Ahead(s, y)
  BY <1>2, Zenon DEF IInv, PipeInv, Taken
<1>4. /\ \A l \in Labels : StoreAge(l) \in Nat
      /\ \A x : Forwarded(x) => x.label \in Labels /\ AgeOf(order, x) \in Nat
  BY AgeTypes, Zenon
<1>5. ASSUME NEW l \in Labels, NEW x \in Range(ops), x.label = l, kv'[l] = encrypt(Writes(x))
      PROVE  /\ StoreAge(l)' = AgeOf(order, x) /\ decrypt(kv'[l]) = Writes(x)
             /\ StoreAge(l) <= AgeOf(order, x) /\ AgeOf(order, x) \in Nat /\ ServerOf[l] = s
             /\ decrypt(kv'[l]) \in Known(order[l[1]]) /\ kv'[l] \in [cipher : Values]
  <2>1. decrypt(encrypt(Writes(x))) = Writes(x)
    BY DEF decrypt, encrypt
  <2>2. Ahead(s, x)
    BY <1>3, Zenon
  <2>3. StoreAge(l)' = AgeOf(order, x)
    BY <1>1, <1>5, <2>1, Zenon DEF StoreAge, AgeOf
  <2>4. StoreAge(l) <= AgeOf(order, x) /\ AgeOf(order, x) \in Nat /\ ServerOf[l] = s
    BY <1>4, <1>5, <2>2, Zenon DEF Ahead
  <2>5. Writes(x) \in Known(order[l[1]])
    BY <1>5, <2>2, Zenon DEF Ahead, Forwarded
  <2>6. kv'[l] \in [cipher : Values]
    <3>1. x \in L3Op
      BY <1>2, RangeType, Zenon
    <3>2. Writes(x) \in Values
      BY <3>1 DEF L3Op, Writes, Values
    <3> QED  BY <1>5, <3>2 DEF encrypt
  <2> QED  BY <1>5, <2>1, <2>3, <2>4, <2>5, <2>6, Zenon
<1>6. ASSUME NEW l \in Labels, kv'[l] = kv[l]
      PROVE  /\ StoreAge(l)' = StoreAge(l) /\ StoreAge(l) <= StoreAge(l)
             /\ decrypt(kv'[l]) \in Known(order[l[1]]) /\ kv'[l] \in [cipher : Values]
  <2>1. StoreAge(l)' = StoreAge(l)
    BY <1>1, <1>6, Zenon DEF StoreAge
  <2>2. StoreAge(l) <= StoreAge(l)
    BY <1>4
  <2>3. kv[l] \in [cipher : Values]
    BY Zenon DEF IInv, TypeInv, DoneType
  <2> QED  BY <1>6, <2>1, <2>2, <2>3, Zenon DEF IInv, CacheInv
<1>7. \A l \in Labels : StoreAge(l) <= StoreAge(l)' /\ StoreAge(l)' \in Nat
  <2> SUFFICES ASSUME NEW l \in Labels
               PROVE  StoreAge(l) <= StoreAge(l)' /\ StoreAge(l)' \in Nat
    BY Zenon
  <2>1. CASE kv'[l] = kv[l]
    BY <1>4, <1>6, <2>1, Zenon
  <2>2. CASE \E x \in Range(ops) : x.label = l /\ kv'[l] = encrypt(Writes(x))
    <3>1. PICK x \in Range(ops) : x.label = l /\ kv'[l] = encrypt(Writes(x))
      BY <2>2, Zenon
    <3>2. /\ StoreAge(l)' = AgeOf(order, x)
          /\ StoreAge(l) <= AgeOf(order, x) /\ AgeOf(order, x) \in Nat
      BY <1>5, <3>1, Zenon
    <3> QED  BY <3>2, Zenon
  <2> QED  BY <1>2, <2>1, <2>2, Zenon
<1>8. \A l \in Labels : ServerOf[l] # s => kv'[l] = kv[l]
  BY <1>2, <1>5, Zenon
<1>9. ASSUME NEW y \in Range(ops)
      PROVE  AgeOf(order, y) <= StoreAge(y.label)'
  <2>1. y.label \in Labels
    BY <1>3, <1>4, Zenon DEF Ahead
  <2>2. PICK x \in Range(ops) : /\ x.label = y.label /\ kv'[y.label] = encrypt(Writes(x))
                               /\ NoNewer(order, y, x)
    BY <1>2, <1>9, <2>1, Zenon
  <2> QED  BY <1>5, <2>1, <2>2, Zenon DEF NoNewer
<1>10. ASSUME NEW y, Ahead(s, y), Before(order, Range(ops), {y})
       PROVE  StoreAge(y.label)' <= AgeOf(order, y)
  <2>1. y.label \in Labels
    BY <1>4, <1>10, Zenon DEF Ahead
  <2>2. CASE kv'[y.label] = kv[y.label]
    BY <1>6, <1>10, <2>1, <2>2, Zenon DEF Ahead
  <2>3. CASE \E x \in Range(ops) : x.label = y.label /\ kv'[y.label] = encrypt(Writes(x))
    <3>1. PICK x \in Range(ops) : x.label = y.label /\ kv'[y.label] = encrypt(Writes(x))
      BY <2>3, Zenon
    <3>2. AgeOf(order, x) <= AgeOf(order, y)
      BY <1>10, <3>1, Zenon DEF Before, NoNewer
    <3> QED  BY <1>5, <2>1, <3>1, <3>2, Zenon
  <2> QED  BY <1>2, <2>1, <2>2, <2>3, Zenon
<1>11. \A l \in Labels : decrypt(kv'[l]) \in Known(order[l[1]]) /\ kv'[l] \in [cipher : Values]
  BY <1>2, <1>5, <1>6, Zenon
<1> QED  BY <1>3, <1>7, <1>8, <1>9, <1>10, <1>11, Zenon

\* KvSet
LEMMA KvSetStep ==
    ASSUME IInv, NEW s \in Servers, KvSet(s), UNCHANGED config
    PROVE  IInv'
<1>0. PICK ops : ops = Head(msets[s])
  BY Zenon
<1>1. /\ msets[s] # <<>> /\ msets' = [msets EXCEPT ![s] = Tail(@)]
      /\ msetReplies' = [msetReplies EXCEPT ![s] = Append(@, ops)]
  BY <1>0, Zenon DEF KvSet
<1>2. /\ UNCHANGED <<l2Vars, histVars, l3request, get_queue, mgets, crypto_queue_, respond_queue_>>
      /\ UNCHANGED <<ack_queues_, acked>>
  BY Zenon DEF KvSet
<1>3. UNCHANGED <<cache, label, progress, seen, result, order>>
  BY <1>2, Zenon DEF histVars, l2Vars
<1>4. L2Type' /\ HistType' /\ ChainInv'
  BY <1>2, L3Frame, Zenon
<1>5. /\ \A l \in Labels : StoreAge(l) <= StoreAge(l)' /\ StoreAge(l)' \in Nat
      /\ \A l \in Labels : ServerOf[l] # s => kv'[l] = kv[l]
      /\ \A y \in Range(ops) : Ahead(s, y) /\ AgeOf(order, y) <= StoreAge(y.label)'
      /\ \A y : Ahead(s, y) /\ Before(order, Range(ops), {y})
             => StoreAge(y.label)' <= AgeOf(order, y)
      /\ \A l \in Labels : decrypt(kv'[l]) \in Known(order[l[1]]) /\ kv'[l] \in [cipher : Values]
  BY <1>0, KvSetAges, Zenon
<1>6. /\ \A l \in Labels : StoreAge(l) \in Nat
      /\ \A x : Forwarded(x) => x.label \in Labels /\ AgeOf(order, x) \in Nat
      /\ \A l \in Labels : \A p \in Range(order[l[1]]) : AgeIn(order[l[1]], p) \in Nat
  BY AgeTypes, Zenon
<1>7. \A x : Forwarded(x) => Forwarded(x)'
  BY <1>3, Zenon DEF Forwarded
<1>8. L3Type /\ DoneType
  BY Zenon DEF IInv, TypeInv
<1>9. msets[s] \in Seq(Seq(L3Op)) /\ msetReplies[s] \in Seq(Seq(L3Op))
  BY <1>8, Zenon DEF L3Type, DoneType
<1>10. /\ ops \in Seq(L3Op) /\ Tail(msets[s]) \in Seq(Seq(L3Op))
       /\ Range(ops) \subseteq All(msets[s]) /\ All(Tail(msets[s])) \subseteq All(msets[s])
  BY <1>0, <1>1, <1>9, AllTail, Zenon
<1>11. /\ Append(msetReplies[s], ops) \in Seq(Seq(L3Op))
       /\ All(Append(msetReplies[s], ops)) = All(msetReplies[s]) \cup Range(ops)
  BY <1>9, <1>10, AllAppend
<1>12. /\ msets'[s] = Tail(msets[s]) /\ msetReplies'[s] = Append(msetReplies[s], ops)
       /\ \A t \in Servers \ {s} : msets'[t] = msets[t] /\ msetReplies'[t] = msetReplies[t]
  BY <1>1, <1>8, Zenon DEF L3Type, DoneType
<1>13. TypeInv'
  <2>1. msets' \in [Servers -> Seq(Seq(L3Op))]
    BY <1>1, <1>8, <1>10, Zenon DEF L3Type
  <2>2. msetReplies' \in [Servers -> Seq(Seq(L3Op))]
    BY <1>1, <1>8, <1>11, Zenon DEF DoneType
  <2>3. kv' \in [Labels -> [cipher : Values]]
    <3> DEFINE h == Head(msets[s])
               last(l) == CHOOSE i \in DOMAIN h :
                             h[i].label = l /\ \A j \in DOMAIN h : h[j].label = l => j <= i
               e(l) == IF \E i \in DOMAIN h : h[i].label = l
                       THEN encrypt(h[last(l)].plaintext) ELSE kv[l]
    <3>1. kv' = [l \in Labels |-> e(l)]
      BY Zenon DEF KvSet
    <3> HIDE DEF e
    <3>2. kv' = [l \in Labels |-> kv'[l]]
      BY <3>1, Zenon
    <3> QED  BY <1>5, <3>2, Zenon
  <2>4. L3Type'
    BY <1>2, <1>8, <2>1, Zenon DEF L3Type
  <2>5. DoneType'
    BY <1>2, <1>8, <2>2, <2>3, Zenon DEF DoneType
  <2> QED  BY <1>4, <2>4, <2>5, Zenon DEF TypeInv
<1>14. /\ Line(order, Connections(s), get_queue[s], mgets[s], CryptoOps(crypto_queue_[s]),
              Tail(msets[s]))
       /\ Before(order, Range(ops),
                 Conn(Connections(s)) \cup Range(get_queue[s]) \cup All(mgets[s])
                   \cup All(CryptoOps(crypto_queue_[s])) \cup All(Tail(msets[s])))
  <2>1. Line(order, Connections(s), get_queue[s], mgets[s], CryptoOps(crypto_queue_[s]), msets[s])
    BY ServerLine, Zenon
  <2> QED  BY <1>0, <1>1, <1>9, <2>1, LineSet, Zenon
<1>15. LineInv'
  <2> SUFFICES ASSUME NEW t \in Servers
               PROVE  Line(order, Connections(t), get_queue[t], mgets[t],
                           CryptoOps(crypto_queue_[t]), msets'[t])
    BY <1>2, <1>3, Zenon DEF LineInv, Connections
  <2>1. CASE t # s
    BY <1>12, <2>1, ServerLine, Zenon
  <2>2. CASE t = s
    BY <1>12, <1>14, <2>2, Zenon
  <2> QED  BY <2>1, <2>2, Zenon
<1>16. \A t \in Servers : \A y : Ahead(t, y) /\ (t = s => Before(order, Range(ops), {y})) => Ahead(t, y)'
  <2> SUFFICES ASSUME NEW t \in Servers, NEW y, Ahead(t, y), t = s => Before(order, Range(ops), {y})
               PROVE  Ahead(t, y)'
    BY Zenon
  <2>1. Forwarded(y)' /\ ServerOf[y.label]' = t /\ y.label \in Labels
    BY <1>6, <1>7, Zenon DEF Ahead, ServerOf
  <2>2. StoreAge(y.label)' <= AgeOf(order, y)
    <3>1. CASE t = s
      BY <1>5, <3>1, Zenon
    <3>2. CASE t # s
      <4>1. kv'[y.label] = kv[y.label]
        BY <1>5, <2>1, <3>2, Zenon DEF Ahead
      <4>2. StoreAge(y.label)' = StoreAge(y.label)
        BY <1>3, <4>1, Zenon DEF StoreAge
      <4> QED  BY <4>2, Zenon DEF Ahead
    <3> QED  BY <3>1, <3>2, Zenon
  <2> QED  BY <1>3, <2>1, <2>2, Zenon DEF Ahead
<1>17. PipeInv'
  <2>1. \A t \in Servers : Taken(t)' \subseteq Taken(t)
    BY <1>2, <1>10, <1>12, Zenon DEF Taken
  <2>2. \A y \in Taken(s)' : Before(order, Range(ops), {y})
    BY <1>2, <1>12, <1>14, Zenon DEF Taken, Before
  <2>3. \A t \in Servers : \A y \in Taken(t) : Ahead(t, y)
    BY Zenon DEF IInv, PipeInv
  <2>4. \A t \in Servers : \A y \in Taken(t)' : Ahead(t, y)'
    BY <1>16, <2>1, <2>2, <2>3, Zenon
  <2>5. \A w \in Workers : \A y \in Range(l3request[w][s]) : Before(order, Range(ops), {y})
    <3>1. \A w \in Workers : Range(l3request[w][s]) \subseteq Conn(Connections(s))
      <4>1. \A w \in Workers : Connections(s)[w] = l3request[w][s]
        BY ServerLine, Zenon
      <4> QED  BY <4>1, Zenon DEF Conn
    <3> QED  BY <1>14, <3>1, Zenon DEF Before
  <2>6. \A t \in Servers : \A w \in Workers : \A y \in Range(l3request[w][t]) :
            Ahead(t, y)' /\ WorkerOf[y.label] = w
    BY <1>16, <2>5, Zenon DEF IInv, PipeInv
  <2> QED  BY <1>2, <2>4, <2>6, Zenon DEF PipeInv
<1>18. ExecutedInv'
  <2>1. ASSUME NEW y, Behind(y)
        PROVE  Behind(y)'
    <3>1. Forwarded(y) /\ y.plaintext = Writes(y) /\ AgeOf(order, y) <= StoreAge(y.label)
      BY <2>1, Zenon DEF Behind
    <3>2. AgeOf(order, y) \in Nat /\ y.label \in Labels
      BY <1>6, <3>1, Zenon
    <3>3. AgeOf(order, y) <= StoreAge(y.label)'
      <4> DEFINE a == AgeOf(order, y)
                 b == StoreAge(y.label)
                 c == StoreAge(y.label)'
      <4>1. a \in Nat /\ b \in Nat /\ c \in Nat /\ a <= b /\ b <= c
        BY <1>5, <1>6, <3>1, <3>2, Zenon
      <4> HIDE DEF a, b, c
      <4>2. a <= c
        BY <4>1
      <4> QED  BY <4>2, Zenon DEF a, c
    <3> QED  BY <1>3, <1>7, <3>1, <3>3, Zenon DEF Behind
  <2>2. ASSUME NEW y \in Range(ops)
        PROVE  Behind(y)'
    <3>1. y.plaintext = Writes(y) /\ Forwarded(y)
      BY <1>5, <1>10, Zenon DEF IInv, ReadInv, Ahead
    <3> QED  BY <1>3, <1>5, <1>7, <3>1, Zenon DEF Behind
  <2>3. Executed(s)' \subseteq Executed(s) \cup Range(ops)
    BY <1>2, <1>11, <1>12, Zenon DEF Executed
  <2>4. \A t \in Servers \ {s} : Executed(t)' = Executed(t)
    BY <1>2, <1>12, Zenon DEF Executed
  <2>5. \A t \in Servers : \A y \in Executed(t) : Behind(y)
    BY Zenon DEF IInv, ExecutedInv
  <2>6. \A t \in Servers : \A y \in Executed(t)' : Behind(y)'
    BY <2>1, <2>2, <2>3, <2>4, <2>5, Zenon
  <2> QED  BY <2>6, Zenon DEF ExecutedInv
<1>19. ReadInv'
  <2>1. \A t \in Servers : All(msets'[t]) \subseteq All(msets[t])
    BY <1>10, <1>12, Zenon
  <2> QED  BY <1>2, <2>1, Zenon DEF IInv, ReadInv
<1>20. CacheInv'
  BY <1>3, <1>5, Zenon DEF IInv, CacheInv
<1>21. AnswerInv'
  <2> SUFFICES ASSUME NEW p \in Puts,
                      progress[p] = "answered" \/ \E w \in Workers : p \in acked[w]
               PROVE  /\ p \in Range(order[label[p][1]])
                      /\ AgeIn(order[label[p][1]], p) <= StoreAge(label[p])'
    <3>1. \A g \in Gets : progress'[g] = "answered" => result'[g] = seen'[g]
      BY <1>3, Zenon DEF IInv, AnswerInv
    <3>2. \A p \in Puts : StoreAge(label[p])' = AgeIn(order[label[p][1]], decrypt(kv'[label[p]]))
      BY <1>3, Zenon DEF StoreAge
    <3> QED  BY <1>2, <1>3, <3>1, <3>2, Zenon DEF AnswerInv, StoreAge
  <2>1. /\ p \in Range(order[label[p][1]])
        /\ AgeIn(order[label[p][1]], p) <= StoreAge(label[p])
    BY Zenon DEF IInv, AnswerInv
  <2>2. label[p] \in Labels /\ label'[p] = label[p]
    <3>1. p \in Requests
      BY Zenon DEF Requests
    <3> QED  BY <1>3, <3>1, Zenon DEF IInv, TypeInv, HistType
  <2>3. PICK l \in Labels : l = label[p]
    BY <2>2, Zenon
  <2> DEFINE a == AgeIn(order[l[1]], p)
             b == StoreAge(l)
             c == StoreAge(l)'
  <2>4. a \in Nat /\ b \in Nat /\ c \in Nat /\ a <= b /\ b <= c
    BY <1>5, <1>6, <2>1, <2>3, Zenon
  <2> HIDE DEF a, b, c
  <2>5. a <= c
    BY <2>4
  <2>6. c = StoreAge(label[p])'
    BY <2>2, <2>3, Zenon DEF c, StoreAge
  <2> QED  BY <2>1, <2>3, <2>5, <2>6, Zenon DEF a
<1> QED  BY <1>4, <1>13, <1>15, <1>17, <1>18, <1>19, <1>20, <1>21, Zenon DEF IInv

\* PutCallback: executed operations are answered and acked.
LEMMA PutCallbackStep ==
    ASSUME IInv, NEW s \in Servers, PutCallback(s), UNCHANGED config
    PROVE  IInv'
<1>0. PICK ops, A, a : ops = Head(msetReplies[s]) /\ A = ack_queues_[s] /\ a = AckBatchSize
  BY Zenon
<1> DEFINE From(w) == At(ops, {i \in DOMAIN ops : WorkerOf[ops[i].label] = w})
           Queue(w) == A[w] \o From(w)
           n(w) == a * (Len(Queue(w)) \div a)
           real == At(ops, {i \in DOMAIN ops : ops[i].req \notin Fakes})
           rest(w) == SubSeq(Queue(w), n(w) + 1, Len(Queue(w)))
           sent(w) == SubSeq(Queue(w), 1, n(w))
<1>1. /\ msetReplies[s] # <<>> /\ msetReplies' = [msetReplies EXCEPT ![s] = Tail(@)]
      /\ respond_queue_' = [respond_queue_ EXCEPT ![s] = @ \o real]
      /\ ack_queues_' = [ack_queues_ EXCEPT ![s] = [w \in Workers |-> rest(w)]]
      /\ acked' = [w \in Workers |-> acked[w] \cup {x.req : x \in Range(sent(w))}]
  BY <1>0, Zenon DEF PutCallback
<1>2. UNCHANGED <<l2Vars, histVars, l3request, get_queue, mgets, crypto_queue_, msets, kv>>
  BY Zenon DEF PutCallback
<1>3. UNCHANGED <<label, progress, seen, result, order>>
  BY <1>2, Zenon DEF histVars
<1>4. L2Type' /\ HistType' /\ ChainInv'
  BY <1>2, L3Frame, Zenon
<1>5. /\ CacheInv' /\ (\A l : StoreAge(l)' = StoreAge(l))
      /\ \A t, x : Ahead(t, x) => Ahead(t, x)'
      /\ \A x : Behind(x) => Behind(x)'
  BY <1>2, StoreFrame, Zenon
<1>6. L2Type /\ L3Type /\ DoneType
  BY Zenon DEF IInv, TypeInv
<1>7. /\ msetReplies[s] \in Seq(Seq(L3Op)) /\ respond_queue_[s] \in Seq(L3Op)
      /\ A \in [Workers -> Seq(L3Op)] /\ a \in Nat \ {0}
  <2>1. /\ msetReplies[s] \in Seq(Seq(L3Op)) /\ respond_queue_[s] \in Seq(L3Op)
        /\ A \in [Workers -> Seq(L3Op)]
    BY <1>0, <1>6, Zenon DEF DoneType
  <2>2. config \in Configs
    BY <1>6, Zenon DEF L2Type
  <2>3. config.AckBatchSize \in Nat \ {0}
    BY <2>2, StorageAssumption
  <2> QED  BY <1>0, <2>1, <2>3, Zenon DEF AckBatchSize
<1>8. /\ ops \in Seq(L3Op) /\ Tail(msetReplies[s]) \in Seq(Seq(L3Op))
      /\ Range(ops) \subseteq All(msetReplies[s])
      /\ All(Tail(msetReplies[s])) \subseteq All(msetReplies[s])
  BY <1>0, <1>1, <1>7, AllTail, Zenon
<1>9. \A I \in SUBSET DOMAIN ops : At(ops, I) \in Seq(L3Op) /\ Range(At(ops, I)) \subseteq Range(ops)
  <2> SUFFICES ASSUME NEW I \in SUBSET DOMAIN ops
               PROVE  At(ops, I) \in Seq(L3Op) /\ Range(At(ops, I)) \subseteq Range(ops)
    BY Zenon
  <2>1. At(ops, I) \in Seq(L3Op) /\ \A x \in Range(At(ops, I)) : \E i \in I : x = ops[i]
    BY <1>8, AtPositions, Zenon
  <2> QED  BY <2>1, Zenon DEF Range
<1>10. real \in Seq(L3Op) /\ Range(real) \subseteq Range(ops)
  BY <1>9, Zenon
<1>11. ASSUME NEW w \in Workers
       PROVE  /\ rest(w) \in Seq(L3Op) /\ Range(rest(w)) \subseteq Range(A[w]) \cup Range(ops)
              /\ sent(w) \in Seq(L3Op) /\ Range(sent(w)) \subseteq Range(A[w]) \cup Range(ops)
  <2>1. From(w) \in Seq(L3Op) /\ Range(From(w)) \subseteq Range(ops)
    BY <1>9, Zenon
  <2>2. A[w] \in Seq(L3Op)
    BY <1>7, Zenon
  <2> HIDE DEF From
  <2>3. Queue(w) \in Seq(L3Op) /\ Range(Queue(w)) \subseteq Range(A[w]) \cup Range(From(w))
    BY <2>1, <2>2, RangeConcat, Zenon
  <2> HIDE DEF Queue
  <2>4. Len(Queue(w)) \in Nat
    BY <2>3
  <2>5. n(w) \in Nat /\ n(w) <= Len(Queue(w))
    BY <1>7, <2>4, FullBatches, Zenon
  <2> HIDE DEF n
  <2>6. n(w) + 1 \in Nat /\ 1 <= n(w) + 1 /\ Len(Queue(w)) <= Len(Queue(w)) /\ 1 \in Nat /\ 1 <= 1
    BY <2>4, <2>5
  <2>7. rest(w) \in Seq(L3Op) /\ Range(rest(w)) \subseteq Range(Queue(w))
    BY <2>3, <2>4, <2>6, RangeSubSeq, Zenon
  <2>8. sent(w) \in Seq(L3Op) /\ Range(sent(w)) \subseteq Range(Queue(w))
    BY <2>3, <2>5, <2>6, RangeSubSeq, Zenon
  <2> QED  BY <2>1, <2>3, <2>7, <2>8, Zenon
<1> HIDE DEF real, rest, sent
<1>12. /\ respond_queue_[s] \o real \in Seq(L3Op)
       /\ Range(respond_queue_[s] \o real) \subseteq Range(respond_queue_[s]) \cup Range(real)
  BY <1>7, <1>10, RangeConcat, Zenon
<1>13. TypeInv'
  <2>1. /\ msetReplies' \in [Servers -> Seq(Seq(L3Op))]
        /\ respond_queue_' \in [Servers -> Seq(L3Op)]
    BY <1>1, <1>6, <1>8, <1>12, Zenon DEF DoneType
  <2>2. ack_queues_' \in [Servers -> [Workers -> Seq(L3Op)]]
    <3>1. [w \in Workers |-> rest(w)] \in [Workers -> Seq(L3Op)]
      BY <1>11, Zenon
    <3> QED  BY <1>1, <1>6, <3>1, Zenon DEF DoneType
  <2>3. acked' \in [Workers -> SUBSET Requests]
    <3>1. \A x \in L3Op : x.req \in Requests
      BY DEF L3Op
    <3>2. \A w \in Workers : Range(sent(w)) \subseteq L3Op
      BY <1>11, RangeType, Zenon
    <3>3. \A w \in Workers : acked[w] \subseteq Requests
      BY <1>6, Zenon DEF DoneType
    <3>4. \A w \in Workers : acked[w] \cup {x.req : x \in Range(sent(w))} \in SUBSET Requests
      BY <3>1, <3>2, <3>3, Zenon
    <3> QED  BY <1>1, <3>4, Zenon
  <2>4. DoneType'
    BY <1>2, <1>6, <2>1, <2>2, <2>3, Zenon DEF DoneType
  <2>5. L3Type'
    BY <1>2, <1>6, Zenon DEF L3Type
  <2> QED  BY <1>4, <2>4, <2>5, Zenon DEF TypeInv
<1>14. PipeInv' /\ LineInv' /\ ReadInv'
  <2>1. PipeInv'
    BY <1>2, <1>5, Zenon DEF IInv, PipeInv, Taken
  <2>2. LineInv'
    BY <1>2, <1>3, Zenon DEF IInv, LineInv, Connections
  <2>3. ReadInv'
    BY <1>2, Zenon DEF IInv, ReadInv
  <2> QED  BY <2>1, <2>2, <2>3, Zenon
<1>15. /\ msetReplies'[s] = Tail(msetReplies[s]) /\ respond_queue_'[s] = respond_queue_[s] \o real
       /\ \A w \in Workers : ack_queues_'[s][w] = rest(w)
       /\ \A t \in Servers \ {s} : /\ msetReplies'[t] = msetReplies[t]
                                    /\ respond_queue_'[t] = respond_queue_[t]
                                    /\ ack_queues_'[t] = ack_queues_[t]
  BY <1>1, <1>6, Zenon DEF DoneType
<1>16. Range(ops) \subseteq Executed(s) /\ \A w \in Workers : Range(A[w]) \subseteq Executed(s)
  <2>1. Range(ops) \subseteq Executed(s)
    BY <1>8, Zenon DEF Executed
  <2>2. \A w \in Workers : Range(A[w]) \subseteq Executed(s)
    BY <1>0, Zenon DEF Executed, Conn
  <2> QED  BY <2>1, <2>2, Zenon
<1>17. ExecutedInv'
  <2>1. All(msetReplies'[s]) \subseteq Executed(s)
    BY <1>8, <1>15, Zenon DEF Executed
  <2>2. Range(respond_queue_'[s]) \subseteq Executed(s)
    <3>1. Range(respond_queue_[s]) \subseteq Executed(s)
      BY Zenon DEF Executed
    <3> QED  BY <1>10, <1>12, <1>15, <1>16, <3>1, Zenon
  <2>3. Conn(ack_queues_'[s]) \subseteq Executed(s)
    <3> SUFFICES ASSUME NEW w \in Workers, NEW x \in Range(ack_queues_'[s][w])
                 PROVE  x \in Executed(s)
      BY Zenon DEF Conn
    <3>1. x \in Range(rest(w))
      BY <1>15, Zenon
    <3> QED  BY <1>11, <1>16, <3>1, Zenon
  <2>4. Executed(s)' \subseteq Executed(s)
    BY <2>1, <2>2, <2>3, Zenon DEF Executed
  <2>5. \A t \in Servers \ {s} : Executed(t)' = Executed(t)
    BY <1>15, Zenon DEF Executed
  <2>6. \A t \in Servers : \A x \in Executed(t) : Behind(x)
    BY Zenon DEF IInv, ExecutedInv
  <2>7. \A t \in Servers : \A x \in Executed(t)' : Behind(x)'
    BY <1>5, <2>4, <2>5, <2>6, Zenon
  <2> QED  BY <2>7, Zenon DEF ExecutedInv
<1>18. AnswerInv'
  <2>1. ASSUME NEW p \in Puts, NEW w \in Workers, p \in acked'[w]
        PROVE  /\ p \in Range(order[label[p][1]])
               /\ AgeIn(order[label[p][1]], p) <= StoreAge(label[p])
    <3>1. p \in acked[w] \/ \E x \in Range(sent(w)) : p = x.req
      BY <1>1, <2>1, Zenon
    <3>2. CASE p \in acked[w]
      BY <3>2, Zenon DEF IInv, AnswerInv
    <3>3. CASE \E x \in Range(sent(w)) : p = x.req
      <4>1. PICK x \in Range(sent(w)) : p = x.req
        BY <3>3, Zenon
      <4>2. Behind(x)
        BY <1>11, <1>16, <4>1, Zenon DEF IInv, ExecutedInv
      <4> QED  BY <4>1, <4>2, BehindPut, Zenon
    <3> QED  BY <3>1, <3>2, <3>3, Zenon
  <2>2. \A p \in Puts : StoreAge(label[p])' = StoreAge(label[p])
    BY <1>2, <1>3, Zenon DEF StoreAge
  <2> QED  BY <1>3, <2>1, <2>2, Zenon DEF IInv, AnswerInv
<1> QED  BY <1>4, <1>5, <1>13, <1>14, <1>17, <1>18, Zenon DEF IInv

-----------------------------------------------------------------------------
LEMMA NextIInv ==
    ASSUME UpdateCacheEnabled, IInv, [Next]_vars
    PROVE  IInv'
<1>1. CASE Next
  <2>1. UNCHANGED config
    BY <1>1, Zenon DEF Next
  <2>2. ASSUME NEW o \in Requests, Submit(o) PROVE IInv'
    BY <2>1, <2>2, SubmitStep, Zenon
  <2>3. ASSUME NEW w \in Workers, Worker(w) PROVE IInv'
    BY <2>1, <2>3, RunCommandStep, ForwardRequestStep, Zenon DEF Worker
  <2>4. ASSUME NEW s \in Servers, Server(s) PROVE IInv'
    BY <2>1, <2>4, AsyncOperationStep, KvGetStep, CryptoThreadStep, KvSetStep, PutCallbackStep,
       ResponderThreadStep, Zenon DEF Server
  <2> QED  BY <1>1, <2>2, <2>3, <2>4, Zenon DEF Next, Work
<1>2. CASE UNCHANGED vars
  <2>1. UNCHANGED <<config, l2Vars, l3request, l3Vars, acked, kv, histVars>>
    BY <1>2, Zenon DEF vars
  <2>2. UNCHANGED <<get_queue, mgets, crypto_queue_, msets, msetReplies, respond_queue_,
                    ack_queues_>>
    BY <2>1, Zenon DEF l3Vars
  <2>3. UNCHANGED order
    BY <2>1, Zenon DEF histVars
  <2>4. L2Type' /\ HistType' /\ ChainInv'
    BY <2>1, L3Frame, Zenon
  <2>5. /\ CacheInv' /\ AnswerInv' /\ (\A t, x : Ahead(t, x) => Ahead(t, x)')
        /\ (\A x : Behind(x) => Behind(x)')
    BY <2>1, StoreFrame, Zenon
  <2>6. L3Type' /\ DoneType'
    BY <2>1, <2>2, Zenon DEF IInv, TypeInv, L3Type, DoneType
  <2>7. LineInv'
    BY <2>1, <2>2, <2>3, Zenon DEF IInv, LineInv, Connections
  <2>8. PipeInv'
    BY <2>1, <2>2, <2>5, Zenon DEF IInv, PipeInv, Taken
  <2>9. ExecutedInv'
    BY <2>1, <2>2, <2>5, Zenon DEF IInv, ExecutedInv, Executed
  <2>10. ReadInv'
    BY <2>2, Zenon DEF IInv, ReadInv
  <2> QED  BY <2>4, <2>5, <2>6, <2>7, <2>8, <2>9, <2>10, Zenon DEF IInv, TypeInv
<1> QED  BY <1>1, <1>2, Zenon

-----------------------------------------------------------------------------
(***************************************************************************)
(* Theorems                                                                *)
(***************************************************************************)

\* With the update cache, a put that was answered to its client or acked to its
\* L2 worker is in the store at its label, or was overwritten there by a later
\* put: for any number of keys, replicas, workers, servers and requests and any
\* batch sizes (put_cb answers after the MSET, crypto_thread writes back).
THEOREM StorageAnsweredIsStored ==
    ASSUME UpdateCacheEnabled
    PROVE  Spec => []AnsweredIsStored
<1>1. Init => IInv
  BY InitIInv, Zenon
<1>2. IInv /\ [Next]_vars => IInv'
  BY NextIInv, Zenon
<1>3. IInv => AnsweredIsStored
  <2> SUFFICES ASSUME IInv, NEW p \in Puts,
                      progress[p] = "answered" \/ p \in acked[WorkerOf[label[p]]]
               PROVE  Age(label[p][1], p) <= Age(label[p][1], decrypt(kv[label[p]]))
    BY Zenon DEF AnsweredIsStored
  <2>1. label[p] \in Labels
    BY Zenon DEF IInv, TypeInv, HistType, Requests
  <2>2. WorkerOf[label[p]] \in Workers
    BY <2>1, StorageAssumption, Zenon
  <2>3. AgeIn(order[label[p][1]], p) <= StoreAge(label[p])
    BY <2>2, Zenon DEF IInv, AnswerInv
  <2> QED  BY <2>3, Zenon DEF StoreAge, AgeIn, Age
<1> QED  BY <1>1, <1>2, <1>3, PTL DEF Spec

\* With the update cache, no step of the pipeline replaces the value of a label
\* in the store by an older one, although every operation reads its label with
\* one MGET and writes it with a later MSET (crypto_thread, flush_put_queue).
THEOREM StorageNeverGoesBack ==
    ASSUME UpdateCacheEnabled
    PROVE  Spec => KvNeverGoesBack
<1> DEFINE Kept == \A l \in Labels : Age(l[1], decrypt(kv[l])) <= Age(l[1], decrypt(kv[l]))'
<1>1. Init => IInv
  BY InitIInv, Zenon
<1>2. IInv /\ [Next]_vars => IInv'
  BY NextIInv, Zenon
<1>3. IInv /\ [Next]_vars => [Kept]_vars
  <2> SUFFICES ASSUME IInv, Next PROVE Kept
    BY Zenon
  <2>1. (\A l \in Labels : StoreAge(l) <= StoreAge(l)') => Kept
    BY Zenon DEF StoreAge, AgeIn, Age
  <2> HIDE DEF Kept
  <2>2. \A l \in Labels : StoreAge(l) <= StoreAge(l)
    <3>1. \A n \in Nat : n <= n
      OBVIOUS
    <3> QED  BY <3>1, AgeTypes, Zenon
  <2>3. (\A l \in Labels : StoreAge(l)' = StoreAge(l)) => Kept
    BY <2>1, <2>2, Zenon
  <2>4. UNCHANGED <<kv, order>> => Kept
    BY <2>3, Zenon DEF StoreAge
  <2>5. UNCHANGED config
    BY Zenon DEF Next
  <2>6. ASSUME NEW o \in Requests, Submit(o) PROVE Kept
    BY <2>4, <2>6, Zenon DEF Submit
  <2>7. ASSUME NEW w \in Workers, Worker(w) PROVE Kept
    <3>1. CASE RunCommand(w)
      BY <2>3, <2>5, <3>1, RunCommandStep, Zenon
    <3>2. CASE ForwardRequest(w)
      BY <2>4, <3>2, Zenon DEF ForwardRequest
    <3> QED  BY <2>7, <3>1, <3>2, Zenon DEF Worker
  <2>8. ASSUME NEW s \in Servers, Server(s) PROVE Kept
    <3>1. CASE KvSet(s)
      BY <2>1, <2>5, <3>1, KvSetAges, Zenon
    <3>2. CASE ~KvSet(s)
      BY <2>4, <2>8, <3>2, Zenon
         DEF Server, AsyncOperation, KvGet, CryptoThread, PutCallback, ResponderThread, histVars
    <3> QED  BY <3>1, <3>2, Zenon
  <2> QED  BY <2>6, <2>7, <2>8, Zenon DEF Next, Work
<1> QED  BY <1>1, <1>2, <1>3, PTL DEF Spec, KvNeverGoesBack

\* With the update cache, the gets and puts of the clients are atomic: the
\* pipeline implements Register.  A put takes effect in run_command, a get in
\* forward_request, although its value is read from the store much later, if it
\* is, and the replicas of the key are written one by one.
THEOREM StorageAtomic ==
    ASSUME UpdateCacheEnabled
    PROVE  Spec => Atomic
<1>1. Init => IInv
  BY InitIInv, Zenon
<1>2. IInv /\ [Next]_vars => IInv'
  BY NextIInv, Zenon
<1>3. Init /\ IInv => R!Init
  BY RegisterInit, Zenon
<1>4. IInv /\ [Next]_vars => [R!Next]_(R!vars)
  <2> SUFFICES ASSUME IInv, [Next]_vars PROVE [R!Next]_(R!vars)
    BY Zenon
  <2>1. UNCHANGED <<cache, label, progress, seen, result>> => UNCHANGED R!vars
    <3> SUFFICES ASSUME UNCHANGED <<cache, label, progress, seen, result>>
                 PROVE  UNCHANGED R!vars
      BY Zenon
    <3>1. \A o \in Puts \cup Gets : Status(o)' = Status(o)
      BY StatusIs, Zenon
    <3>2. \A o \in Puts \cup Gets : Returned(o)' = Returned(o)
      BY Zenon DEF Returned
    <3> QED  BY <3>1, <3>2, RegisterSame, Zenon
  <2>2. ASSUME NEW o \in Requests, Submit(o) PROVE [R!Next]_(R!vars)
    BY <2>2, SubmitRegister, Zenon
  <2>3. ASSUME NEW w \in Workers, Worker(w) PROVE [R!Next]_(R!vars)
    BY <2>3, RunCommandRegister, ForwardRequestRegister, Zenon DEF Worker
  <2>4. ASSUME NEW s \in Servers, Server(s) PROVE [R!Next]_(R!vars)
    <3>1. CASE ResponderThread(s)
      BY <3>1, ResponderRegister, Zenon
    <3>2. CASE ~ResponderThread(s)
      <4>1. UNCHANGED <<l2Vars, histVars>>
        BY <2>4, <3>2, Zenon
           DEF Server, AsyncOperation, KvGet, CryptoThread, KvSet, PutCallback
      <4> QED  BY <2>1, <4>1, Zenon DEF l2Vars, histVars
    <3> QED  BY <3>1, <3>2, Zenon
  <2>5. CASE UNCHANGED vars
    BY <2>1, <2>5, Zenon DEF vars, l2Vars, histVars
  <2> QED  BY <2>2, <2>3, <2>4, <2>5, Zenon DEF Next, Work
<1> QED  BY <1>1, <1>2, <1>3, <1>4, PTL DEF Spec, Atomic, R!Spec
=============================================================================
