--------------------------- MODULE ForwardingProofs ---------------------------
(***************************************************************************)
(* For every batch size, number of commands, set of receivers and choice   *)
(* of failures, the hop between two layers runs no request twice, a        *)
(* command that the sending chain has forgotten is replicated in full, and *)
(* no request is lost, but for what becomes of the dummy key's.            *)
(***************************************************************************)
EXTENDS Forwarding, FiniteSetTheorems, TLAPS

(***************************************************************************)
(* The requests that may go to receiver d: those that hash to it, and      *)
(* those for the dummy key                                                 *)
(***************************************************************************)
MayGo(d) == {x \in Requests : d \in To(x)}
RequestsOf(d) == {x \in Requests : route[x] = d}

(***************************************************************************)
(* The state of the sending chain                                          *)
(***************************************************************************)
SenderType ==
    /\ chain_seq_no_ \in [Replicas -> Nat]
    /\ pending_ \in [Replicas -> SUBSET Commands]
    /\ pending_count_ \in [Replicas -> [Commands -> 0..BatchSize]]
    /\ chain \in Seq(Commands)
    /\ chainAcks \in Seq(Commands)

(***************************************************************************)
(* Every request is on a connection to, or run by, a receiver it may go to.*)
(***************************************************************************)
OutType ==
    /\ out \in [Replicas -> [Receivers -> Seq(Requests)]]
    /\ \A q \in Replicas, d \in Receivers : out[q][d] \in Seq(MayGo(d))

RanType ==
    /\ last_seen_seq_ \in [Receivers -> Int]
    /\ ran \in [Receivers -> Seq(Requests)]
    /\ \A d \in Receivers : ran[d] \in Seq(MayGo(d))
    /\ copied \in [Receivers -> Nat]
    /\ \A d \in Receivers : copied[d] <= Len(ran[d])

AckType == acks \subseteq ackSent /\ ackSent \subseteq Receivers \X Requests

TypeInv ==
    /\ route \in [Requests -> Receivers \cup {Any}]
    /\ SenderType /\ OutType /\ RanType /\ AckType

(***************************************************************************)
(* A receiver has run its requests in increasing order, none of them above *)
(* its mark.                                                               *)
(***************************************************************************)
MarkInv ==
    \A d \in Receivers :
        /\ \A i, j \in DOMAIN ran[d] : i < j => ran[d][i] < ran[d][j]
        /\ \A i \in DOMAIN ran[d] : ran[d][i] <= last_seen_seq_[d]

(***************************************************************************)
(* A receiver acks only a request that is on every replica of it.          *)
(***************************************************************************)
AckInv == \A d \in Receivers, x \in Requests : <<d, x>> \in ackSent => x \in Durable(d)

(***************************************************************************)
(* The acks of command s that replica 2 of the sending chain has read      *)
(***************************************************************************)
Read(s) == {p \in ackSent \ acks : p[2] \in Batch({s})}

(***************************************************************************)
(* Unless two receivers acked the same request of command s, all of its    *)
(* requests are acked.                                                     *)
(***************************************************************************)
AckedOnce(s) ==
    \A x \in Batch({s}), d, e \in Receivers :
        <<d, x>> \in ackSent /\ <<e, x>> \in ackSent => d = e

AllAcked(s) ==
    AckedOnce(s) => \A x \in Batch({s}) : \E d \in Receivers : <<d, x>> \in ackSent

(***************************************************************************)
(* Replica 2 counts down once for an ack; a command whose chain_ack is     *)
(* under way, or which replica 1 has forgotten, is acked in full unless a  *)
(* request of it was acked by two receivers.                               *)
(***************************************************************************)
CountDown ==
    \A s \in Commands :
        pending_count_[2][s] > 0 => pending_count_[2][s] + Cardinality(Read(s)) >= BatchSize

ChainAcksDone == \A i \in DOMAIN chainAcks : AllAcked(chainAcks[i])

ForgottenDone ==
    \A s \in 1..chain_seq_no_[1] : s \notin pending_[1] => AllAcked(s)

CountInv == CountDown /\ ChainAcksDone /\ ForgottenDone

IInv == TypeInv /\ MarkInv /\ AckInv /\ CountInv

-----------------------------------------------------------------------------
(***************************************************************************)
(* The sequences of the state                                              *)
(***************************************************************************)
LEMMA HeadTail ==
  ASSUME NEW S, NEW s \in Seq(S), s # <<>>
  PROVE  Head(s) \in S /\ Tail(s) \in Seq(S)
  OBVIOUS

LEMMA Appended ==
  ASSUME NEW S, NEW s \in Seq(S), NEW x \in S
  PROVE  /\ Append(s, x) \in Seq(S)
         /\ Len(Append(s, x)) = Len(s) + 1
         /\ \A i \in 1..Len(s) : Append(s, x)[i] = s[i]
         /\ Append(s, x)[Len(s) + 1] = x
  OBVIOUS

LEMMA Prefix ==
  ASSUME NEW S, NEW s \in Seq(S), NEW k \in Nat, k <= Len(s)
  PROVE  /\ SubSeq(s, 1, k) \in Seq(S)
         /\ Len(SubSeq(s, 1, k)) = k
         /\ \A i \in 1..k : SubSeq(s, 1, k)[i] = s[i]
  OBVIOUS

LEMMA Wider ==
  ASSUME NEW S, NEW T, S \subseteq T, NEW s \in Seq(S)
  PROVE  s \in Seq(T)
  OBVIOUS

(***************************************************************************)
(* The requests are finitely many numbers, and so are those of a command,  *)
(* of which there are no more than BatchSize.                              *)
(***************************************************************************)
LEMMA RequestsFinite == IsFiniteSet(Requests) /\ Requests \subseteq Nat
  <1>1. BatchSize \in Nat /\ BatchSize * MaxCommands + BatchSize - 1 \in Nat
    BY ForwardingAssumption
  <1>2. QED
    BY <1>1, FS_Interval DEF Requests

LEMMA RequestsInt == Requests \subseteq Int /\ \A d : MayGo(d) \subseteq Requests
  BY RequestsFinite DEF MayGo

LEMMA MayGoUnchanged ==
  ASSUME route' = route
  PROVE  \A d : MayGo(d)' = MayGo(d)
  BY Zenon DEF MayGo, To

LEMMA CommandType ==
  ASSUME NEW x \in Requests
  PROVE  Command(x) \in Commands
  <1> DEFINE q == x \div BatchSize
             r == x % BatchSize
  <1>1. BatchSize \in Nat \ {0} /\ MaxCommands \in Nat
    BY ForwardingAssumption
  <1>2. x \in Nat /\ BatchSize <= x /\ x < BatchSize * (MaxCommands + 1)
    BY <1>1, RequestsFinite DEF Requests
  <1>3. q \in Nat /\ x = BatchSize * q + r /\ r \in 0..(BatchSize - 1)
    BY <1>1, <1>2
  <1> HIDE DEF q, r
  <1>4. q # 0
    BY <1>1, <1>2, <1>3
  <1>5. ~(q >= MaxCommands + 1)
    <2> SUFFICES ASSUME q >= MaxCommands + 1
                 PROVE  FALSE
      OBVIOUS
    <2>1. BatchSize * q >= BatchSize * (MaxCommands + 1)
      BY <1>1, <1>3
    <2>2. QED
      BY <1>1, <1>2, <1>3, <2>1
  <1>6. QED
    BY <1>1, <1>3, <1>4, <1>5 DEF Command, Commands, q

LEMMA BatchBound ==
  ASSUME NEW s \in Commands
  PROVE  IsFiniteSet(Batch({s})) /\ Cardinality(Batch({s})) <= BatchSize
  <1> DEFINE lo == s * BatchSize
             hi == s * BatchSize + BatchSize - 1
  <1>1. lo \in Int /\ hi \in Int /\ hi - lo + 1 = BatchSize /\ lo <= hi /\ BatchSize \in Nat \ {0}
    BY ForwardingAssumption DEF Commands
  <1>2. ASSUME NEW x \in Nat, x \div BatchSize = s
        PROVE  lo <= x /\ x <= hi
    <2>1. x = BatchSize * (x \div BatchSize) + (x % BatchSize) /\ x % BatchSize \in 0..(BatchSize - 1)
      BY <1>1
    <2>2. QED
      BY <2>1, <1>1, <1>2 DEF Commands
  <1>3. Batch({s}) \subseteq lo..hi
    <2> SUFFICES ASSUME NEW x \in Batch({s})
                 PROVE  x \in lo..hi
      OBVIOUS
    <2>1. x \in Nat /\ x \div BatchSize = s
      BY RequestsFinite, Zenon DEF Batch, Command
    <2>2. lo <= x /\ x <= hi
      BY <1>2, <2>1
    <2> HIDE DEF lo, hi
    <2> QED  BY <1>1, <2>1, <2>2
  <1>4. IsFiniteSet(lo..hi) /\ Cardinality(lo..hi) = BatchSize
    <2> HIDE DEF lo, hi
    <2> QED  BY <1>1, FS_Interval
  <1>5. QED
    BY <1>3, <1>4, FS_Subset, ZenonT(30)

(***************************************************************************)
(* The number of smaller elements tells the elements of a set apart, so    *)
(* that each of 0..(n - 1) is taken.                                       *)
(***************************************************************************)
LEMMA InOrderRank ==
  ASSUME NEW T \in SUBSET Nat, IsFiniteSet(T), NEW i \in 1..Cardinality(T)
  PROVE  \E x \in T : Cardinality({y \in T : y < x}) = i - 1
  <1> DEFINE n == Cardinality(T)
             below(x) == {y \in T : y < x}
             rank == [x \in T |-> Cardinality(below(x))]
  <1>1. n \in Nat
    BY FS_CardinalityType
  <1>2. ASSUME NEW x \in T
        PROVE  /\ IsFiniteSet(below(x)) /\ rank[x] \in Nat /\ rank[x] < n
    <2>1. below(x) \in SUBSET T /\ below(x) # T
      OBVIOUS
    <2>2. IsFiniteSet(below(x)) /\ Cardinality(below(x)) <= n /\ Cardinality(below(x)) # n
      BY <2>1, FS_Subset
    <2>3. Cardinality(below(x)) \in Nat
      BY <2>2, FS_CardinalityType
    <2>4. QED
      BY <2>2, <2>3, <1>1
  <1>3. ASSUME NEW x \in T, NEW y \in T, x < y
        PROVE  rank[x] # rank[y]
    <2>1. below(x) \in SUBSET below(y) /\ below(x) # below(y)
      <3>1. \A z \in T : z < x => z < y
        BY <1>3
      <3>2. ~(x < x)
        OBVIOUS
      <3>3. QED
        BY <1>3, <3>1, <3>2, Zenon
    <2>2. IsFiniteSet(below(y))
      BY <1>2
    <2>3. Cardinality(below(y)) # Cardinality(below(x))
      BY <2>1, <2>2, FS_Subset
    <2>4. QED
      BY <2>3
  <1>4. \E x \in T : Cardinality(below(x)) = i - 1
    <2> SUFFICES ASSUME \A x \in T : rank[x] # i - 1
                 PROVE  FALSE
      OBVIOUS
    <2> DEFINE U == (0..(n - 1)) \ {i - 1}
    <2>1. IsFiniteSet(0..(n - 1)) /\ Cardinality(0..(n - 1)) = n
      <3>1. n - 1 \in Int /\ ~(0 > n - 1) /\ n - 1 - 0 + 1 = n
        BY <1>1
      <3> HIDE DEF n
      <3>2. QED
        BY <3>1, FS_Interval
    <2>2. IsFiniteSet(U) /\ Cardinality(U) = n - 1
      <3>1. i - 1 \in 0..(n - 1)
        BY <1>1
      <3>2. IsFiniteSet(U) /\ Cardinality(U) = Cardinality(0..(n - 1)) - 1
        <4> DEFINE V == 0..(n - 1)
        <4>1. U = V \ {i - 1} /\ i - 1 \in V /\ IsFiniteSet(V)
          BY <2>1, <3>1
        <4> HIDE DEF U, V
        <4>2. IsFiniteSet(U) /\ Cardinality(U) = Cardinality(V) - 1
          BY <4>1, FS_RemoveElement
        <4>3. QED
          BY <4>2 DEF V
      <3>3. QED
        BY <2>1, <3>2
    <2>3. rank \in [T -> U]
      BY <1>1, <1>2
    <2>4. PICK x \in T, y \in T : x # y /\ rank[x] = rank[y]
      <3>1. Cardinality(U) < Cardinality(T)
        BY <2>2, <1>1
      <3> HIDE DEF U, rank
      <3>2. QED
        BY <2>2, <2>3, <3>1, FS_PigeonHole, Zenon
    <2>5. x < y \/ y < x
      BY <2>4
    <2>6. QED
      BY <2>4, <2>5, <1>3
  <1>5. QED
    BY <1>4, Zenon

(***************************************************************************)
(* InOrder lists elements of the set it is given.                          *)
(***************************************************************************)
LEMMA InOrderType ==
  ASSUME NEW T \in SUBSET Nat, IsFiniteSet(T)
  PROVE  InOrder(T) \in Seq(T)
  <1> DEFINE n == Cardinality(T)
             nth(i) == CHOOSE x \in T : Cardinality({y \in T : y < x}) = i - 1
  <1>1. n \in Nat
    BY FS_CardinalityType
  <1>2. \A i \in 1..n : nth(i) \in T
    BY InOrderRank, Zenon
  <1>3. InOrder(T) = [i \in 1..n |-> nth(i)]
    BY DEF InOrder
  <1> HIDE DEF nth, n
  <1>4. QED
    BY <1>1, <1>2, <1>3

-----------------------------------------------------------------------------
(***************************************************************************)
(* Connections whose messages are for their receiver have their type.      *)
(***************************************************************************)
LEMMA OutTypeIf ==
  ASSUME route' = route, DOMAIN out' = Replicas,
         \A q \in Replicas : out'[q] = [d \in Receivers |-> out'[q][d]],
         out' = [q \in Replicas |-> out'[q]],
         \A q \in Replicas, d \in Receivers : out'[q][d] \in Seq(MayGo(d))
  PROVE  OutType'
  <1>1. \A d \in Receivers : MayGo(d)' = MayGo(d) /\ MayGo(d) \subseteq Requests
    BY MayGoUnchanged, RequestsInt, Zenon
  <1>2. \A q \in Replicas, d \in Receivers : out'[q][d] \in Seq(Requests)
    BY <1>1, Wider
  <1>3. out' \in [Replicas -> [Receivers -> Seq(Requests)]]
    BY <1>2
  <1>4. QED
    BY <1>1, <1>3 DEF OutType

LEMMA SendType ==
  ASSUME TypeInv, NEW q \in Replicas, NEW S, Send(q, S), route' = route
  PROVE  OutType'
  <1>1. PICK to \in [Batch(S) -> Receivers], sent \in SUBSET Batch(S) :
          /\ \A x \in Batch(S) : to[x] \in To(x)
          /\ out' = [out EXCEPT ![q] = [d \in Receivers |->
                    IF d \in connected THEN out[q][d] \o For(d, to, sent) ELSE out[q][d]]]
    BY Zenon DEF Send
  <1>2. ASSUME NEW d \in Receivers
        PROVE  For(d, to, sent) \in Seq(MayGo(d))
    <2> DEFINE T == {x \in sent : to[x] = d}
    <2>1. T \in SUBSET MayGo(d) /\ T \in SUBSET Requests
      BY <1>1, Zenon DEF MayGo, Batch
    <2>2. T \in SUBSET Nat /\ IsFiniteSet(T)
      BY <2>1, RequestsFinite, FS_Subset, Zenon
    <2>3. InOrder(T) \in Seq(T)
      BY <2>2, InOrderType
    <2> HIDE DEF T
    <2>4. InOrder(T) \in Seq(MayGo(d))
      BY <2>1, <2>3, Wider
    <2>5. QED
      BY <2>4 DEF For, T
  <1>3. ASSUME NEW d \in Receivers
        PROVE  out[q][d] \o For(d, to, sent) \in Seq(MayGo(d))
    BY <1>2, <1>3 DEF TypeInv, OutType
  <1>4. \A p \in Replicas, d \in Receivers : out'[p][d] \in Seq(MayGo(d))
    BY <1>1, <1>3 DEF TypeInv, OutType
  <1>5. /\ \A p \in Replicas : out'[p] = [d \in Receivers |-> out'[p][d]]
        /\ out' = [p \in Replicas |-> out'[p]] /\ DOMAIN out' = Replicas
    BY <1>1, Zenon DEF TypeInv, OutType
  <1>6. QED
    BY <1>4, <1>5, OutTypeIf

LEMMA RunType ==
  ASSUME SenderType, NEW q \in Replicas, NEW s \in Commands, Run(q, s),
         chain' \in Seq(Commands), chainAcks' = chainAcks
  PROVE  SenderType'
  <1>1. s \in Nat /\ BatchSize \in 0..BatchSize
    BY ForwardingAssumption DEF Commands
  <1>2. QED
    BY <1>1 DEF SenderType, Run

(***************************************************************************)
(* What the step leaves alone keeps its type.                              *)
(***************************************************************************)
LEMMA SenderTypeUnchanged ==
  ASSUME SenderType, UNCHANGED senderVars
  PROVE  SenderType'
  BY Zenon DEF SenderType, senderVars

LEMMA OutTypeUnchanged ==
  ASSUME OutType, UNCHANGED <<route, out>>
  PROVE  OutType'
  BY MayGoUnchanged, Zenon DEF OutType

LEMMA RanTypeUnchanged ==
  ASSUME RanType, UNCHANGED <<route, last_seen_seq_, ran, copied>>
  PROVE  RanType'
  BY MayGoUnchanged, Zenon DEF RanType

LEMMA AckTypeUnchanged ==
  ASSUME AckType, UNCHANGED <<acks, ackSent>>
  PROVE  AckType'
  BY Zenon DEF AckType

(***************************************************************************)
(* Types and destinations are kept by every step.                          *)
(***************************************************************************)
LEMMA TypeStep ==
  ASSUME TypeInv, [Next]_vars
  PROVE  TypeInv'
  <1> USE DEF TypeInv
  <1>0. 1 \in Replicas /\ 2 \in Replicas
    BY DEF Replicas
  <1>1. CASE Submit
    <2> DEFINE s == chain_seq_no_[1] + 1
    <2>1. /\ s \in Commands /\ Run(1, s)
          /\ \/ Send(1, {s}) /\ UNCHANGED chain
             \/ chain' = Append(chain, s) /\ UNCHANGED out
      BY <1>1 DEF Submit
    <2>2. UNCHANGED <<route, chainAcks, receiverVars, acks>>
      BY <1>1 DEF Submit
    <2> HIDE DEF s
    <2>3. chain' \in Seq(Commands)
      <3>1. chain \in Seq(Commands)
        BY DEF SenderType
      <3>2. Append(chain, s) \in Seq(Commands)
        BY <2>1, <3>1, Appended
      <3>3. QED
        BY <2>1, <3>1, <3>2
    <2>4. SenderType'
      BY <1>0, <2>1, <2>2, <2>3, RunType
    <2>5. OutType'
      BY <1>0, <2>1, <2>2, SendType, OutTypeUnchanged
    <2>6. QED
      BY <2>2, <2>4, <2>5, RanTypeUnchanged, AckTypeUnchanged DEF receiverVars
  <1>2. CASE ChainRequest
    <2>1. /\ chain # <<>> /\ chain' = Tail(chain)
          /\ Run(2, Head(chain)) /\ Send(2, {Head(chain)})
          /\ UNCHANGED <<route, chainAcks, receiverVars, acks>>
      BY <1>2 DEF ChainRequest
    <2>2. Head(chain) \in Commands /\ chain' \in Seq(Commands)
      BY <2>1, HeadTail DEF SenderType
    <2>3. SenderType'
      BY <1>0, <2>1, <2>2, RunType
    <2>4. OutType'
      BY <1>0, <2>1, SendType
    <2>5. QED
      BY <2>1, <2>3, <2>4, RanTypeUnchanged, AckTypeUnchanged DEF receiverVars
  <1>3. ASSUME NEW d \in Receivers, NEW x \in Requests, ExternalAck(d, x)
        PROVE  TypeInv'
    <2> DEFINE s == Command(x)
               c == pending_count_[2][s]
               down == IF c > 0 THEN c - 1 ELSE c
    <2>1. s \in Commands
      BY CommandType
    <2>2. /\ pending_count_' = [pending_count_ EXCEPT ![2][s] = down]
          /\ pending_' = [pending_ EXCEPT ![2] = pending_[2] \ {s}] \/ pending_' = pending_
          /\ chainAcks' = Append(chainAcks, s) \/ chainAcks' = chainAcks
          /\ acks' = acks \ {<<d, x>>}
          /\ UNCHANGED <<route, chain_seq_no_, chain, out, receiverVars>>
      BY <1>3 DEF ExternalAck
    <2>3. c \in 0..BatchSize
      BY <1>0, <2>1 DEF SenderType
    <2>4. down \in 0..BatchSize
      BY <2>3, ForwardingAssumption
    <2> HIDE DEF s, c, down
    <2>5. pending_count_' \in [Replicas -> [Commands -> 0..BatchSize]]
      BY <2>2, <2>4, Zenon DEF SenderType
    <2>6. pending_' \in [Replicas -> SUBSET Commands]
      BY <2>2, ZenonT(30) DEF SenderType
    <2>7. chainAcks' \in Seq(Commands)
      <3>1. chainAcks \in Seq(Commands)
        BY DEF SenderType
      <3>2. Append(chainAcks, s) \in Seq(Commands)
        BY <2>1, <3>1, Appended
      <3>3. QED
        BY <2>2, <3>1, <3>2
    <2>8. SenderType'
      BY <2>2, <2>5, <2>6, <2>7, Zenon DEF SenderType
    <2>9. AckType'
      BY <2>2, Zenon DEF AckType, receiverVars
    <2>10. QED
      BY <2>2, <2>8, <2>9, OutTypeUnchanged, RanTypeUnchanged DEF receiverVars
  <1>4. CASE ChainAck
    <2> DEFINE s == Head(chainAcks)
    <2>1. /\ chainAcks # <<>> /\ chainAcks' = Tail(chainAcks)
          /\ pending_' = [pending_ EXCEPT ![1] = pending_[1] \ {s}]
          /\ pending_count_' = [pending_count_ EXCEPT ![1][s] = 0]
          /\ UNCHANGED <<route, chain_seq_no_, chain, out, receiverVars, acks>>
      BY <1>4 DEF ChainAck
    <2>2. chainAcks' \in Seq(Commands)
      BY <2>1, HeadTail DEF SenderType
    <2> HIDE DEF s
    <2>3. pending_' \in [Replicas -> SUBSET Commands]
      BY <2>1, Zenon DEF SenderType
    <2>4. 0 \in 0..BatchSize
      BY ForwardingAssumption
    <2>5. pending_count_' \in [Replicas -> [Commands -> 0..BatchSize]]
      BY <2>1, <2>4, Zenon DEF SenderType
    <2>6. SenderType'
      BY <2>1, <2>2, <2>3, <2>5, Zenon DEF SenderType
    <2>7. QED
      BY <2>1, <2>6, OutTypeUnchanged, RanTypeUnchanged, AckTypeUnchanged DEF receiverVars
  <1>5. ASSUME NEW q \in Replicas, NEW d \in Receivers, AsyncOperation(q, d)
        PROVE  TypeInv'
    <2> DEFINE x == Head(out[q][d])
               rest == Tail(out[q][d])
    <2>1. /\ out[q][d] # <<>>
          /\ out' = [out EXCEPT ![q][d] = rest]
          /\ \/ UNCHANGED <<last_seen_seq_, ran>>
             \/ /\ last_seen_seq_' = [last_seen_seq_ EXCEPT ![d] = x]
                /\ ran' = [ran EXCEPT ![d] = Append(ran[d], x)]
          /\ UNCHANGED <<route, senderVars, copied, acks, ackSent>>
      BY <1>5 DEF AsyncOperation
    <2>2. x \in MayGo(d) /\ rest \in Seq(MayGo(d))
      <3>1. out[q][d] \in Seq(MayGo(d))
        BY DEF OutType
      <3>2. QED
        BY <2>1, <3>1, HeadTail
    <2> HIDE DEF x, rest
    <2>3. x \in Requests /\ x \in Int
      <3>1. x \in Requests
        BY <2>2, RequestsInt, Zenon
      <3>2. QED
        BY <3>1, RequestsFinite
    <2>4. /\ \A p \in Replicas, e \in Receivers : out'[p][e] \in Seq(MayGo(e))
          /\ \A p \in Replicas : out'[p] = [e \in Receivers |-> out'[p][e]]
          /\ out' = [p \in Replicas |-> out'[p]] /\ DOMAIN out' = Replicas
      BY <2>1, <2>2, Zenon DEF OutType
    <2>5. OutType'
      BY <2>1, <2>4, OutTypeIf, Zenon
    <2>6. ran[d] \in Seq(Requests) /\ ran[d] \in Seq(MayGo(d))
      BY DEF RanType
    <2>7. /\ Append(ran[d], x) \in Seq(Requests) /\ Append(ran[d], x) \in Seq(MayGo(d))
          /\ Len(Append(ran[d], x)) = Len(ran[d]) + 1
      BY <2>2, <2>3, <2>6, Appended
    <2>8. RanType'
      <3>1. CASE UNCHANGED <<last_seen_seq_, ran>>
        BY <2>1, <3>1, RanTypeUnchanged
      <3>2. CASE /\ last_seen_seq_' = [last_seen_seq_ EXCEPT ![d] = x]
                 /\ ran' = [ran EXCEPT ![d] = Append(ran[d], x)]
        <4>1. last_seen_seq_' \in [Receivers -> Int]
          BY <2>3, <3>2 DEF RanType
        <4>2. ran' \in [Receivers -> Seq(Requests)]
          BY <2>7, <3>2 DEF RanType
        <4>3. \A e \in Receivers : ran'[e] \in Seq(MayGo(e))
          BY <2>7, <3>2 DEF RanType
        <4>4. \A e \in Receivers : copied[e] <= Len(ran'[e])
          <5>1. copied[d] <= Len(ran[d]) + 1
            BY <2>6 DEF RanType
          <5>2. QED
            BY <2>7, <3>2, <5>1 DEF RanType
        <4>5. copied' = copied /\ \A e : MayGo(e)' = MayGo(e)
          BY <2>1, MayGoUnchanged, Zenon
        <4>6. QED
          BY <4>1, <4>2, <4>3, <4>4, <4>5, Zenon DEF RanType
      <3>3. QED
        BY <2>1, <3>1, <3>2
    <2>9. QED
      BY <2>1, <2>5, <2>8, SenderTypeUnchanged, AckTypeUnchanged
  <1>6. ASSUME NEW d \in Receivers, Replicate(d)
        PROVE  TypeInv'
    <2>1. /\ copied[d] < Len(ran[d]) /\ copied' = [copied EXCEPT ![d] = copied[d] + 1]
          /\ UNCHANGED <<route, senderVars, out, last_seen_seq_, ran, acks, ackSent>>
      BY <1>6 DEF Replicate
    <2>2. /\ copied' \in [Receivers -> Nat]
          /\ \A e \in Receivers : copied'[e] <= Len(ran[e])
      BY <2>1, SMTT(20) DEF RanType
    <2>3. RanType'
      BY <2>1, <2>2, MayGoUnchanged, Zenon DEF RanType
    <2>4. QED
      BY <2>1, <2>3, SenderTypeUnchanged, OutTypeUnchanged, AckTypeUnchanged
  <1>7. ASSUME NEW d \in Receivers, NEW x \in Requests, SendAck(d, x)
        PROVE  TypeInv'
    <2>1. /\ acks' = acks \cup {<<d, x>>} /\ ackSent' = ackSent \cup {<<d, x>>}
          /\ UNCHANGED <<route, senderVars, out, last_seen_seq_, ran, copied>>
      BY <1>7 DEF SendAck
    <2>2. AckType'
      <3>1. <<d, x>> \in Receivers \X Requests
        OBVIOUS
      <3>2. QED
        BY <2>1, <3>1, Zenon DEF AckType
    <2>3. QED
      BY <2>1, <2>2, SenderTypeUnchanged, OutTypeUnchanged, RanTypeUnchanged
  <1>8. CASE Crash
    <2>1. PICK kept \in [Receivers -> 0..Cardinality(Requests)] :
            /\ \A d \in Receivers : kept[d] <= Len(out[2][d])
            /\ out' = [out EXCEPT ![2] = [d \in Receivers |-> SubSeq(out[2][d], 1, kept[d])]]
      BY <1>8, Zenon DEF Crash
    <2>2. /\ chain' = <<>>
          /\ UNCHANGED <<route, chain_seq_no_, pending_, pending_count_, chainAcks, receiverVars, acks>>
      BY <1>8 DEF Crash
    <2>3. ASSUME NEW d \in Receivers
          PROVE  SubSeq(out[2][d], 1, kept[d]) \in Seq(MayGo(d))
      <3>1. kept[d] \in Nat /\ kept[d] <= Len(out[2][d])
        BY <2>1, RequestsFinite, FS_CardinalityType
      <3>2. out[2][d] \in Seq(MayGo(d))
        BY <1>0 DEF OutType
      <3>3. QED
        BY <3>1, <3>2, Prefix
    <2>4. /\ \A p \in Replicas, e \in Receivers : out'[p][e] \in Seq(MayGo(e))
          /\ \A p \in Replicas : out'[p] = [e \in Receivers |-> out'[p][e]]
          /\ out' = [p \in Replicas |-> out'[p]] /\ DOMAIN out' = Replicas
      BY <2>1, <2>3, Zenon DEF OutType
    <2>5. OutType'
      BY <2>2, <2>4, OutTypeIf
    <2>6. chain' \in Seq(Commands)
      BY <2>2
    <2>7. SenderType'
      BY <2>2, <2>6, Zenon DEF SenderType
    <2>8. QED
      BY <2>2, <2>5, <2>7, RanTypeUnchanged, AckTypeUnchanged DEF receiverVars
  <1>9. ASSUME NEW d \in Receivers, FailReceiver(d)
        PROVE  TypeInv'
    <2>1. PICK k \in copied[d]..Len(ran[d]) :
            /\ ran' = [ran EXCEPT ![d] = SubSeq(ran[d], 1, k)]
            /\ last_seen_seq_' = [last_seen_seq_ EXCEPT ![d] = LastRun(d, k)]
      BY <1>9, Zenon DEF FailReceiver
    <2>2. /\ out' = [p \in Replicas |-> [out[p] EXCEPT ![d] = <<>>]]
          /\ UNCHANGED <<route, senderVars, copied, acks, ackSent>>
      BY <1>9 DEF FailReceiver
    <2>3. k \in Nat /\ k <= Len(ran[d]) /\ copied[d] <= k
      BY <2>1 DEF RanType
    <2>4. ran[d] \in Seq(Requests) /\ ran[d] \in Seq(MayGo(d))
      BY DEF RanType
    <2>5. /\ SubSeq(ran[d], 1, k) \in Seq(Requests)
          /\ SubSeq(ran[d], 1, k) \in Seq(MayGo(d))
          /\ Len(SubSeq(ran[d], 1, k)) = k
      BY <2>3, <2>4, Prefix
    <2>6. LastRun(d, k) \in Int
      <3>1. k # 0 => ran[d][k] \in Requests
        BY <2>3, <2>4
      <3>2. k # 0 => ran[d][k] \in Int
        BY <3>1, RequestsInt, Zenon
      <3>3. QED
        BY <3>2 DEF LastRun
    <2>7. last_seen_seq_' \in [Receivers -> Int]
      BY <2>1, <2>6 DEF RanType
    <2>8. /\ ran' \in [Receivers -> Seq(Requests)]
          /\ \A e \in Receivers : ran'[e] \in Seq(MayGo(e))
          /\ \A e \in Receivers : copied[e] <= Len(ran'[e])
      BY <2>1, <2>3, <2>5, Zenon DEF RanType
    <2>9. RanType'
      BY <2>2, <2>7, <2>8, MayGoUnchanged, Zenon DEF RanType
    <2>10. <<>> \in Seq(MayGo(d))
      OBVIOUS
    <2>11. /\ \A p \in Replicas, e \in Receivers : out'[p][e] \in Seq(MayGo(e))
           /\ \A p \in Replicas : out'[p] = [e \in Receivers |-> out'[p][e]]
           /\ out' = [p \in Replicas |-> out'[p]] /\ DOMAIN out' = Replicas
      BY <2>2, <2>10, Zenon DEF OutType
    <2>12. OutType'
      BY <2>2, <2>11, OutTypeIf, Zenon
    <2>13. QED
      BY <2>2, <2>9, <2>12, SenderTypeUnchanged, AckTypeUnchanged
  <1>10. CASE SetupChain
    <2>1. /\ chainAcks' = <<>>
          /\ UNCHANGED <<route, chain_seq_no_, pending_, pending_count_, chain, out, receiverVars, acks>>
      BY <1>10 DEF SetupChain
    <2>2. chainAcks' \in Seq(Commands)
      BY <2>1
    <2>3. SenderType'
      BY <2>1, <2>2, Zenon DEF SenderType
    <2>4. QED
      BY <2>1, <2>3, OutTypeUnchanged, RanTypeUnchanged, AckTypeUnchanged DEF receiverVars
  <1>11. CASE ResendPending
    <2>1. PICK q \in Replicas : Send(q, pending_[q])
      BY <1>0, <1>11 DEF ResendPending
    <2>2. UNCHANGED <<route, senderVars, receiverVars, acks>>
      BY <1>11 DEF ResendPending
    <2>3. QED
      BY <2>1, <2>2, SendType, SenderTypeUnchanged, RanTypeUnchanged, AckTypeUnchanged
         DEF receiverVars
  <1>12. CASE FailSender \/ UpdateConnections \/ UNCHANGED vars
    <2>1. UNCHANGED <<route, senderVars, out, receiverVars, acks>>
      BY <1>12 DEF FailSender, UpdateConnections, vars
    <2>2. QED
      BY <2>1, SenderTypeUnchanged, OutTypeUnchanged, RanTypeUnchanged, AckTypeUnchanged
         DEF receiverVars
  <1>13. QED
    BY <1>1, <1>2, <1>3, <1>4, <1>5, <1>6, <1>7, <1>8, <1>9, <1>10, <1>11, <1>12, Zenon
       DEF Next, Deliver

-----------------------------------------------------------------------------
(***************************************************************************)
(* What a step of a receiver does to ran: it is extended by a request      *)
(* above the mark, or cut to a prefix that holds all that was replicated.  *)
(***************************************************************************)
Extends(d) ==
    /\ \E x \in MayGo(d) :
          /\ x > last_seen_seq_[d]
          /\ last_seen_seq_' = [last_seen_seq_ EXCEPT ![d] = x]
          /\ ran' = [ran EXCEPT ![d] = Append(ran[d], x)]
    /\ UNCHANGED copied

Cuts(d) ==
    /\ \E k \in copied[d]..Len(ran[d]) :
          /\ last_seen_seq_' = [last_seen_seq_ EXCEPT ![d] = LastRun(d, k)]
          /\ ran' = [ran EXCEPT ![d] = SubSeq(ran[d], 1, k)]
    /\ UNCHANGED copied

LEMMA RanStep ==
  ASSUME TypeInv, [Next]_vars
  PROVE  \/ UNCHANGED <<last_seen_seq_, ran, copied>>
         \/ \E d \in Receivers : Extends(d) \/ Cuts(d) \/ Replicate(d)
  <1>1. ASSUME NEW q \in Replicas, NEW d \in Receivers, AsyncOperation(q, d)
        PROVE  UNCHANGED <<last_seen_seq_, ran, copied>> \/ Extends(d)
    <2> DEFINE x == Head(out[q][d])
    <2>1. /\ out[q][d] # <<>>
          /\ \/ UNCHANGED <<last_seen_seq_, ran>>
             \/ /\ ~(x <= last_seen_seq_[d])
                /\ last_seen_seq_' = [last_seen_seq_ EXCEPT ![d] = x]
                /\ ran' = [ran EXCEPT ![d] = Append(ran[d], x)]
          /\ UNCHANGED copied
      BY <1>1 DEF AsyncOperation, IsDuplicate
    <2>2. out[q][d] \in Seq(MayGo(d)) /\ last_seen_seq_[d] \in Int
      BY DEF TypeInv, OutType, RanType
    <2>3. x \in MayGo(d)
      BY <2>1, <2>2, HeadTail
    <2> HIDE DEF x
    <2>4. x \in Int
      BY <2>3, RequestsInt, Zenon
    <2>5. ~(x <= last_seen_seq_[d]) => x > last_seen_seq_[d]
      BY <2>2, <2>4
    <2>6. QED
      BY <2>1, <2>3, <2>5, Zenon DEF Extends
  <1>2. ASSUME NEW d \in Receivers, FailReceiver(d)
        PROVE  Cuts(d)
    BY <1>2, Zenon DEF FailReceiver, Cuts
  <1>3. CASE Submit \/ ChainRequest \/ ChainAck \/ \E d \in Receivers, x \in Requests : ExternalAck(d, x)
    BY <1>3, Zenon DEF Submit, ChainRequest, ChainAck, ExternalAck, receiverVars
  <1>4. CASE \E d \in Receivers, x \in Requests : SendAck(d, x)
    BY <1>4 DEF SendAck
  <1>5. CASE \/ FailSender \/ Crash \/ SetupChain \/ UpdateConnections \/ ResendPending
             \/ UNCHANGED vars
    BY <1>5, Zenon DEF FailSender, Crash, SetupChain, UpdateConnections, ResendPending, receiverVars, vars
  <1>6. QED
    BY <1>1, <1>2, <1>3, <1>4, <1>5 DEF Next, Deliver

(***************************************************************************)
(* The mark of a receiver stays the largest request it has run.            *)
(***************************************************************************)
LEMMA MarkStep ==
  ASSUME TypeInv, MarkInv, [Next]_vars
  PROVE  MarkInv'
  <1> DEFINE Ok(r, mark) == /\ \A i, j \in DOMAIN r : i < j => r[i] < r[j]
                            /\ \A i \in DOMAIN r : r[i] <= mark
  <1>1. \A d \in Receivers : Ok(ran[d], last_seen_seq_[d])
    BY DEF MarkInv
  <1>2. CASE UNCHANGED <<last_seen_seq_, ran>>
    BY <1>2, Zenon DEF MarkInv
  <1>3. ASSUME NEW d \in Receivers, NEW r, NEW mark, Ok(r, mark),
               ran' = [ran EXCEPT ![d] = r], last_seen_seq_' = [last_seen_seq_ EXCEPT ![d] = mark]
        PROVE  MarkInv'
    <2>1. \A e \in Receivers : Ok(ran'[e], last_seen_seq_'[e])
      <3> HIDE DEF Ok
      <3> QED  BY <1>1, <1>3 DEF TypeInv, RanType
    <2>2. QED
      BY <2>1 DEF MarkInv
  <1>4. ASSUME NEW d \in Receivers
        PROVE  /\ ran[d] \in Seq(Requests) /\ ran[d] \in Seq(MayGo(d))
               /\ last_seen_seq_[d] \in Int /\ copied[d] \in Nat
               /\ \A i \in 1..Len(ran[d]) : ran[d][i] \in Int
    <2>1. ran[d] \in Seq(Requests) /\ ran[d] \in Seq(MayGo(d))
          /\ last_seen_seq_[d] \in Int /\ copied[d] \in Nat
      BY DEF TypeInv, RanType
    <2>2. \A i \in 1..Len(ran[d]) : ran[d][i] \in Requests
      BY <2>1
    <2>3. QED
      BY <2>1, <2>2, RequestsInt, Zenon
  <1>5. ASSUME NEW d \in Receivers, Extends(d)
        PROVE  MarkInv'
    <2>1. PICK x \in MayGo(d) :
            /\ x > last_seen_seq_[d]
            /\ last_seen_seq_' = [last_seen_seq_ EXCEPT ![d] = x]
            /\ ran' = [ran EXCEPT ![d] = Append(ran[d], x)]
      BY <1>5, Zenon DEF Extends
    <2>2. x \in Int
      BY RequestsInt, Zenon
    <2> DEFINE r == ran[d]
               n == Len(r)
               r2 == Append(r, x)
    <2>3. /\ n \in Nat /\ DOMAIN r = 1..n /\ DOMAIN r2 = 1..(n + 1)
          /\ \A i \in 1..n : r2[i] = r[i] /\ r[i] \in Int
          /\ r2[n + 1] = x
      BY <1>4, Appended
    <2>4. \A i \in 1..n : r[i] < x
      <3>1. \A i \in 1..n : r[i] <= last_seen_seq_[d]
        BY <1>1, <2>3
      <3>2. QED
        BY <1>4, <2>1, <2>2, <2>3, <3>1
    <2>5. \A i, j \in 1..n : i < j => r[i] < r[j]
      BY <1>1, <2>3
    <2> HIDE DEF r, n, r2
    <2>6. Ok(r2, x)
      BY <2>2, <2>3, <2>4, <2>5
    <2>7. QED
      BY <1>3, <2>1, <2>6, Zenon DEF r2, r
  <1>6. ASSUME NEW d \in Receivers, Cuts(d)
        PROVE  MarkInv'
    <2>1. PICK k \in copied[d]..Len(ran[d]) :
            /\ last_seen_seq_' = [last_seen_seq_ EXCEPT ![d] = LastRun(d, k)]
            /\ ran' = [ran EXCEPT ![d] = SubSeq(ran[d], 1, k)]
      BY <1>6, Zenon DEF Cuts
    <2> DEFINE r == ran[d]
               n == Len(r)
               r2 == SubSeq(r, 1, k)
    <2>2. n \in Nat /\ k \in Nat /\ k <= n
      BY <1>4, <2>1
    <2>3. /\ DOMAIN r = 1..n /\ DOMAIN r2 = 1..k
          /\ \A i \in 1..k : r2[i] = r[i]
          /\ \A i \in 1..n : r[i] \in Int
      BY <1>4, <2>2, Prefix
    <2>4. \A i, j \in 1..n : i < j => r[i] < r[j]
      BY <1>1, <2>3
    <2>5. k # 0 => LastRun(d, k) = r[k]
      BY DEF LastRun
    <2> HIDE DEF r, n, r2
    <2>6. \A i \in 1..k : r[i] <= LastRun(d, k)
      BY <2>2, <2>3, <2>4, <2>5
    <2>7. Ok(r2, LastRun(d, k))
      BY <2>2, <2>3, <2>4, <2>6
    <2>8. QED
      BY <1>3, <2>1, <2>7, Zenon DEF r2, r
  <1>7. ASSUME NEW d \in Receivers, Replicate(d)
        PROVE  MarkInv'
    BY <1>7, <1>2 DEF Replicate
  <1>8. QED
    BY <1>2, <1>5, <1>6, <1>7, RanStep

(***************************************************************************)
(* What was acked stays on every replica of its receiver.                  *)
(***************************************************************************)
LEMMA DurableGrows ==
  ASSUME TypeInv, [Next]_vars, NEW e \in Receivers
  PROVE  Durable(e) \subseteq Durable(e)'
  <1>1. /\ ran[e] \in Seq(MayGo(e)) /\ copied[e] \in Nat /\ copied[e] <= Len(ran[e])
        /\ DOMAIN ran = Receivers /\ DOMAIN copied = Receivers
    BY DEF TypeInv, RanType
  <1>2. ASSUME copied[e] <= copied'[e], copied'[e] \in Nat,
               \A i \in 1..copied[e] : ran'[e][i] = ran[e][i]
        PROVE  Durable(e) \subseteq Durable(e)'
    <2>1. \A i \in 1..copied[e] : i \in 1..copied'[e]
      BY <1>1, <1>2, SMTT(30)
    <2>2. QED
      BY <1>2, <2>1, Zenon DEF Durable
  <1>3. CASE UNCHANGED <<ran, copied>>
    BY <1>3, Zenon DEF Durable
  <1>4. ASSUME NEW d \in Receivers, Extends(d)
        PROVE  Durable(e) \subseteq Durable(e)'
    <2>1. PICK x \in MayGo(d) : ran' = [ran EXCEPT ![d] = Append(ran[d], x)]
      BY <1>4, Zenon DEF Extends
    <2>2. copied' = copied
      BY <1>4 DEF Extends
    <2>3. d = e => \A i \in 1..Len(ran[e]) : Append(ran[e], x)[i] = ran[e][i]
      BY <1>1, Appended
    <2>4. \A i \in 1..copied[e] : i \in 1..Len(ran[e])
      BY <1>1
    <2>5. \A i \in 1..copied[e] : ran'[e][i] = ran[e][i]
      BY <1>1, <2>1, <2>3, <2>4
    <2>6. copied[e] <= copied'[e] /\ copied'[e] \in Nat
      BY <1>1, <2>2
    <2>7. QED
      BY <1>2, <2>5, <2>6
  <1>5. ASSUME NEW d \in Receivers, Cuts(d)
        PROVE  Durable(e) \subseteq Durable(e)'
    <2>1. PICK k \in copied[d]..Len(ran[d]) : ran' = [ran EXCEPT ![d] = SubSeq(ran[d], 1, k)]
      BY <1>5, Zenon DEF Cuts
    <2>2. copied' = copied
      BY <1>5 DEF Cuts
    <2>3. d = e => k \in Nat /\ k <= Len(ran[e]) /\ \A i \in 1..copied[e] : i \in 1..k
      BY <1>1, <2>1
    <2>4. d = e => \A i \in 1..copied[e] : SubSeq(ran[e], 1, k)[i] = ran[e][i]
      BY <1>1, <2>3, Prefix
    <2>5. \A i \in 1..copied[e] : ran'[e][i] = ran[e][i]
      BY <1>1, <2>1, <2>4
    <2>6. copied[e] <= copied'[e] /\ copied'[e] \in Nat
      BY <1>1, <2>2
    <2>7. QED
      BY <1>2, <2>5, <2>6
  <1>6. ASSUME NEW d \in Receivers, Replicate(d)
        PROVE  Durable(e) \subseteq Durable(e)'
    <2>1. ran' = ran /\ copied' = [copied EXCEPT ![d] = copied[d] + 1]
      BY <1>6 DEF Replicate
    <2>2. copied[e] <= copied'[e] /\ copied'[e] \in Nat
      BY <1>1, <2>1
    <2>3. QED
      BY <1>2, <2>1, <2>2
  <1>7. QED
    BY <1>3, <1>4, <1>5, <1>6, RanStep

LEMMA AckStep ==
  ASSUME TypeInv, AckInv, [Next]_vars
  PROVE  AckInv' /\ ackSent \subseteq ackSent'
  <1>1. ASSUME NEW d \in Receivers, NEW x \in Requests, <<d, x>> \in ackSent
        PROVE  x \in Durable(d)'
    BY <1>1, DurableGrows DEF AckInv
  <1>2. CASE UNCHANGED ackSent
    BY <1>1, <1>2 DEF AckInv
  <1>3. ASSUME NEW d \in Receivers, NEW x \in Requests, SendAck(d, x)
        PROVE  AckInv' /\ ackSent \subseteq ackSent'
    <2>1. x \in Durable(d) /\ ackSent' = ackSent \cup {<<d, x>>}
      BY <1>3 DEF SendAck
    <2>2. x \in Durable(d)'
      BY <2>1, DurableGrows
    <2>3. ASSUME NEW e \in Receivers, NEW y \in Requests, <<e, y>> \in ackSent'
          PROVE  y \in Durable(e)'
      <3>1. <<e, y>> \in ackSent \/ (e = d /\ y = x)
        BY <2>1, <2>3
      <3>2. QED
        BY <1>1, <2>2, <3>1
    <2>4. QED
      BY <2>1, <2>3, Zenon DEF AckInv
  <1>4. CASE ~(\E d \in Receivers, x \in Requests : SendAck(d, x))
    <2>1. UNCHANGED ackSent
      BY <1>4, Zenon DEF Next, Deliver, Submit, ChainRequest, ChainAck, ExternalAck, AsyncOperation,
             Replicate, FailSender, Crash, SetupChain, FailReceiver, UpdateConnections,
             ResendPending, vars, receiverVars
    <2>2. QED
      BY <1>2, <2>1
  <1>5. QED
    BY <1>3, <1>4

-----------------------------------------------------------------------------
(***************************************************************************)
(* The countdown of external_ack                                           *)
(***************************************************************************)
LEMMA ReadFinite ==
  ASSUME TypeInv, NEW s
  PROVE  IsFiniteSet(Read(s)) /\ Cardinality(Read(s)) \in Nat
  <1>1. IsFiniteSet(Receivers \X Requests)
    BY ForwardingAssumption, RequestsFinite, FS_Product
  <1>2. Read(s) \in SUBSET (Receivers \X Requests)
    BY DEF TypeInv, AckType, Read
  <1>3. QED
    BY <1>1, <1>2, FS_Subset, FS_CardinalityType

(***************************************************************************)
(* A command that is acked in full stays so.                               *)
(***************************************************************************)
LEMMA StaysAcked ==
  ASSUME ackSent \subseteq ackSent', NEW s, AllAcked(s)
  PROVE  AllAcked(s)'
  <1>1. Batch({s})' = Batch({s})
    BY DEF Batch
  <1>2. QED
    BY <1>1, Zenon DEF AllAcked, AckedOnce

LEMMA CountUnchanged ==
  ASSUME CountInv,
         UNCHANGED <<chain_seq_no_, pending_, pending_count_, chainAcks, acks, ackSent>>
  PROVE  CountInv'
  BY Zenon DEF CountInv, CountDown, ChainAcksDone, ForgottenDone, Read, Batch, AllAcked, AckedOnce

(***************************************************************************)
(* An ack is counted once.                                                 *)
(***************************************************************************)
LEMMA ReadGrows ==
  ASSUME TypeInv, NEW d \in Receivers, NEW x \in Requests, ExternalAck(d, x)
  PROVE  /\ Read(Command(x))' \subseteq ackSent
         /\ \A p \in Read(Command(x))' : p[2] \in Batch({Command(x)})
         /\ IsFiniteSet(Read(Command(x))')
         /\ Cardinality(Read(Command(x))') = Cardinality(Read(Command(x))) + 1
         /\ Cardinality(Read(Command(x))) \in Nat
  <1> DEFINE s == Command(x)
             a == <<d, x>>
  <1>1. a \in acks /\ acks' = acks \ {a} /\ UNCHANGED ackSent /\ a[2] = x
    BY DEF ExternalAck, receiverVars
  <1>2. acks \subseteq ackSent
    BY DEF TypeInv, AckType
  <1>3. x \in Batch({s}) /\ Batch({s})' = Batch({s})
    BY DEF Batch
  <1> HIDE DEF s, a
  <1>4. Read(s)' = Read(s) \cup {a} /\ a \notin Read(s)
    BY <1>1, <1>2, <1>3, Zenon DEF Read
  <1>5. Read(s)' \subseteq ackSent /\ \A p \in Read(s)' : p[2] \in Batch({s})
    BY <1>1, <1>3, Zenon DEF Read
  <1>6. IsFiniteSet(Read(s)) /\ Cardinality(Read(s)) \in Nat
    BY ReadFinite
  <1>7. IsFiniteSet(Read(s)') /\ Cardinality(Read(s)') = Cardinality(Read(s)) + 1
    <2>1. /\ IsFiniteSet(Read(s) \cup {a})
          /\ Cardinality(Read(s) \cup {a}) = Cardinality(Read(s)) + 1
      BY <1>4, <1>6, FS_AddElement
    <2>2. QED
      BY <1>4, <2>1, Zenon
  <1>8. QED
    BY <1>5, <1>6, <1>7, Zenon DEF s

(***************************************************************************)
(* With the ack that brings the count to zero, every request of the        *)
(* command is acked, unless one of them was acked by two receivers.        *)
(***************************************************************************)
LEMMA LastAck ==
  ASSUME TypeInv, CountInv, NEW d \in Receivers, NEW x \in Requests, ExternalAck(d, x),
         pending_count_[2][Command(x)] = 1
  PROVE  AllAcked(Command(x))
  <1> DEFINE s == Command(x)
             B == Batch({s})
             R == Read(s)'
             f == [p \in R |-> p[2]]
  <1>1. s \in Commands
    BY CommandType
  <1>2. R \subseteq ackSent /\ \A p \in R : p[2] \in B
    BY ReadGrows, Zenon
  <1>3. /\ IsFiniteSet(R) /\ Cardinality(R) \in Nat
        /\ Cardinality(R) >= BatchSize /\ BatchSize \in Nat
    <2>1. /\ Cardinality(R) = Cardinality(Read(s)) + 1 /\ Cardinality(Read(s)) \in Nat
          /\ IsFiniteSet(R)
      BY ReadGrows, Zenon
    <2>2. 1 + Cardinality(Read(s)) >= BatchSize
      BY <1>1 DEF CountInv, CountDown
    <2>3. QED
      BY <2>1, <2>2, ForwardingAssumption
  <1>4. IsFiniteSet(B) /\ Cardinality(B) <= BatchSize /\ Cardinality(B) \in Nat
    BY <1>1, BatchBound, FS_CardinalityType
  <1>5. \A p \in R : p[1] \in Receivers /\ p = <<p[1], p[2]>>
    BY <1>2 DEF TypeInv, AckType
  <1> SUFFICES ASSUME AckedOnce(s)
               PROVE  \A y \in B : \E e \in Receivers : <<e, y>> \in ackSent
    BY DEF AllAcked
  <1> HIDE DEF R
  <1>6. ASSUME NEW p \in R, NEW r \in R, p[2] = r[2]
        PROVE  p = r
    <2>1. p[1] = r[1]
      BY <1>2, <1>5, <1>6 DEF AckedOnce
    <2>2. QED
      BY <1>5, <1>6, <2>1
  <1> HIDE DEF B
  <1>7. f \in Injection(R, B)
    <2>1. f \in [R -> B]
      BY <1>2
    <2>2. IsInjective(f)
      BY <1>6 DEF IsInjective
    <2>3. QED
      BY <2>1, <2>2 DEF Injection
  <1> HIDE DEF f
  <1>8. Cardinality(R) <= Cardinality(B) /\ (Cardinality(R) = Cardinality(B) <=> f \in Surjection(R, B))
    BY <1>4, <1>7, FS_Injection
  <1>9. f \in Surjection(R, B)
    BY <1>3, <1>4, <1>8
  <1>10. \A y \in B : \E p \in R : p[2] = y
    BY <1>9 DEF Surjection, f
  <1>11. QED
    BY <1>2, <1>5, <1>10, Zenon

(***************************************************************************)
(* external_ack keeps the countdown in step with the acks.                 *)
(***************************************************************************)
LEMMA ExternalAckStep ==
  ASSUME TypeInv, CountInv, NEW d \in Receivers, NEW x \in Requests, ExternalAck(d, x)
  PROVE  CountInv'
  <1> DEFINE s == Command(x)
             c == pending_count_[2][s]
             down == IF c > 0 THEN c - 1 ELSE c
  <1>1. s \in Commands
    BY CommandType
  <1>2. /\ acks' = acks \ {<<d, x>>}
        /\ pending_count_' = [pending_count_ EXCEPT ![2][s] = down]
        /\ \/ pending_' = pending_
           \/ pending_' = [pending_ EXCEPT ![2] = pending_[2] \ {s}]
        /\ \/ chainAcks' = chainAcks
           \/ c = 1 /\ chainAcks' = Append(chainAcks, s)
        /\ UNCHANGED <<chain_seq_no_, ackSent>>
    BY Zenon DEF ExternalAck, receiverVars
  <1>3. /\ acks \subseteq ackSent /\ c \in Nat /\ chainAcks \in Seq(Commands)
        /\ DOMAIN pending_count_ = Replicas /\ 1 \in Replicas /\ 2 \in Replicas
        /\ DOMAIN pending_count_[2] = Commands /\ DOMAIN pending_ = Replicas
    BY <1>1 DEF TypeInv, SenderType, AckType, Replicas
  <1>4. c = 1 => AllAcked(s)
    BY LastAck
  <1>5. ASSUME NEW t \in Commands, t # s
        PROVE  Read(t)' = Read(t)
    <2>1. <<d, x>>[2] \notin Batch({t})
      BY <1>5 DEF Batch
    <2>2. Batch({t})' = Batch({t})
      BY DEF Batch
    <2> HIDE DEF s
    <2>3. QED
      BY <1>2, <2>1, <2>2, Zenon DEF Read
  <1> HIDE DEF s
  <1>6. Cardinality(Read(s)') = Cardinality(Read(s)) + 1 /\ Cardinality(Read(s)) \in Nat
    BY ReadGrows, Zenon DEF s
  <1>7. c > 0 => c + Cardinality(Read(s)) >= BatchSize
    BY <1>1 DEF CountInv, CountDown
  <1>8. CountDown'
    <2>1. ASSUME NEW t \in Commands, t # s, pending_count_'[2][t] > 0
          PROVE  pending_count_'[2][t] + Cardinality(Read(t)') >= BatchSize
      <3>1. pending_count_'[2][t] = pending_count_[2][t]
        BY <1>2, <1>3, <2>1
      <3>2. QED
        BY <1>5, <2>1, <3>1 DEF CountInv, CountDown
    <2>2. pending_count_'[2][s] = down
      BY <1>1, <1>2, <1>3
    <2>3. BatchSize \in Nat
      BY ForwardingAssumption
    <2> HIDE DEF c
    <2>4. down > 0 => down + Cardinality(Read(s)') >= BatchSize
      BY <1>3, <1>6, <1>7, <2>3
    <2> HIDE DEF down
    <2>5. QED
      BY <2>1, <2>2, <2>4 DEF CountDown
  <1>9. ChainAcksDone'
    <2> SUFFICES ASSUME NEW i \in DOMAIN chainAcks'
                 PROVE  AllAcked(chainAcks'[i])
      BY <1>2, StaysAcked DEF ChainAcksDone
    <2>1. \/ i \in DOMAIN chainAcks /\ chainAcks'[i] = chainAcks[i]
          \/ c = 1 /\ chainAcks'[i] = s
      <3>1. CASE chainAcks' = chainAcks
        BY <3>1
      <3>2. CASE c = 1 /\ chainAcks' = Append(chainAcks, s)
        <4> HIDE DEF c
        <4>1. /\ Len(chainAcks') = Len(chainAcks) + 1 /\ Len(chainAcks) \in Nat
              /\ \A j \in 1..Len(chainAcks) : chainAcks'[j] = chainAcks[j]
              /\ chainAcks'[Len(chainAcks) + 1] = s
              /\ DOMAIN chainAcks = 1..Len(chainAcks) /\ DOMAIN chainAcks' = 1..Len(chainAcks')
          BY <1>1, <1>3, <3>2, Appended
        <4>2. QED
          BY <3>2, <4>1
      <3>3. QED
        BY <1>2, <3>1, <3>2
    <2>2. QED
      BY <1>4, <2>1 DEF CountInv, ChainAcksDone
  <1>10. ForgottenDone'
    <2>1. pending_'[1] = pending_[1] /\ chain_seq_no_'[1] = chain_seq_no_[1]
      BY <1>2, <1>3
    <2>2. QED
      BY <1>2, <2>1, StaysAcked, Zenon DEF CountInv, ForgottenDone
  <1>11. QED
    BY <1>8, <1>9, <1>10 DEF CountInv

(***************************************************************************)
(* The countdown, the chain_acks and pending_ stay in step.                *)
(***************************************************************************)
LEMMA CountStep ==
  ASSUME TypeInv, CountInv, [Next]_vars
  PROVE  CountInv'
  <1>0. /\ 1 \in Replicas /\ 2 \in Replicas
        /\ DOMAIN pending_count_ = Replicas /\ DOMAIN pending_ = Replicas
        /\ DOMAIN chain_seq_no_ = Replicas /\ chain_seq_no_[1] \in Nat
        /\ DOMAIN pending_count_[2] = Commands /\ chainAcks \in Seq(Commands)
        /\ BatchSize \in Nat
    BY ForwardingAssumption DEF TypeInv, SenderType, Replicas
  <1>1. CASE Submit
    <2> DEFINE s == chain_seq_no_[1] + 1
    <2>1. /\ chain_seq_no_' = [chain_seq_no_ EXCEPT ![1] = s]
          /\ pending_' = [pending_ EXCEPT ![1] = pending_[1] \cup {s}]
          /\ pending_count_' = [pending_count_ EXCEPT ![1][s] = BatchSize]
          /\ UNCHANGED <<chainAcks, acks, ackSent>>
      BY <1>1 DEF Submit, Run, receiverVars
    <2>2. /\ pending_count_'[2] = pending_count_[2]
          /\ pending_'[1] = pending_[1] \cup {s} /\ chain_seq_no_'[1] = s
      BY <1>0, <2>1
    <2>3. CountDown' /\ ChainAcksDone'
      BY <2>1, <2>2, StaysAcked, Zenon DEF CountInv, CountDown, ChainAcksDone, Read, Batch
    <2>4. \A t \in 1..s : t # s => t \in 1..chain_seq_no_[1]
      BY <1>0
    <2> HIDE DEF s
    <2>5. ForgottenDone'
      BY <2>1, <2>2, <2>4, StaysAcked, Zenon DEF CountInv, ForgottenDone
    <2>6. QED
      BY <2>3, <2>5 DEF CountInv
  <1>2. CASE ChainRequest
    <2> DEFINE s == Head(chain)
    <2>1. /\ chain_seq_no_' = [chain_seq_no_ EXCEPT ![2] = s]
          /\ pending_' = [pending_ EXCEPT ![2] = pending_[2] \cup {s}]
          /\ pending_count_' = [pending_count_ EXCEPT ![2][s] = BatchSize]
          /\ UNCHANGED <<chainAcks, acks, ackSent>>
      BY <1>2 DEF ChainRequest, Run, receiverVars
    <2>2. /\ pending_'[1] = pending_[1] /\ chain_seq_no_'[1] = chain_seq_no_[1]
          /\ \A t \in Commands : pending_count_'[2][t] = IF t = s THEN BatchSize ELSE pending_count_[2][t]
      <3> HIDE DEF s
      <3> QED  BY <1>0, <2>1
    <2>3. ChainAcksDone' /\ ForgottenDone'
      BY <2>1, <2>2, StaysAcked, Zenon DEF CountInv, ChainAcksDone, ForgottenDone
    <2>4. \A t \in Commands : Read(t)' = Read(t) /\ Cardinality(Read(t)) \in Nat
      BY <2>1, ReadFinite DEF Read, Batch
    <2> HIDE DEF s
    <2>5. ASSUME NEW t \in Commands, pending_count_'[2][t] > 0
          PROVE  pending_count_'[2][t] + Cardinality(Read(t)') >= BatchSize
      <3>1. CASE t = s
        BY <1>0, <2>2, <2>4, <3>1
      <3>2. CASE t # s
        BY <2>2, <2>4, <2>5, <3>2, Zenon DEF CountInv, CountDown
      <3>3. QED
        BY <3>1, <3>2
    <2>6. QED
      BY <2>3, <2>5, Zenon DEF CountInv, CountDown
  <1>3. ASSUME NEW d \in Receivers, NEW x \in Requests, ExternalAck(d, x)
        PROVE  CountInv'
    BY <1>3, ExternalAckStep
  <1>4. CASE ChainAck
    <2> DEFINE s == Head(chainAcks)
    <2>1. /\ chainAcks # <<>> /\ chainAcks' = Tail(chainAcks)
          /\ pending_' = [pending_ EXCEPT ![1] = pending_[1] \ {s}]
          /\ pending_count_' = [pending_count_ EXCEPT ![1][s] = 0]
          /\ UNCHANGED <<chain_seq_no_, acks, ackSent>>
      BY <1>4 DEF ChainAck, receiverVars
    <2>2. /\ 1 \in DOMAIN chainAcks /\ s = chainAcks[1]
          /\ \A i \in DOMAIN chainAcks' : i + 1 \in DOMAIN chainAcks /\ chainAcks'[i] = chainAcks[i + 1]
      BY <1>0, <2>1
    <2>3. AllAcked(s)
      BY <2>2 DEF CountInv, ChainAcksDone
    <2> HIDE DEF s
    <2>4. pending_count_'[2] = pending_count_[2] /\ pending_'[1] = pending_[1] \ {s}
      BY <1>0, <2>1
    <2>5. CountDown'
      BY <2>1, <2>4, Zenon DEF CountInv, CountDown, Read, Batch
    <2>6. ForgottenDone'
      BY <2>1, <2>3, <2>4, StaysAcked, Zenon DEF CountInv, ForgottenDone
    <2>7. ChainAcksDone'
      BY <2>1, <2>2, StaysAcked DEF CountInv, ChainAcksDone
    <2>8. QED
      BY <2>5, <2>6, <2>7 DEF CountInv
  <1>5. ASSUME NEW d \in Receivers, NEW x \in Requests, SendAck(d, x)
        PROVE  CountInv'
    <2>1. /\ acks' = acks \cup {<<d, x>>} /\ ackSent' = ackSent \cup {<<d, x>>}
          /\ <<d, x>> \notin ackSent
          /\ UNCHANGED <<chain_seq_no_, pending_, pending_count_, chainAcks>>
      BY <1>5 DEF SendAck, senderVars
    <2>2. acks \subseteq ackSent
      BY DEF TypeInv, AckType
    <2>3. \A t : Read(t)' = Read(t)
      BY <2>1, <2>2, Zenon DEF Read, Batch
    <2>4. CountDown'
      BY <2>1, <2>3, Zenon DEF CountInv, CountDown
    <2>5. ChainAcksDone' /\ ForgottenDone'
      BY <2>1, StaysAcked, Zenon DEF CountInv, ChainAcksDone, ForgottenDone
    <2>6. QED
      BY <2>4, <2>5 DEF CountInv
  <1>6. CASE SetupChain
    <2>1. /\ chainAcks' = <<>>
          /\ UNCHANGED <<chain_seq_no_, pending_, pending_count_, acks, ackSent>>
      BY <1>6 DEF SetupChain, receiverVars
    <2>2. CountDown' /\ ForgottenDone'
      BY <2>1, StaysAcked, Zenon DEF CountInv, CountDown, ForgottenDone, Read, Batch
    <2>3. ChainAcksDone'
      BY <2>1 DEF ChainAcksDone
    <2>4. QED
      BY <2>2, <2>3 DEF CountInv
  <1>7. CASE \/ \E q \in Replicas, d \in Receivers : AsyncOperation(q, d)
             \/ \E d \in Receivers : Replicate(d) \/ FailReceiver(d)
             \/ FailSender \/ Crash \/ UpdateConnections \/ ResendPending \/ UNCHANGED vars
    <2>1. UNCHANGED <<chain_seq_no_, pending_, pending_count_, chainAcks, acks, ackSent>>
      BY <1>7, Zenon DEF AsyncOperation, Replicate, FailReceiver, FailSender, Crash, UpdateConnections,
             ResendPending, vars, senderVars, receiverVars
    <2>2. QED
      BY <2>1, CountUnchanged
  <1>8. QED
    BY <1>1, <1>2, <1>3, <1>4, <1>5, <1>6, <1>7 DEF Next, Deliver

-----------------------------------------------------------------------------
(***************************************************************************)
(* The initial states satisfy the invariant.                               *)
(***************************************************************************)
LEMMA ForwardingInit == Init => IInv
  <1> SUFFICES ASSUME Init
               PROVE  IInv
    OBVIOUS
  <1>1. BatchSize \in Nat
    BY ForwardingAssumption
  <1>2. TypeInv
    <2>1. SenderType
      BY <1>1 DEF Init, SenderType
    <2>2. OutType /\ RanType /\ AckType
      BY DEF Init, OutType, RanType, AckType
    <2>3. QED
      BY <2>1, <2>2, RoutesAssumption DEF Init, TypeInv
  <1>3. MarkInv /\ AckInv
    BY DEF Init, MarkInv, AckInv
  <1>4. CountInv
    BY DEF Init, CountInv, CountDown, ChainAcksDone, ForgottenDone, Replicas
  <1>5. QED
    BY <1>2, <1>3, <1>4 DEF IInv

LEMMA ForwardingStep == IInv /\ [Next]_vars => IInv'
  BY TypeStep, MarkStep, AckStep, CountStep DEF IInv

(***************************************************************************)
(* In every reachable state the state of the chain and of the receivers is *)
(* of its type, a mark is above what was run, and the acks are counted     *)
(* right, whatever fails.                                                  *)
(***************************************************************************)
THEOREM ForwardingInductive == Spec => []IInv
  BY ForwardingInit, ForwardingStep, PTL DEF Spec

(***************************************************************************)
(* async_operation and the mark it keeps: whatever fails, and whatever is  *)
(* sent again, no receiver runs a request twice.                           *)
(***************************************************************************)
THEOREM ForwardingAtMostOnce == Spec => []AtMostOnce
  <1>1. IInv => AtMostOnce
    <2> SUFFICES ASSUME IInv, NEW d \in Receivers
                 PROVE  IsInjective(ran[d])
      BY DEF AtMostOnce
    <2>1. ran[d] \in Seq(Requests) /\ \A i \in DOMAIN ran[d] : ran[d][i] \in Requests
      BY DEF IInv, TypeInv, RanType
    <2>2. \A i \in DOMAIN ran[d] : ran[d][i] \in Int /\ i \in Int
      <3>1. DOMAIN ran[d] \subseteq Int
        BY <2>1
      <3>2. QED
        BY <2>1, <3>1, RequestsInt, Zenon
    <2>3. \A i, j \in DOMAIN ran[d] : i < j => ran[d][i] < ran[d][j]
      BY DEF IInv, MarkInv
    <2>4. QED
      BY <2>2, <2>3 DEF IsInjective
  <1>2. QED
    BY ForwardingInductive, <1>1, PTL

(***************************************************************************)
(* What a receiver has run may go to it.                                   *)
(***************************************************************************)
LEMMA AckedRan ==
  ASSUME IInv, NEW d \in Receivers, NEW x \in Requests, <<d, x>> \in ackSent
  PROVE  x \in Durable(d) /\ x \in Range(ran[d]) /\ d \in To(x)
  <1>1. x \in Durable(d)
    BY DEF IInv, AckInv
  <1>2. PICK i \in 1..copied[d] : x = ran[d][i]
    BY <1>1, Zenon DEF Durable
  <1>3. ran[d] \in Seq(MayGo(d)) /\ copied[d] \in Nat /\ copied[d] <= Len(ran[d])
    BY DEF IInv, TypeInv, RanType
  <1>4. i \in DOMAIN ran[d] /\ ran[d][i] \in MayGo(d)
    BY <1>3
  <1>5. QED
    BY <1>1, <1>2, <1>4 DEF Range, MayGo

(***************************************************************************)
(* external_ack and its countdown: a command the head of the chain has     *)
(* dropped from pending_ is on every replica of its receivers, unless the  *)
(* ack of a resent request for the dummy key was counted twice.            *)
(***************************************************************************)
THEOREM ForwardingAckedIsDurable == Spec => []BatchAckedIsDurable
  <1>1. IInv => BatchAckedIsDurable
    <2> SUFFICES ASSUME IInv, NEW s \in 1..chain_seq_no_[1], s \notin pending_[1]
                 PROVE  \/ \A x \in Batch({s}) : \E d \in To(x) : x \in Durable(d)
                        \/ \E x \in Batch({s}) : AckedTwice(x)
      BY DEF BatchAckedIsDurable
    <2>1. AllAcked(s) /\ Batch({s}) \subseteq Requests
      BY DEF IInv, CountInv, ForgottenDone, Batch
    <2>2. CASE AckedOnce(s)
      <3>1. ASSUME NEW x \in Batch({s})
            PROVE  \E d \in To(x) : x \in Durable(d)
        <4>1. PICK d \in Receivers : <<d, x>> \in ackSent
          BY <2>1, <2>2, Zenon DEF AllAcked
        <4>2. QED
          BY <2>1, <4>1, AckedRan, Zenon
      <3>2. QED
        BY <3>1
    <2>3. CASE ~AckedOnce(s)
      <3>1. PICK x \in Batch({s}), d \in Receivers, e \in Receivers :
              <<d, x>> \in ackSent /\ <<e, x>> \in ackSent /\ d # e
        BY <2>3, Zenon DEF AckedOnce
      <3>2. d \in To(x) /\ e \in To(x)
        BY <2>1, <3>1, AckedRan, Zenon
      <3>3. route[x] = Any
        BY <3>1, <3>2 DEF To
      <3>4. AckedTwice(x)
        BY <3>1, <3>3, Zenon DEF AckedTwice
      <3>5. QED
        BY <3>4
    <2>4. QED
      BY <2>2, <2>3
  <1>2. QED
    BY ForwardingInductive, <1>1, PTL

-----------------------------------------------------------------------------
(***************************************************************************)
(* No request is lost between two layers, for every batch size, number of  *)
(* commands and set of receivers and whichever of the failures happens, as *)
(* long as no command reaches a tail during the repair (QuietRepair).  The *)
(* requests for the dummy key, which have no receiver of their own, are on *)
(* the connections and move the marks with the others.                     *)
(***************************************************************************)

(***************************************************************************)
(* The requests for d that the head of the chain has accepted, and those   *)
(* that d has run                                                          *)
(***************************************************************************)
AcceptedOf(d) == {x \in RequestsOf(d) : Command(x) <= chain_seq_no_[1]}
Ran(d) == Range(ran[d])

(***************************************************************************)
(* On a connection o, what is in A comes before anything larger, unless it *)
(* is in R.                                                                *)
(***************************************************************************)
InLine(o, A, R) ==
    \A i \in DOMAIN o : \A x \in A : x < o[i] => x \in R \/ \E j \in 1..(i - 1) : o[j] = x

(***************************************************************************)
(* Where the repair stands                                                 *)
(***************************************************************************)
ControlInv ==
    /\ 2 \in failed \/ alive = Replicas
    /\ failed = {} => mgr = "idle"
    /\ role1 \in {"head", "singleton"}
    /\ role1 = "singleton" <=> (2 \in failed /\ mgr # "setup_chain")
    /\ mgr = "setup_chain" => 2 \in failed
    /\ mgr = "update_connections" => 2 \notin failed
    /\ mgr # "update_connections" => connected = Receivers

(***************************************************************************)
(* The commands under way to replica 2 are the next ones, and what it has  *)
(* forgotten is acked in full (or a request of it by two receivers).       *)
(***************************************************************************)
ChainOrder ==
    2 \in alive => /\ \A i \in DOMAIN chain : chain[i] = chain_seq_no_[2] + i
                   /\ chain_seq_no_[2] + Len(chain) <= chain_seq_no_[1]
                   /\ role1 = "head" => chain_seq_no_[1] = chain_seq_no_[2] + Len(chain)

OrderInv ==
    /\ \A q \in Replicas : pending_[q] \subseteq 1..chain_seq_no_[q]
    /\ chain_seq_no_[2] <= chain_seq_no_[1]
    /\ ChainOrder
    /\ \A s \in 1..chain_seq_no_[2] : s \notin pending_[2] => AllAcked(s)

(***************************************************************************)
(* Until something is sent again, a request is at no two receivers (under  *)
(* way to them or run by them), and replica 2 has sent whatever is.        *)
(***************************************************************************)
Unresent == failed = {} \/ mgr # "idle"

Placed(d) == Ran(d) \cup Range(out[1][d]) \cup Range(out[2][d])

PlaceInv ==
    Unresent => /\ \A d \in Receivers : \A x \in Placed(d) : Command(x) <= chain_seq_no_[2]
                /\ \A d, e \in Receivers : d # e => Placed(d) \cap Placed(e) = {}

(***************************************************************************)
(* A mark passes over nothing that was accepted; no request overtakes an   *)
(* earlier one on a connection; and a request that was not run is on a     *)
(* connection or on its way there, except while it waits to be sent again. *)
(***************************************************************************)
MarkBelow(d) ==
    /\ \A x \in RequestsOf(d) : Command(x) > chain_seq_no_[1] => x > last_seen_seq_[d]
    /\ \A x \in AcceptedOf(d) : x <= last_seen_seq_[d] => x \in Ran(d)

OutAccepted(d) ==
    \A q \in Replicas : \A i \in DOMAIN out[q][d] : Command(out[q][d][i]) <= chain_seq_no_[1]

OutInLine(d) == \A q \in Replicas : InLine(out[q][d], AcceptedOf(d), Ran(d))

OnTheWay(d) ==
    /\ (2 \in alive /\ (2 \in failed \/ mgr = "idle")) =>
          \A x \in AcceptedOf(d) \ Ran(d) : Command(x) > chain_seq_no_[2] \/ x \in Range(out[2][d])
    /\ (2 \in failed /\ mgr = "idle") => AcceptedOf(d) \ Ran(d) \subseteq Range(out[1][d])

DeliverInv ==
    \A d \in Receivers : MarkBelow(d) /\ OutAccepted(d) /\ OutInLine(d) /\ OnTheWay(d)

-----------------------------------------------------------------------------
(***************************************************************************)
(* Commands are numbered in the order of their requests.                   *)
(***************************************************************************)
LEMMA CommandMonotone ==
  ASSUME NEW x \in Requests, NEW y \in Requests, x <= y
  PROVE  Command(x) <= Command(y)
  <1> DEFINE p == x \div BatchSize
             q == y \div BatchSize
  <1>1. BatchSize \in Nat \ {0} /\ x \in Nat /\ y \in Nat
    BY ForwardingAssumption, RequestsFinite
  <1>2. /\ p \in Nat /\ q \in Nat
        /\ BatchSize * p <= x /\ y < BatchSize * q + BatchSize
    <2>1. /\ p \in Nat /\ x = BatchSize * p + (x % BatchSize) /\ x % BatchSize \in 0..(BatchSize - 1)
          /\ q \in Nat /\ y = BatchSize * q + (y % BatchSize) /\ y % BatchSize \in 0..(BatchSize - 1)
      BY <1>1
    <2> HIDE DEF p, q
    <2>2. QED
      BY <1>1, <2>1
  <1> HIDE DEF p, q
  <1>3. ~(p >= q + 1)
    <2> SUFFICES ASSUME p >= q + 1
                 PROVE  FALSE
      OBVIOUS
    <2>1. BatchSize * p >= BatchSize * (q + 1)
      BY <1>1, <1>2
    <2>2. BatchSize * (q + 1) = BatchSize * q + BatchSize
      BY <1>1, <1>2
    <2>3. QED
      BY <1>1, <1>2, <2>1, <2>2
  <1>4. QED
    BY <1>2, <1>3 DEF Command, p, q

(***************************************************************************)
(* InOrder lists every element of its set, and a smaller one earlier.      *)
(***************************************************************************)
LEMMA InOrderComplete ==
  ASSUME NEW T \in SUBSET Nat, IsFiniteSet(T)
  PROVE  /\ \A x \in T : \E i \in DOMAIN InOrder(T) : InOrder(T)[i] = x
         /\ \A i \in DOMAIN InOrder(T) : \A x \in T :
               x < InOrder(T)[i] => \E j \in 1..(i - 1) : InOrder(T)[j] = x
  <1> DEFINE n == Cardinality(T)
             below(x) == {y \in T : y < x}
             rank(x) == Cardinality(below(x))
             o == InOrder(T)
  <1>1. n \in Nat
    BY FS_CardinalityType
  <1>2. ASSUME NEW x \in T
        PROVE  IsFiniteSet(below(x)) /\ rank(x) \in Nat /\ rank(x) < n
    <2>1. below(x) \in SUBSET T /\ below(x) # T
      OBVIOUS
    <2>2. IsFiniteSet(below(x)) /\ Cardinality(below(x)) <= n /\ Cardinality(below(x)) # n
      BY <2>1, FS_Subset
    <2>3. Cardinality(below(x)) \in Nat
      BY <2>2, FS_CardinalityType
    <2>4. QED
      BY <2>2, <2>3, <1>1
  <1>3. ASSUME NEW x \in T, NEW y \in T, x < y
        PROVE  rank(x) < rank(y)
    <2>1. below(x) \in SUBSET below(y) /\ below(x) # below(y)
      <3>1. \A z \in T : z < x => z < y
        BY <1>3
      <3>2. ~(x < x)
        OBVIOUS
      <3>3. QED
        BY <1>3, <3>1, <3>2, Zenon
    <2>2. IsFiniteSet(below(y)) /\ rank(x) \in Nat /\ rank(y) \in Nat
      BY <1>2
    <2>3. rank(x) <= rank(y) /\ rank(x) # rank(y)
      BY <2>1, <2>2, FS_Subset
    <2> HIDE DEF rank
    <2>4. QED
      BY <2>2, <2>3
  <1> HIDE DEF n
  <1> DEFINE nth(k) == CHOOSE x \in T : rank(x) = k
  <1>4. o = [i \in 1..n |-> nth(i - 1)]
    BY DEF InOrder, n
  <1> HIDE DEF rank, below, o
  <1>5. ASSUME NEW x \in T
        PROVE  rank(x) + 1 \in 1..n /\ o[rank(x) + 1] = x
    <2>1. rank(x) + 1 \in 1..n
      BY <1>1, <1>2
    <2>2. \A y \in T : rank(y) = rank(x) => y = x
      <3>1. ASSUME NEW y \in T, rank(y) = rank(x)
            PROVE  ~(x < y) /\ ~(y < x)
        BY <1>2, <1>3, <3>1
      <3>2. QED
        BY <3>1
    <2>3. ASSUME NEW i \in 1..n, i - 1 = rank(x)
          PROVE  o[i] = x
      <3>1. nth(i - 1) = x
        BY <2>2, <2>3, Zenon
      <3> HIDE DEF nth
      <3>2. QED
        BY <1>4, <3>1
    <2>4. PICK i \in 1..n : i = rank(x) + 1
      BY <2>1
    <2>5. i - 1 = rank(x)
      <3>1. rank(x) \in Nat
        BY <1>2
      <3>2. QED
        BY <2>4, <3>1
    <2>6. o[i] = x
      BY <2>3, <2>5
    <2>7. QED
      BY <2>4, <2>6
  <1>6. DOMAIN o = 1..n
    BY <1>4
  <1>7. ASSUME NEW i \in 1..n
        PROVE  o[i] \in T /\ rank(o[i]) = i - 1
    <2>1. \E y \in T : rank(y) = i - 1
      BY InOrderRank DEF n, rank, below
    <2>2. nth(i - 1) \in T /\ rank(nth(i - 1)) = i - 1
      BY <2>1, Zenon
    <2> HIDE DEF nth
    <2>3. QED
      BY <1>4, <2>2
  <1>8. ASSUME NEW i \in 1..n, NEW x \in T, x < o[i]
        PROVE  \E j \in 1..(i - 1) : o[j] = x
    <2>1. rank(x) < rank(o[i])
      BY <1>3, <1>7, <1>8, Zenon
    <2>2. rank(x) + 1 \in 1..(i - 1)
      BY <1>1, <1>2, <1>7, <2>1
    <2>3. QED
      BY <1>5, <2>2
  <1>9. QED
    BY <1>5, <1>6, <1>8 DEF o

(***************************************************************************)
(* What reading, cutting and writing a connection do to InLine             *)
(***************************************************************************)
LEMMA InLineMore ==
  ASSUME NEW o, NEW A, NEW B, NEW R, NEW S, InLine(o, A, R), R \subseteq S,
         \A x \in B \ A : \A i \in DOMAIN o : ~(x < o[i])
  PROVE  InLine(o, B, S)
  BY Zenon DEF InLine

LEMMA InLineTail ==
  ASSUME NEW o \in Seq(Int), o # <<>>, NEW A, NEW R, NEW S, InLine(o, A, R),
         R \subseteq S, Head(o) \in A => Head(o) \in S
  PROVE  /\ InLine(Tail(o), A, S)
         /\ Range(o) \subseteq {Head(o)} \cup Range(Tail(o))
         /\ \A x \in A : x < Head(o) => x \in R
  <1> DEFINE t == Tail(o)
             n == Len(o)
  <1>1. /\ n \in Nat \ {0} /\ DOMAIN o = 1..n /\ DOMAIN t = 1..(n - 1) /\ o[1] = Head(o)
        /\ \A i \in 1..(n - 1) : t[i] = o[i + 1]
    OBVIOUS
  <1> HIDE DEF t, n
  <1>2. ASSUME NEW i \in DOMAIN t, NEW x \in A, x < t[i]
        PROVE  x \in S \/ \E j \in 1..(i - 1) : t[j] = x
    <2>1. i \in Nat /\ i + 1 \in DOMAIN o /\ t[i] = o[i + 1]
      BY <1>1
    <2>2. x \in R \/ \E j \in 1..(i + 1 - 1) : o[j] = x
      BY <1>2, <2>1 DEF InLine
    <2>3. ASSUME NEW j \in 1..(i + 1 - 1), o[j] = x, j # 1
          PROVE  j - 1 \in 1..(i - 1) /\ t[j - 1] = x
      <3>1. j - 1 \in 1..(i - 1) /\ j - 1 \in 1..(n - 1) /\ j - 1 + 1 = j
        BY <1>1, <1>2, <2>1, <2>3
      <3>2. QED
        BY <1>1, <2>3, <3>1
    <2>4. QED
      BY <1>1, <2>2, <2>3, Zenon
  <1>3. InLine(t, A, S)
    BY <1>2 DEF InLine
  <1>4. Range(o) \subseteq {Head(o)} \cup Range(t)
    <2> SUFFICES ASSUME NEW i \in 1..n, i # 1
                 PROVE  o[i] \in Range(t)
      BY <1>1 DEF Range
    <2>1. i - 1 \in 1..(n - 1) /\ i - 1 + 1 = i
      BY <1>1
    <2>2. t[i - 1] = o[i]
      BY <1>1, <2>1
    <2>3. QED
      BY <1>1, <2>1, <2>2, Zenon DEF Range
  <1>5. ASSUME NEW x \in A, x < Head(o)
        PROVE  x \in R
    <2>1. 1 \in DOMAIN o /\ ~(\E j \in 1..(1 - 1) : o[j] = x)
      BY <1>1
    <2>2. QED
      BY <1>1, <1>5, <2>1, ZenonT(30) DEF InLine
  <1>6. QED
    BY <1>3, <1>4, <1>5 DEF t

LEMMA InLinePrefix ==
  ASSUME NEW o \in Seq(Int), NEW k \in Nat, k <= Len(o), NEW A, NEW R, InLine(o, A, R)
  PROVE  InLine(SubSeq(o, 1, k), A, R)
  <1> DEFINE p == SubSeq(o, 1, k)
  <1>1. /\ DOMAIN o = 1..Len(o) /\ DOMAIN p = 1..k /\ Len(o) \in Nat
        /\ \A i \in 1..k : p[i] = o[i] /\ i \in DOMAIN o
    BY Prefix
  <1>2. \A i \in 1..k : \A j \in 1..(i - 1) : j \in 1..k
    OBVIOUS
  <1> HIDE DEF p
  <1>3. InLine(p, A, R)
    BY <1>1, <1>2, ZenonT(30) DEF InLine
  <1>4. QED
    BY <1>3 DEF p

LEMMA InLineConcat ==
  ASSUME NEW o \in Seq(Int), NEW T \in SUBSET Nat, IsFiniteSet(T), NEW A, NEW R,
         InLine(o, A, R),
         \A y \in T : \A x \in A : x < y => x \in T \/ x \in R \/ x \in Range(o)
  PROVE  /\ InLine(o \o InOrder(T), A, R)
         /\ Range(o) \cup T \subseteq Range(o \o InOrder(T))
  <1> DEFINE e == InOrder(T)
             c == o \o e
             n == Len(o)
             m == Len(e)
  <1>1. e \in Seq(T) /\ e \in Seq(Int)
    <2>1. e \in Seq(T)
      BY InOrderType
    <2>2. T \subseteq Int
      OBVIOUS
    <2> HIDE DEF e
    <2>3. QED
      BY <2>1, <2>2, Wider, Zenon
  <1>2. /\ \A x \in T : \E i \in 1..m : e[i] = x
        /\ \A i \in 1..m : e[i] \in T
        /\ \A i \in 1..m : \A x \in T : x < e[i] => \E j \in 1..(i - 1) : e[j] = x
    <2>1. /\ \A x \in T : \E i \in DOMAIN e : e[i] = x
          /\ \A i \in DOMAIN e : \A x \in T : x < e[i] => \E j \in 1..(i - 1) : e[j] = x
      BY InOrderComplete
    <2> HIDE DEF e
    <2>2. DOMAIN e = 1..m /\ \A i \in 1..m : e[i] \in T
      BY <1>1
    <2> HIDE DEF m
    <2>3. QED
      BY <2>1, <2>2, Zenon
  <1> HIDE DEF e
  <1>3. /\ n \in Nat /\ m \in Nat /\ DOMAIN c = 1..(n + m) /\ DOMAIN o = 1..n
        /\ \A i \in 1..n : c[i] = o[i]
        /\ \A i \in 1..m : c[n + i] = e[i]
    BY <1>1
  <1> HIDE DEF c, n, m
  <1>4. \A x \in Range(o) : \E j \in 1..n : c[j] = x
    BY <1>3 DEF Range
  <1>5. ASSUME NEW i \in 1..n, NEW x \in A, x < c[i]
        PROVE  x \in R \/ \E j \in 1..(i - 1) : c[j] = x
    <2>1. x \in R \/ \E j \in 1..(i - 1) : o[j] = x
      BY <1>3, <1>5 DEF InLine
    <2>2. \A j \in 1..(i - 1) : j \in 1..n
      BY <1>3
    <2>3. QED
      BY <1>3, <2>1, <2>2
  <1>6. ASSUME NEW i \in 1..m, NEW x \in A, x < c[n + i]
        PROVE  x \in R \/ \E j \in 1..(n + i - 1) : c[j] = x
    <2>1. e[i] \in T /\ x < e[i]
      BY <1>2, <1>3, <1>6
    <2>2. x \in T \/ x \in R \/ x \in Range(o)
      BY <2>1, Zenon
    <2>3. CASE x \in T
      <3>1. PICK j \in 1..(i - 1) : e[j] = x
        BY <1>2, <2>1, <2>3
      <3>2. j \in 1..m /\ n + j \in 1..(n + i - 1)
        BY <1>3
      <3>3. c[n + j] = x
        BY <1>3, <3>1, <3>2
      <3>4. QED
        BY <3>2, <3>3
    <2>4. CASE x \in Range(o)
      <3>1. PICK j \in 1..n : c[j] = x
        BY <1>4, <2>4
      <3>2. j \in 1..(n + i - 1)
        BY <1>3
      <3>3. QED
        BY <3>1, <3>2
    <2>5. QED
      BY <2>2, <2>3, <2>4
  <1>7. InLine(c, A, R)
    <2> SUFFICES ASSUME NEW i \in 1..(n + m), NEW x \in A, x < c[i]
                 PROVE  x \in R \/ \E j \in 1..(i - 1) : c[j] = x
      BY <1>3 DEF InLine
    <2>1. CASE i \in 1..n
      BY <1>5, <2>1
    <2>2. CASE i \notin 1..n
      <3>1. i - n \in 1..m /\ n + (i - n) = i
        BY <1>3, <2>2
      <3>2. PICK k \in 1..m : n + k = i
        BY <3>1
      <3>3. x < c[n + k]
        BY <3>2
      <3>4. x \in R \/ \E j \in 1..(n + k - 1) : c[j] = x
        BY <1>6, <3>3
      <3>5. 1..(n + k - 1) = 1..(i - 1)
        BY <1>3, <3>2
      <3>6. QED
        BY <3>4, <3>5, Zenon
    <2>3. QED
      BY <2>1, <2>2
  <1>8. Range(o) \cup T \subseteq Range(c)
    <2>1. ASSUME NEW x \in Range(o)
          PROVE  x \in Range(c)
      BY <1>3, <1>4 DEF Range
    <2>2. ASSUME NEW x \in T
          PROVE  x \in Range(c)
      <3>1. PICK i \in 1..m : e[i] = x
        BY <1>2
      <3>2. n + i \in DOMAIN c /\ c[n + i] = x
        BY <1>3, <3>1
      <3>3. QED
        BY <3>2 DEF Range
    <2>3. QED
      BY <2>1, <2>2, Zenon
  <1>9. QED
    BY <1>7, <1>8 DEF c, e

-----------------------------------------------------------------------------
(***************************************************************************)
(* The order in which fail_node proceeds                                   *)
(***************************************************************************)
LEMMA ControlStep ==
  ASSUME ControlInv, [Next]_vars
  PROVE  ControlInv'
  <1>1. CASE UNCHANGED <<failed, alive, mgr, role1, connected>>
    BY <1>1, Zenon DEF ControlInv
  <1>2. CASE FailSender
    BY <1>2 DEF ControlInv, FailSender, senderVars
  <1>3. CASE Crash
    BY <1>3 DEF ControlInv, Crash, mgrVars
  <1>4. CASE SetupChain
    BY <1>4 DEF ControlInv, SetupChain
  <1>5. ASSUME NEW d \in Receivers, FailReceiver(d)
        PROVE  ControlInv'
    <2>1. d # 2
      BY ForwardingAssumption
    <2>2. QED
      BY <1>5, <2>1 DEF ControlInv, FailReceiver, senderVars
  <1>6. CASE UpdateConnections
    BY <1>6 DEF ControlInv, UpdateConnections, senderVars
  <1>7. CASE ResendPending
    BY <1>7 DEF ControlInv, ResendPending, senderVars
  <1>8. CASE Submit \/ Deliver \/ UNCHANGED vars
    <2>1. UNCHANGED <<failed, alive, mgr, role1, connected>>
      BY <1>8, Zenon DEF Deliver, Submit, ChainRequest, ChainAck, ExternalAck, AsyncOperation, Replicate,
             SendAck, vars, mgrVars, senderVars
    <2>2. QED
      BY <1>1, <2>1
  <1>9. QED
    BY <1>2, <1>3, <1>4, <1>5, <1>6, <1>7, <1>8 DEF Next

(***************************************************************************)
(* The commands of the sending chain stay in order.                        *)
(***************************************************************************)
LEMMA OrderStep ==
  ASSUME QuietRepair, IInv, ControlInv, OrderInv, [Next]_vars
  PROVE  OrderInv'
  <1>0. /\ 1 \in Replicas /\ 2 \in Replicas /\ Replicas = {1, 2}
        /\ chain_seq_no_ \in [Replicas -> Nat] /\ chain_seq_no_[1] \in Nat /\ chain_seq_no_[2] \in Nat
        /\ pending_ \in [Replicas -> SUBSET Commands] /\ chain \in Seq(Commands)
    BY DEF IInv, TypeInv, SenderType, Replicas
  <1> DEFINE Forgotten2 ==
               \A s \in 1..chain_seq_no_[2] : s \notin pending_[2] => AllAcked(s)
             Bounded == \A q \in Replicas : pending_[q] \subseteq 1..chain_seq_no_[q]
  <1>1. CASE UNCHANGED <<chain_seq_no_, pending_, chain, role1, alive, ackSent>>
    BY <1>1, StaysAcked, Zenon DEF OrderInv, ChainOrder
  <1>2. CASE Submit
    <2> DEFINE s == chain_seq_no_[1] + 1
    <2>1. /\ mgr = "idle"
          /\ chain_seq_no_' = [chain_seq_no_ EXCEPT ![1] = s]
          /\ pending_' = [pending_ EXCEPT ![1] = pending_[1] \cup {s}]
          /\ \/ role1 = "singleton" /\ UNCHANGED chain
             \/ role1 # "singleton" /\ chain' = Append(chain, s)
          /\ UNCHANGED <<role1, alive, ackSent>> /\ s \in Commands
      BY <1>2 DEF Submit, Run, Quiet, is_tail, receiverVars
    <2>2. /\ chain_seq_no_'[1] = s /\ chain_seq_no_'[2] = chain_seq_no_[2]
          /\ pending_'[1] = pending_[1] \cup {s} /\ pending_'[2] = pending_[2]
      BY <1>0, <2>1
    <2>3. Bounded'
      <3>1. pending_[1] \subseteq 1..chain_seq_no_[1] /\ pending_[2] \subseteq 1..chain_seq_no_[2]
        BY <1>0 DEF OrderInv
      <3>2. pending_[1] \cup {s} \subseteq 1..s
        BY <1>0, <3>1
      <3> HIDE DEF s
      <3>3. QED
        BY <1>0, <2>2, <3>1, <3>2
    <2>4. chain_seq_no_'[2] <= chain_seq_no_'[1]
      BY <1>0, <2>2 DEF OrderInv
    <2>5. Forgotten2'
      BY <2>1, <2>2, StaysAcked, Zenon DEF OrderInv
    <2>6. ChainOrder'
      <3>1. CASE role1 = "singleton"
        BY <1>0, <2>1, <2>2, <3>1 DEF OrderInv, ChainOrder
      <3>2. CASE role1 # "singleton"
        <4>1. 2 \notin failed /\ role1 = "head" /\ 2 \in alive
          BY <1>0, <2>1, <3>2 DEF ControlInv
        <4>2. chain' = Append(chain, s)
          BY <2>1, <3>2
        <4>3. /\ \A i \in 1..Len(chain) : chain[i] = chain_seq_no_[2] + i
              /\ s = chain_seq_no_[2] + (Len(chain) + 1) /\ Len(chain) \in Nat
          BY <1>0, <4>1 DEF OrderInv, ChainOrder
        <4> HIDE DEF s
        <4>4. /\ Len(chain') = Len(chain) + 1 /\ DOMAIN chain' = 1..(Len(chain) + 1)
              /\ \A i \in 1..Len(chain) : chain'[i] = chain[i]
              /\ chain'[Len(chain) + 1] = s
          BY <1>0, <2>1, <4>2, Appended
        <4>5. \A i \in DOMAIN chain' : chain'[i] = chain_seq_no_[2] + i
          BY <4>3, <4>4
        <4>6. s \in Int /\ s <= s
          BY <1>0, <4>3
        <4>7. QED
          BY <2>2, <4>3, <4>4, <4>5, <4>6 DEF ChainOrder
      <3>3. QED
        BY <3>1, <3>2
    <2>7. QED
      BY <2>3, <2>4, <2>5, <2>6 DEF OrderInv
  <1>3. CASE ChainRequest
    <2> DEFINE s == Head(chain)
    <2>1. /\ chain # <<>> /\ 2 \in alive /\ chain' = Tail(chain)
          /\ chain_seq_no_' = [chain_seq_no_ EXCEPT ![2] = s]
          /\ pending_' = [pending_ EXCEPT ![2] = pending_[2] \cup {s}]
          /\ UNCHANGED <<role1, alive, ackSent>>
      BY <1>3 DEF ChainRequest, Run, receiverVars
    <2>2. /\ Len(chain) \in Nat /\ Len(chain) >= 1 /\ 1 \in DOMAIN chain /\ s = chain[1]
          /\ Len(chain') = Len(chain) - 1 /\ DOMAIN chain' = 1..(Len(chain) - 1)
          /\ DOMAIN chain = 1..Len(chain)
          /\ \A i \in 1..(Len(chain) - 1) : chain'[i] = chain[i + 1] /\ i + 1 \in 1..Len(chain)
      BY <1>0, <2>1
    <2> HIDE DEF s
    <2>3. /\ s = chain_seq_no_[2] + 1
          /\ chain_seq_no_[2] + Len(chain) <= chain_seq_no_[1]
          /\ role1 = "head" => chain_seq_no_[1] = chain_seq_no_[2] + Len(chain)
          /\ \A i \in 1..Len(chain) : chain[i] = chain_seq_no_[2] + i
      BY <1>0, <2>1, <2>2, Zenon DEF OrderInv, ChainOrder
    <2>4. /\ chain_seq_no_'[2] = s /\ chain_seq_no_'[1] = chain_seq_no_[1]
          /\ pending_'[2] = pending_[2] \cup {s} /\ pending_'[1] = pending_[1]
      BY <1>0, <2>1
    <2>5. Bounded'
      <3>1. pending_[1] \subseteq 1..chain_seq_no_[1] /\ pending_[2] \subseteq 1..chain_seq_no_[2]
        BY <1>0 DEF OrderInv
      <3>2. pending_[2] \cup {s} \subseteq 1..s
        BY <1>0, <2>3, <3>1
      <3>3. QED
        BY <1>0, <2>4, <3>1, <3>2
    <2>6. chain_seq_no_'[2] <= chain_seq_no_'[1]
      BY <1>0, <2>2, <2>3, <2>4
    <2>7. Forgotten2'
      <3>1. \A t \in 1..s : t # s => t \in 1..chain_seq_no_[2]
        BY <1>0, <2>3
      <3>2. QED
        BY <2>1, <2>4, <3>1, StaysAcked, Zenon DEF OrderInv
    <2>8. ASSUME NEW i \in DOMAIN chain'
          PROVE  chain'[i] = s + i
      <3>1. i \in Nat /\ chain'[i] = chain[i + 1] /\ i + 1 \in 1..Len(chain)
        BY <2>2
      <3>2. chain[i + 1] = chain_seq_no_[2] + (i + 1)
        BY <2>3, <3>1
      <3>3. QED
        BY <1>0, <2>3, <3>1, <3>2
    <2>9. /\ s + Len(chain') <= chain_seq_no_[1]
          /\ role1 = "head" => chain_seq_no_[1] = s + Len(chain')
      BY <1>0, <2>2, <2>3
    <2>10. ChainOrder'
      BY <2>1, <2>4, <2>8, <2>9 DEF ChainOrder
    <2>11. QED
      BY <2>5, <2>6, <2>7, <2>10 DEF OrderInv
  <1>4. ASSUME UNCHANGED <<chain_seq_no_, chain, role1, alive>>, ackSent \subseteq ackSent',
               Bounded', Forgotten2'
        PROVE  OrderInv'
    <2>1. ChainOrder' /\ chain_seq_no_'[2] <= chain_seq_no_'[1]
      BY <1>4, Zenon DEF OrderInv, ChainOrder
    <2>2. QED
      BY <1>4, <2>1 DEF OrderInv
  <1>5. ASSUME NEW d \in Receivers, NEW x \in Requests, ExternalAck(d, x)
        PROVE  OrderInv'
    <2> DEFINE s == Command(x)
    <2>1. /\ UNCHANGED <<chain_seq_no_, chain, role1, alive, ackSent>>
          /\ \/ pending_' = pending_
             \/ /\ pending_count_[2][s] = 1
                /\ pending_' = [pending_ EXCEPT ![2] = pending_[2] \ {s}]
      BY <1>5 DEF ExternalAck, receiverVars
    <2>2. pending_count_[2][s] = 1 => AllAcked(s)
      BY <1>5, LastAck DEF IInv
    <2> HIDE DEF s
    <2>3. /\ pending_'[1] = pending_[1] /\ pending_'[2] \subseteq pending_[2]
          /\ \A t \in pending_[2] \ pending_'[2] : AllAcked(t)
      <3>1. CASE pending_' = pending_
        BY <3>1
      <3>2. CASE /\ pending_count_[2][s] = 1
                 /\ pending_' = [pending_ EXCEPT ![2] = pending_[2] \ {s}]
        <4>1. pending_'[1] = pending_[1] /\ pending_'[2] = pending_[2] \ {s}
          BY <1>0, <3>2
        <4>2. QED
          BY <2>2, <3>2, <4>1, Zenon
      <3>3. QED
        BY <2>1, <3>1, <3>2
    <2>4. Bounded'
      BY <1>0, <2>1, <2>3 DEF OrderInv
    <2>5. Forgotten2'
      BY <2>1, <2>3, StaysAcked, Zenon DEF OrderInv
    <2>6. QED
      BY <1>4, <2>1, <2>4, <2>5
  <1>6. CASE ChainAck
    <2>1. /\ UNCHANGED <<chain_seq_no_, chain, role1, alive, ackSent>>
          /\ pending_' = [pending_ EXCEPT ![1] = pending_[1] \ {Head(chainAcks)}]
      BY <1>6 DEF ChainAck, receiverVars
    <2>2. pending_'[2] = pending_[2] /\ pending_'[1] \subseteq pending_[1]
      BY <1>0, <2>1
    <2>3. Bounded'
      BY <1>0, <2>1, <2>2 DEF OrderInv
    <2>4. Forgotten2'
      BY <2>1, <2>2, StaysAcked, Zenon DEF OrderInv
    <2>5. QED
      BY <1>4, <2>1, <2>3, <2>4
  <1>7. ASSUME NEW d \in Receivers, NEW x \in Requests, SendAck(d, x)
        PROVE  OrderInv'
    <2>1. /\ UNCHANGED <<chain_seq_no_, pending_, chain, role1, alive>>
          /\ ackSent' = ackSent \cup {<<d, x>>}
      BY <1>7 DEF SendAck, senderVars
    <2>2. Bounded' /\ Forgotten2'
      BY <2>1, StaysAcked, Zenon DEF OrderInv
    <2>3. QED
      BY <1>4, <2>1, <2>2
  <1>8. CASE Crash
    <2>1. /\ alive' = {1} /\ UNCHANGED <<chain_seq_no_, pending_, role1, ackSent>>
      BY <1>8 DEF Crash, receiverVars
    <2>2. ChainOrder'
      BY <2>1 DEF ChainOrder
    <2>3. QED
      BY <2>1, <2>2, StaysAcked, Zenon DEF OrderInv
  <1>9. CASE SetupChain
    <2>1. role1' = "singleton" /\ UNCHANGED <<chain_seq_no_, pending_, chain, alive, ackSent>>
      BY <1>9 DEF SetupChain, receiverVars
    <2>2. ChainOrder'
      BY <2>1 DEF OrderInv, ChainOrder
    <2>3. QED
      BY <2>1, <2>2, StaysAcked, Zenon DEF OrderInv
  <1>10. CASE \/ \E q \in Replicas, d \in Receivers : AsyncOperation(q, d)
              \/ \E d \in Receivers : Replicate(d) \/ FailReceiver(d)
              \/ FailSender \/ UpdateConnections \/ ResendPending \/ UNCHANGED vars
    <2>1. UNCHANGED <<chain_seq_no_, pending_, chain, role1, alive, ackSent>>
      BY <1>10, Zenon DEF AsyncOperation, Replicate, FailReceiver, FailSender, UpdateConnections,
             ResendPending, vars, senderVars, receiverVars
    <2>2. QED
      BY <1>1, <2>1
  <1>11. QED
    BY <1>2, <1>3, <1>5, <1>6, <1>7, <1>8, <1>9, <1>10 DEF Next, Deliver

-----------------------------------------------------------------------------
(***************************************************************************)
(* What is known of a request and of a connection                          *)
(***************************************************************************)
LEMMA RequestTypes ==
  ASSUME NEW d, NEW x \in RequestsOf(d)
  PROVE  /\ x \in Requests /\ x \in Int /\ x >= 0
         /\ Command(x) \in Nat /\ Command(x) >= 1 /\ route[x] = d
  <1>1. x \in Requests /\ route[x] = d
    BY DEF RequestsOf
  <1>2. x \in Nat
    BY <1>1, RequestsFinite
  <1>3. Command(x) \in Nat /\ Command(x) >= 1
    BY <1>1, CommandType DEF Commands
  <1>4. QED
    BY <1>1, <1>2, <1>3

LEMMA MayGoTypes ==
  ASSUME NEW d, NEW x \in MayGo(d)
  PROVE  x \in Requests /\ x \in Int /\ x >= 0
  <1>1. x \in Requests
    BY RequestsInt, Zenon
  <1>2. QED
    BY <1>1, RequestsFinite

LEMMA OutSeq ==
  ASSUME IInv, NEW q \in Replicas, NEW d \in Receivers
  PROVE  /\ out[q][d] \in Seq(MayGo(d)) /\ out[q][d] \in Seq(Int)
         /\ \A i \in DOMAIN out[q][d] : out[q][d][i] \in MayGo(d)
  <1>1. out[q][d] \in Seq(MayGo(d))
    BY DEF IInv, TypeInv, OutType
  <1>2. MayGo(d) \subseteq Int
    BY RequestsInt, Zenon
  <1>3. out[q][d] \in Seq(Int)
    BY <1>1, <1>2, Wider
  <1>4. QED
    BY <1>1, <1>3

LEMMA LaterIsLarger ==
  ASSUME NEW x \in Requests, NEW y \in Requests, NEW n \in Nat, Command(y) <= n, Command(x) > n
  PROVE  x > y /\ ~(x < y)
  <1>1. x \in Int /\ y \in Int /\ Command(x) \in Nat /\ Command(y) \in Nat
    BY RequestsInt, CommandType DEF Commands
  <1>2. ~(x <= y)
    BY <1>1, CommandMonotone
  <1>3. QED
    BY <1>1, <1>2

(***************************************************************************)
(* A command the head of the chain accepts is later than all that is under *)
(* way or has been run.                                                    *)
(***************************************************************************)
LEMMA AcceptInLine ==
  ASSUME IInv, NEW d \in Receivers, NEW p \in Replicas,
         route' = route, OutInLine(d), OutAccepted(d),
         chain_seq_no_'[1] \in Nat, chain_seq_no_[1] <= chain_seq_no_'[1]
  PROVE  /\ InLine(out[p][d], AcceptedOf(d)', Ran(d))
         /\ \A i \in DOMAIN out[p][d] : Command(out[p][d][i]) <= chain_seq_no_'[1]
  <1> DEFINE A == AcceptedOf(d)'
  <1>1. chain_seq_no_[1] \in Nat
    BY DEF IInv, TypeInv, SenderType, Replicas
  <1>2. A = {x \in RequestsOf(d) : Command(x) <= chain_seq_no_'[1]}
    BY DEF AcceptedOf, RequestsOf
  <1>3. ASSUME NEW i \in DOMAIN out[p][d]
        PROVE  /\ out[p][d][i] \in Requests /\ Command(out[p][d][i]) \in Nat
               /\ Command(out[p][d][i]) <= chain_seq_no_[1]
    <2>1. Command(out[p][d][i]) <= chain_seq_no_[1] /\ out[p][d][i] \in Requests
      BY OutSeq, RequestsInt DEF OutAccepted
    <2>2. QED
      BY <2>1, CommandType DEF Commands
  <1>4. InLine(out[p][d], AcceptedOf(d), Ran(d))
    BY DEF OutInLine
  <1>5. ASSUME NEW x \in A \ AcceptedOf(d), NEW i \in DOMAIN out[p][d]
        PROVE  ~(x < out[p][d][i])
    <2>1. x \in RequestsOf(d) /\ ~(Command(x) <= chain_seq_no_[1])
      BY <1>2, Zenon DEF AcceptedOf
    <2>2. x \in Requests
      BY <2>1, RequestTypes
    <2>3. Command(x) \in Nat
      BY <2>2, CommandType DEF Commands
    <2>4. Command(x) > chain_seq_no_[1]
      BY <1>1, <2>1, <2>3
    <2>5. QED
      BY <1>1, <1>3, <2>2, <2>4, LaterIsLarger, Zenon
  <1> HIDE DEF A
  <1>6. InLine(out[p][d], A, Ran(d))
    BY <1>4, <1>5, InLineMore, Zenon
  <1>7. ASSUME NEW i \in DOMAIN out[p][d]
        PROVE  Command(out[p][d][i]) <= chain_seq_no_'[1]
    BY <1>1, <1>3
  <1>8. QED
    BY <1>6, <1>7 DEF A

LEMMA AcceptMark ==
  ASSUME IInv, NEW d \in Receivers, MarkBelow(d),
         route' = route, ran' = ran, last_seen_seq_' = last_seen_seq_,
         chain_seq_no_'[1] \in Nat, chain_seq_no_[1] <= chain_seq_no_'[1]
  PROVE  MarkBelow(d)'
  <1>1. chain_seq_no_[1] \in Nat /\ last_seen_seq_[d] \in Int
    BY DEF IInv, TypeInv, SenderType, RanType, Replicas
  <1>2. \A x \in RequestsOf(d) : x \in Int /\ Command(x) \in Nat
    BY RequestTypes
  <1>3. RequestsOf(d)' = RequestsOf(d) /\ Ran(d)' = Ran(d)
    BY Zenon DEF RequestsOf, Ran
  <1>4. \A x \in RequestsOf(d) : Command(x) > chain_seq_no_'[1] => x > last_seen_seq_[d]
    BY <1>1, <1>2 DEF MarkBelow
  <1>5. \A x \in RequestsOf(d) : x <= last_seen_seq_[d] => x \in Ran(d)
    BY <1>1, <1>2 DEF MarkBelow, AcceptedOf
  <1>6. QED
    BY <1>3, <1>4, <1>5 DEF MarkBelow, AcceptedOf, Command

(***************************************************************************)
(* While no receiver is gone, all of a batch is sent.                      *)
(***************************************************************************)
SentAs(q, S, to) ==
    /\ \A x \in Batch(S) : to[x] \in To(x)
    /\ \A p \in Replicas, d \in Receivers :
          out'[p][d] = IF p = q THEN out[q][d] \o InOrder({x \in Batch(S) : to[x] = d})
                               ELSE out[p][d]

LEMMA SendFull ==
  ASSUME IInv, NEW q \in Replicas, NEW S, Send(q, S), connected = Receivers
  PROVE  \E to \in [Batch(S) -> Receivers] : SentAs(q, S, to)
  <1>1. PICK to \in [Batch(S) -> Receivers] :
          /\ \A x \in Batch(S) : to[x] \in To(x)
          /\ \E sent \in {Batch(S)} \cup
                {{x \in Batch(S) : x < y} : y \in {x \in Batch(S) : to[x] \notin connected}} :
               out' = [out EXCEPT ![q] = [d \in Receivers |->
                         IF d \in connected THEN out[q][d] \o For(d, to, sent) ELSE out[q][d]]]
    BY Zenon DEF Send
  <1>2. {x \in Batch(S) : to[x] \notin connected} = {}
    BY <1>1
  <1>3. out' = [out EXCEPT ![q] = [d \in Receivers |->
                  IF d \in connected THEN out[q][d] \o For(d, to, Batch(S)) ELSE out[q][d]]]
    BY <1>1, <1>2, Zenon
  <1>4. ASSUME NEW p \in Replicas, NEW d \in Receivers
        PROVE  out'[p][d] = IF p = q THEN out[q][d] \o For(d, to, Batch(S)) ELSE out[p][d]
    BY <1>3 DEF IInv, TypeInv, OutType
  <1>5. QED
    BY <1>1, <1>4, Zenon DEF For, SentAs

(***************************************************************************)
(* Until something is sent again, no request is acked by two receivers.    *)
(***************************************************************************)
LEMMA OnePlace ==
  ASSUME IInv, PlaceInv, Unresent
  PROVE  \A s : AckedOnce(s)
  <1> SUFFICES ASSUME NEW s, NEW x \in Batch({s}), NEW d \in Receivers, NEW e \in Receivers,
                      <<d, x>> \in ackSent, <<e, x>> \in ackSent
               PROVE  d = e
    BY Zenon DEF AckedOnce
  <1>1. x \in Requests
    BY DEF Batch
  <1>2. x \in Placed(d) /\ x \in Placed(e)
    BY <1>1, AckedRan, Zenon DEF Placed, Ran
  <1>3. QED
    BY <1>2, Zenon DEF PlaceInv

(***************************************************************************)
(* Reading, running and losing requests takes none to another receiver.    *)
(***************************************************************************)
LEMMA PlaceShrinks ==
  ASSUME PlaceInv, Unresent, chain_seq_no_' = chain_seq_no_,
         \A d \in Receivers : Placed(d)' \subseteq Placed(d)
  PROVE  PlaceInv'
  BY Zenon DEF PlaceInv, Command

LEMMA PlaceStep ==
  ASSUME QuietRepair, IInv, ControlInv, OrderInv, PlaceInv, [Next]_vars
  PROVE  PlaceInv'
  <1>0. 1 \in Replicas /\ 2 \in Replicas /\ chain_seq_no_[2] \in Nat
    BY DEF Replicas, IInv, TypeInv, SenderType
  <1>1. ASSUME UNCHANGED <<out, ran, chain_seq_no_>>, Unresent' => Unresent
        PROVE  PlaceInv'
    BY <1>1, Zenon DEF PlaceInv, Placed, Ran, Command
  <1>2. CASE Submit
    <2>1. mgr = "idle" /\ UNCHANGED <<failed, mgr, ran>> /\ chain_seq_no_'[2] = chain_seq_no_[2]
      BY <1>0, <1>2 DEF Submit, Quiet, Run, mgrVars, receiverVars, IInv, TypeInv, SenderType
    <2>2. CASE failed = {}
      <3>1. ~is_tail(1)
        BY <2>2 DEF ControlInv, is_tail
      <3>2. out' = out
        BY <1>2, <3>1 DEF Submit
      <3>3. QED
        BY <2>1, <3>2, Zenon DEF PlaceInv, Unresent, Placed, Ran, Command
    <2>3. CASE failed # {}
      BY <2>1, <2>3 DEF PlaceInv, Unresent
    <2>4. QED
      BY <2>2, <2>3
  <1>3. CASE ChainRequest
    <2> DEFINE h == Head(chain)
    <2>1. /\ mgr = "idle" /\ connected = Receivers /\ 2 \in alive /\ chain # <<>>
          /\ UNCHANGED <<failed, mgr, ran>> /\ Send(2, {h})
      BY <1>3 DEF ChainRequest, Quiet, ControlInv, receiverVars, mgrVars
    <2>2. chain_seq_no_'[2] = h
      BY <1>0, <1>3 DEF ChainRequest, Run, IInv, TypeInv, SenderType
    <2>3. h = chain_seq_no_[2] + 1
      <3>1. 1 \in DOMAIN chain /\ h = chain[1]
        BY <2>1 DEF IInv, TypeInv, SenderType
      <3>2. QED
        BY <2>1, <3>1, Zenon DEF OrderInv, ChainOrder
    <2> SUFFICES ASSUME Unresent
                 PROVE  /\ \A d \in Receivers : \A x \in Placed(d)' : Command(x) <= h
                        /\ \A d, e \in Receivers : d # e => Placed(d)' \cap Placed(e)' = {}
      BY <2>1, <2>2, Zenon DEF PlaceInv, Unresent, Command
    <2> HIDE DEF h
    <2>4. PICK to \in [Batch({h}) -> Receivers] : SentAs(2, {h}, to)
      BY <1>0, <2>1, SendFull, Zenon
    <2>5. ASSUME NEW d \in Receivers, NEW x \in Placed(d)'
          PROVE  x \in Placed(d) \/ (x \in Batch({h}) /\ to[x] = d)
      <3> DEFINE T == {y \in Batch({h}) : to[y] = d}
                 o == out[2][d]
                 n == InOrder(T)
      <3>1. T \in SUBSET Nat /\ IsFiniteSet(T)
        <4>1. T \in SUBSET Requests
          BY DEF Batch
        <4>2. QED
          BY <4>1, RequestsFinite, FS_Subset, Zenon
      <3>2. n \in Seq(T) /\ o \in Seq(Int)
        BY <1>0, <3>1, InOrderType, OutSeq
      <3>3. out'[1][d] = out[1][d] /\ out'[2][d] = o \o n
        <4>1. /\ out'[1][d] = IF 1 = 2 THEN o \o n ELSE out[1][d]
              /\ out'[2][d] = IF 2 = 2 THEN o \o n ELSE out[2][d]
          BY <1>0, <2>4, Zenon DEF SentAs
        <4>2. QED
          BY <4>1
      <3>4. Range(o \o n) \subseteq Range(o) \cup T
        <4> HIDE DEF T, o, n
        <4>1. QED
          BY <3>2 DEF Range
      <3>5. Ran(d)' = Ran(d)
        BY <2>1, Zenon DEF Ran
      <3>6. x \in Ran(d) \/ x \in Range(out[1][d]) \/ x \in Range(o \o n)
        BY <2>5, <3>3, <3>5, Zenon DEF Placed
      <3> HIDE DEF n
      <3>7. QED
        BY <3>4, <3>6, Zenon DEF Placed
    <2>6. \A x \in Batch({h}) : Command(x) = h
      BY DEF Batch
    <2>7. ASSUME NEW d \in Receivers, NEW x \in Placed(d)
          PROVE  Command(x) <= chain_seq_no_[2]
      BY <2>7, Zenon DEF PlaceInv
    <2>8. ASSUME NEW d \in Receivers, NEW x \in Placed(d)
          PROVE  Command(x) \in Int /\ Command(x) <= h /\ x \notin Batch({h})
      <3>1. x \in Requests
        <4>1. /\ ran[d] \in Seq(MayGo(d)) /\ out[1][d] \in Seq(MayGo(d)) /\ out[2][d] \in Seq(MayGo(d))
          BY <1>0 DEF IInv, TypeInv, RanType, OutType
        <4>2. x \in MayGo(d)
          <5>1. \A s \in Seq(MayGo(d)) : Range(s) \subseteq MayGo(d)
            BY DEF Range
          <5>2. QED
            BY <2>8, <4>1, <5>1, Zenon DEF Placed, Ran
        <4>3. QED
          BY <4>2, RequestsInt, Zenon
      <3>2. Command(x) \in Nat
        BY <3>1, CommandType DEF Commands
      <3>3. Command(x) <= chain_seq_no_[2]
        BY <2>7
      <3>4. Command(x) <= h /\ Command(x) # h
        BY <1>0, <2>3, <3>2, <3>3
      <3>5. QED
        BY <2>6, <3>2, <3>4
    <2>9. ASSUME NEW d \in Receivers, NEW x \in Placed(d)'
          PROVE  Command(x) <= h
      <3>1. CASE x \in Placed(d)
        BY <2>8, <3>1
      <3>2. CASE x \in Batch({h})
        BY <1>0, <2>3, <2>6, <3>2
      <3>3. QED
        BY <2>5, <3>1, <3>2
    <2>10. ASSUME NEW d \in Receivers, NEW e \in Receivers, d # e, NEW x \in Placed(d)',
                  x \in Placed(e)'
           PROVE  FALSE
      <3>1. ~(x \in Placed(d) /\ x \in Placed(e))
        BY <2>10, Zenon DEF PlaceInv
      <3>2. QED
        BY <2>5, <2>8, <2>10, <3>1, Zenon
    <2>11. QED
      BY <2>9, <2>10, Zenon
  <1>4. ASSUME NEW q \in Replicas, NEW e \in Receivers, AsyncOperation(q, e)
        PROVE  PlaceInv'
    <2> DEFINE o == out[q][e]
    <2>1. /\ UNCHANGED <<chain_seq_no_, failed, mgr>> /\ o # <<>>
          /\ out' = [out EXCEPT ![q][e] = Tail(o)]
          /\ ran' = ran \/ ran' = [ran EXCEPT ![e] = Append(ran[e], Head(o))]
      BY <1>4 DEF AsyncOperation, senderVars, mgrVars
    <2>2. o \in Seq(Int) /\ ran[e] \in Seq(Requests) /\ ran \in [Receivers -> Seq(Requests)]
      BY OutSeq DEF IInv, TypeInv, RanType
    <2>3. out \in [Replicas -> [Receivers -> Seq(Requests)]]
      BY DEF IInv, TypeInv, OutType
    <2> HIDE DEF o
    <2>4. Head(o) \in Range(o) /\ Range(Tail(o)) \subseteq Range(o)
      BY <2>1, <2>2 DEF Range
    <2>5. Head(o) \in Requests
      <3>1. o \in Seq(Requests)
        BY <2>3 DEF o
      <3>2. QED
        BY <2>1, <3>1
    <2>6. Range(Append(ran[e], Head(o))) \subseteq Range(ran[e]) \cup {Head(o)}
      BY <2>2, <2>5 DEF Range
    <2>7. ASSUME NEW p \in Replicas, NEW d \in Receivers
          PROVE  Range(out'[p][d]) \subseteq Range(out[p][d])
      <3>1. out'[p][d] = IF p = q /\ d = e THEN Tail(o) ELSE out[p][d]
        BY <2>1, <2>3, Zenon
      <3>2. QED
        BY <2>4, <3>1, Zenon DEF o
    <2>8. ASSUME NEW d \in Receivers
          PROVE  Range(ran'[d]) \subseteq Range(ran[d]) \cup {x \in {Head(o)} : d = e}
      <3>1. ran'[d] = ran[d] \/ (d = e /\ ran'[d] = Append(ran[e], Head(o)))
        BY <2>1, <2>2, Zenon
      <3>2. QED
        BY <2>6, <3>1, Zenon
    <2>9. ASSUME NEW d \in Receivers
          PROVE  Placed(d)' \subseteq Placed(d)
      <3>1. Head(o) \in Placed(e)
        <4>1. q = 1 \/ q = 2
          BY DEF Replicas
        <4>2. QED
          BY <2>4, <4>1, Zenon DEF Placed, o
      <3>2. Range(out'[1][d]) \subseteq Placed(d) /\ Range(out'[2][d]) \subseteq Placed(d)
        BY <1>0, <2>7, Zenon DEF Placed
      <3>3. Range(ran'[d]) \subseteq Placed(d)
        BY <2>8, <3>1, Zenon DEF Placed, Ran
      <3>4. QED
        BY <3>2, <3>3, Zenon DEF Placed, Ran
    <2>10. CASE Unresent
      BY <2>1, <2>9, <2>10, PlaceShrinks, Zenon
    <2>11. CASE ~Unresent
      BY <2>1, <2>11, Zenon DEF PlaceInv, Unresent
    <2>12. QED
      BY <2>10, <2>11
  <1>5. CASE Crash
    <2>1. PICK kept \in [Receivers -> 0..Cardinality(Requests)] :
            /\ \A d \in Receivers : kept[d] <= Len(out[2][d])
            /\ out' = [out EXCEPT ![2] = [d \in Receivers |-> SubSeq(out[2][d], 1, kept[d])]]
      BY <1>5, Zenon DEF Crash
    <2>2. UNCHANGED <<ran, chain_seq_no_, failed, mgr>>
      BY <1>5 DEF Crash, receiverVars, mgrVars
    <2>3. ASSUME NEW d \in Receivers
          PROVE  Placed(d)' \subseteq Placed(d)
      <3> DEFINE o == out[2][d]
                 k == kept[d]
      <3>1. out'[1][d] = out[1][d] /\ out'[2][d] = SubSeq(o, 1, k)
        BY <1>0, <2>1 DEF IInv, TypeInv, OutType
      <3>2. o \in Seq(Int) /\ k \in Nat /\ k <= Len(o)
        <4>1. Cardinality(Requests) \in Nat
          BY RequestsFinite, FS_CardinalityType
        <4>2. k \in Nat /\ k <= Len(o)
          BY <2>1, <4>1
        <4>3. QED
          BY <1>0, <4>2, OutSeq
      <3> HIDE DEF o, k
      <3>3. Range(SubSeq(o, 1, k)) \subseteq Range(o)
        BY <3>2 DEF Range
      <3>4. QED
        BY <2>2, <3>1, <3>3, Zenon DEF Placed, Ran, o
    <2>4. CASE Unresent
      BY <2>2, <2>3, <2>4, PlaceShrinks, Zenon
    <2>5. CASE ~Unresent
      BY <2>2, <2>5, Zenon DEF PlaceInv, Unresent
    <2>6. QED
      BY <2>4, <2>5
  <1>6. ASSUME NEW e \in Receivers, FailReceiver(e)
        PROVE  PlaceInv'
    <2>1. PICK k \in copied[e]..Len(ran[e]) : ran' = [ran EXCEPT ![e] = SubSeq(ran[e], 1, k)]
      BY <1>6, Zenon DEF FailReceiver
    <2>2. /\ failed = {} /\ UNCHANGED chain_seq_no_
          /\ out' = [p \in Replicas |-> [out[p] EXCEPT ![e] = <<>>]]
      BY <1>6 DEF FailReceiver, senderVars
    <2>3. /\ out \in [Replicas -> [Receivers -> Seq(Requests)]]
          /\ ran \in [Receivers -> Seq(Requests)] /\ copied[e] \in Nat
      BY DEF IInv, TypeInv, OutType, RanType
    <2>4. Range(SubSeq(ran[e], 1, k)) \subseteq Range(ran[e])
      <3> DEFINE o == ran[e]
      <3>1. o \in Seq(Requests) /\ k \in Nat /\ k <= Len(o)
        BY <2>1, <2>3
      <3> HIDE DEF o
      <3>2. Range(SubSeq(o, 1, k)) \subseteq Range(o)
        BY <3>1 DEF Range
      <3>3. QED
        BY <3>2 DEF o
    <2>5. Range(<<>>) = {}
      BY DEF Range
    <2>6. ASSUME NEW d \in Receivers
          PROVE  Placed(d)' \subseteq Placed(d)
      <3>1. \A p \in Replicas : out'[p][d] = IF d = e THEN <<>> ELSE out[p][d]
        BY <2>2, <2>3, Zenon
      <3>2. ran'[d] = IF d = e THEN SubSeq(ran[e], 1, k) ELSE ran[d]
        BY <2>1, <2>3, Zenon
      <3>3. \A p \in Replicas : Range(out'[p][d]) \subseteq Range(out[p][d])
        BY <2>5, <3>1, Zenon
      <3>4. Range(ran'[d]) \subseteq Range(ran[d])
        BY <2>4, <3>2, Zenon
      <3>5. QED
        BY <1>0, <3>3, <3>4, Zenon DEF Placed, Ran
    <2>7. QED
      BY <2>2, <2>6, PlaceShrinks, Zenon DEF Unresent
  <1>7. CASE ResendPending
    <2>1. failed # {} /\ failed' = failed /\ mgr' = "idle"
      BY <1>7 DEF ResendPending, ControlInv
    <2>2. QED
      BY <2>1 DEF PlaceInv, Unresent
  <1>8. CASE FailSender \/ SetupChain \/ UpdateConnections
    <2>1. Unresent /\ UNCHANGED <<out, ran, chain_seq_no_>>
      BY <1>8 DEF FailSender, SetupChain, UpdateConnections, Unresent, senderVars, receiverVars
    <2>2. QED
      BY <1>1, <2>1
  <1>9. CASE \/ ChainAck \/ \E d \in Receivers, x \in Requests : ExternalAck(d, x) \/ SendAck(d, x)
             \/ \E d \in Receivers : Replicate(d)
             \/ UNCHANGED vars
    <2>1. UNCHANGED <<out, ran, chain_seq_no_, failed, mgr>>
      BY <1>9, Zenon DEF ChainAck, ExternalAck, SendAck, Replicate, vars, senderVars, receiverVars,
             mgrVars
    <2>2. QED
      BY <1>1, <2>1, Zenon DEF Unresent
  <1>10. QED
    BY <1>2, <1>3, <1>4, <1>5, <1>6, <1>7, <1>8, <1>9, Zenon DEF Next, Deliver

(***************************************************************************)
(* replication_complete and resend_pending let no request overtake an      *)
(* earlier one, if what they do not send is under way or has been run.     *)
(***************************************************************************)
LEMMA SendInLine ==
  ASSUME IInv, NEW q \in Replicas, NEW S, Send(q, S), connected = Receivers, NEW d \in Receivers,
         route' = route, ran' = ran, OutInLine(d), OutAccepted(d),
         chain_seq_no_'[1] \in Nat, chain_seq_no_[1] <= chain_seq_no_'[1],
         \A s \in S : s <= chain_seq_no_'[1],
         \A x \in AcceptedOf(d)' \ Ran(d) : \A y \in Batch(S) :
            x < y => x \in Batch(S) \/ x \in Range(out[q][d])
  PROVE  /\ OutInLine(d)' /\ OutAccepted(d)'
         /\ \A p \in Replicas : Range(out[p][d]) \subseteq Range(out'[p][d])
         /\ Batch(S) \cap RequestsOf(d) \subseteq Range(out'[q][d])
  <1>0. PICK to \in [Batch(S) -> Receivers] : SentAs(q, S, to)
    BY SendFull, Zenon
  <1> DEFINE T == {x \in Batch(S) : to[x] = d}
             A == AcceptedOf(d)'
             o == out[q][d]
  <1>1. T \in SUBSET Nat /\ IsFiniteSet(T) /\ Batch(S) \cap RequestsOf(d) \subseteq T
    <2>1. T \in SUBSET Requests
      BY DEF Batch
    <2>2. T \in SUBSET Nat /\ IsFiniteSet(T)
      BY <2>1, RequestsFinite, FS_Subset, Zenon
    <2>3. ASSUME NEW x \in Batch(S) \cap RequestsOf(d)
          PROVE  to[x] = d
      <3>1. route[x] = d /\ d # Any
        BY RequestTypes, ForwardingAssumption
      <3>2. QED
        BY <1>0, <3>1, Zenon DEF SentAs, To
    <2>4. QED
      BY <2>2, <2>3
  <1>2. \A p \in Replicas : out'[p][d] = IF p = q THEN o \o InOrder(T) ELSE out[p][d]
    BY <1>0, Zenon DEF SentAs
  <1>3. chain_seq_no_[1] \in Nat
    BY DEF IInv, TypeInv, SenderType, Replicas
  <1>4. /\ A = {x \in RequestsOf(d) : Command(x) <= chain_seq_no_'[1]}
        /\ Ran(d)' = Ran(d) /\ RequestsOf(d)' = RequestsOf(d)
    BY Zenon DEF AcceptedOf, Ran, RequestsOf
  <1>5. ASSUME NEW p \in Replicas
        PROVE  InLine(out[p][d], A, Ran(d))
    BY AcceptInLine
  <1>6. \A y \in T : \A x \in A : x < y => x \in T \/ x \in Ran(d) \/ x \in Range(o)
    BY <1>1, <1>4
  <1>7. o \in Seq(Int)
    BY OutSeq, Zenon
  <1>8. InLine(o \o InOrder(T), A, Ran(d)) /\ Range(o) \cup T \subseteq Range(o \o InOrder(T))
    <2>1. InLine(o, A, Ran(d))
      BY <1>5
    <2> HIDE DEF A, T, o
    <2>2. QED
      BY <1>1, <1>6, <1>7, <2>1, InLineConcat
  <1>9. OutInLine(d)'
    <2>1. ASSUME NEW p \in Replicas
          PROVE  InLine(out'[p][d], A, Ran(d))
      <3> HIDE DEF A, T
      <3> QED  BY <1>2, <1>5, <1>8, Zenon
    <2>2. QED
      BY <1>4, <2>1, Zenon DEF OutInLine
  <1>10. OutAccepted(d)'
    <2>1. ASSUME NEW p \in Replicas, NEW i \in DOMAIN out[p][d]
          PROVE  Command(out[p][d][i]) <= chain_seq_no_'[1]
      BY AcceptInLine, Zenon
    <2>2. InOrder(T) \in Seq(T)
      BY <1>1, InOrderType
    <2>3. \A y \in T : Command(y) <= chain_seq_no_'[1]
      BY DEF Batch
    <2> DEFINE e == InOrder(T)
               c == o \o e
    <2> HIDE DEF T, e
    <2>4. ASSUME NEW i \in DOMAIN c
          PROVE  Command(c[i]) <= chain_seq_no_'[1]
      <3>1. \/ i \in DOMAIN o /\ c[i] = o[i]
            \/ c[i] \in T
        <4>1. e \in Seq(T)
          BY <2>2 DEF e
        <4> HIDE DEF o
        <4>2. QED
          BY <1>7, <4>1
      <3>2. QED
        BY <2>1, <2>3, <3>1, Zenon
    <2>5. \A p \in Replicas : out'[p][d] = IF p = q THEN c ELSE out[p][d]
      BY <1>2, Zenon DEF e
    <2> HIDE DEF c, o
    <2>6. ASSUME NEW p \in Replicas, NEW i \in DOMAIN out'[p][d]
          PROVE  Command(out'[p][d][i]) <= chain_seq_no_'[1]
      BY <2>1, <2>4, <2>5, Zenon
    <2>7. QED
      BY <2>6, Zenon DEF OutAccepted, Command
  <1>11. QED
    BY <1>1, <1>2, <1>8, <1>9, <1>10, Zenon

-----------------------------------------------------------------------------
(***************************************************************************)
(* The steps that only change where the repair stands                      *)
(***************************************************************************)
LEMMA DeliverIf ==
  ASSUME DeliverInv, UNCHANGED <<route, chain_seq_no_, out, last_seen_seq_, ran>>,
         (2 \in alive' /\ (2 \in failed' \/ mgr' = "idle")) =>
            (2 \in alive /\ (2 \in failed \/ mgr = "idle")),
         (2 \in failed' /\ mgr' = "idle") => (2 \in failed /\ mgr = "idle")
  PROVE  DeliverInv'
  <1> SUFFICES ASSUME NEW d \in Receivers
               PROVE  (MarkBelow(d) /\ OutAccepted(d) /\ OutInLine(d) /\ OnTheWay(d))'
    BY Zenon DEF DeliverInv
  <1>0. MarkBelow(d) /\ OutAccepted(d) /\ OutInLine(d) /\ OnTheWay(d)
    BY Zenon DEF DeliverInv
  <1>1. /\ RequestsOf(d)' = RequestsOf(d) /\ Ran(d)' = Ran(d)
        /\ AcceptedOf(d)' = AcceptedOf(d)
    BY Zenon DEF RequestsOf, Ran, AcceptedOf, Command
  <1>2. MarkBelow(d)'
    BY <1>0, <1>1, Zenon DEF MarkBelow, Command
  <1>3. OutAccepted(d)'
    BY <1>0, Zenon DEF OutAccepted, Command
  <1>4. OutInLine(d)'
    BY <1>0, <1>1, Zenon DEF OutInLine
  <1>5. OnTheWay(d)'
    BY <1>0, <1>1, Zenon DEF OnTheWay, Command
  <1>6. QED
    BY <1>2, <1>3, <1>4, <1>5

(***************************************************************************)
(* The head of the chain issues the next command.                          *)
(***************************************************************************)
LEMMA DeliverSubmit ==
  ASSUME QuietRepair, IInv, ControlInv, OrderInv, DeliverInv, Submit
  PROVE  DeliverInv'
  <1> SUFFICES ASSUME NEW d \in Receivers
               PROVE  (MarkBelow(d) /\ OutAccepted(d) /\ OutInLine(d) /\ OnTheWay(d))'
    BY Zenon DEF DeliverInv
  <1> DEFINE s == chain_seq_no_[1] + 1
  <1>0. /\ MarkBelow(d) /\ OutAccepted(d) /\ OutInLine(d) /\ OnTheWay(d)
        /\ chain_seq_no_[1] \in Nat /\ chain_seq_no_[2] \in Nat
        /\ chain_seq_no_[2] <= chain_seq_no_[1] /\ 1 \in Replicas /\ 2 \in Replicas
    BY DEF DeliverInv, IInv, TypeInv, SenderType, Replicas, OrderInv
  <1>1. /\ mgr = "idle" /\ connected = Receivers
        /\ UNCHANGED <<route, ran, last_seen_seq_, alive, failed, mgr>>
    BY DEF Submit, Quiet, ControlInv, receiverVars, mgrVars
  <1>2. chain_seq_no_'[1] = s /\ chain_seq_no_'[2] = chain_seq_no_[2]
    <2>1. chain_seq_no_' = [chain_seq_no_ EXCEPT ![1] = s]
      BY Zenon DEF Submit, Run
    <2>2. chain_seq_no_ \in [Replicas -> Nat]
      BY Zenon DEF IInv, TypeInv, SenderType
    <2> HIDE DEF s
    <2>3. QED
      BY <2>1, <2>2 DEF Replicas
  <1>3. /\ s \in Nat /\ chain_seq_no_[1] <= s /\ s > chain_seq_no_[1] /\ s > chain_seq_no_[2]
        /\ chain_seq_no_'[1] \in Nat /\ chain_seq_no_[1] <= chain_seq_no_'[1]
    BY <1>0, <1>2
  <1>4. Ran(d)' = Ran(d) /\ RequestsOf(d)' = RequestsOf(d)
    BY <1>1 DEF Ran, RequestsOf
  <1>5. ASSUME NEW x \in AcceptedOf(d)', x \notin AcceptedOf(d)
        PROVE  x \in Batch({s}) \cap RequestsOf(d) /\ Command(x) > chain_seq_no_[2]
    <2>1. x \in RequestsOf(d) /\ Command(x) <= s /\ ~(Command(x) <= chain_seq_no_[1])
      BY <1>2, <1>4, <1>5 DEF AcceptedOf, Command
    <2>2. Command(x) \in Nat /\ x \in Requests
      BY <2>1, RequestTypes
    <2>3. Command(x) = s
      BY <1>0, <2>1, <2>2
    <2>4. QED
      BY <1>3, <2>1, <2>2, <2>3 DEF Batch
  <1>6. MarkBelow(d)'
    BY <1>0, <1>1, <1>3, AcceptMark
  <1> HIDE DEF s
  <1>7. CASE ~is_tail(1)
    <2>1. out' = out /\ 2 \notin failed
      BY <1>1, <1>7 DEF Submit, is_tail, ControlInv
    <2>2. OutInLine(d)' /\ OutAccepted(d)'
      <3>1. \A p \in Replicas :
               /\ InLine(out[p][d], AcceptedOf(d)', Ran(d))
               /\ \A i \in DOMAIN out[p][d] : Command(out[p][d][i]) <= chain_seq_no_'[1]
        BY <1>0, <1>1, <1>3, AcceptInLine, Zenon
      <3>2. QED
        BY <1>4, <2>1, <3>1, Zenon DEF OutInLine, OutAccepted, Command
    <2>3. OnTheWay(d)'
      BY <1>0, <1>1, <1>2, <1>4, <1>5, <2>1, Zenon DEF OnTheWay, Command
    <2>4. QED
      BY <1>6, <2>2, <2>3
  <1>8. CASE is_tail(1)
    <2>1. Send(1, {s}) /\ 2 \in failed
      BY <1>8, <1>1 DEF Submit, is_tail, ControlInv, s
    <2>2. \A t \in {s} : t <= chain_seq_no_'[1]
      BY <1>2, <1>3
    <2>3. AcceptedOf(d) \ Ran(d) \subseteq Range(out[1][d])
      BY <1>0, <1>1, <2>1, Zenon DEF OnTheWay
    <2>4. \A x \in AcceptedOf(d)' \ Ran(d) : x \in Batch({s}) \/ x \in Range(out[1][d])
      BY <1>5, <2>3, Zenon
    <2>5. /\ OutInLine(d)' /\ OutAccepted(d)'
          /\ \A p \in Replicas : Range(out[p][d]) \subseteq Range(out'[p][d])
          /\ Batch({s}) \cap RequestsOf(d) \subseteq Range(out'[1][d])
      BY <1>0, <1>1, <1>3, <2>1, <2>2, <2>4, SendInLine, Zenon
    <2>6. OnTheWay(d)'
      BY <1>0, <1>1, <1>2, <1>4, <1>5, <2>3, <2>5, Zenon DEF OnTheWay, Command
    <2>7. QED
      BY <1>6, <2>5, <2>6, Zenon
  <1>9. QED
    BY <1>7, <1>8

(***************************************************************************)
(* Replica 2 reads the next command and sends its requests.                *)
(***************************************************************************)
LEMMA DeliverChainRequest ==
  ASSUME QuietRepair, IInv, ControlInv, OrderInv, DeliverInv, ChainRequest
  PROVE  DeliverInv'
  <1> SUFFICES ASSUME NEW d \in Receivers
               PROVE  (MarkBelow(d) /\ OutAccepted(d) /\ OutInLine(d) /\ OnTheWay(d))'
    BY Zenon DEF DeliverInv
  <1> DEFINE h == Head(chain)
  <1>0. /\ MarkBelow(d) /\ OutAccepted(d) /\ OutInLine(d) /\ OnTheWay(d)
        /\ chain_seq_no_[1] \in Nat /\ chain_seq_no_[2] \in Nat
        /\ 1 \in Replicas /\ 2 \in Replicas
    BY DEF DeliverInv, IInv, TypeInv, SenderType, Replicas
  <1>1. /\ mgr = "idle" /\ connected = Receivers /\ 2 \in alive
        /\ UNCHANGED <<route, ran, last_seen_seq_, alive, failed, mgr>>
    BY DEF ChainRequest, Quiet, ControlInv, receiverVars, mgrVars
  <1>2. h = chain_seq_no_[2] + 1 /\ h <= chain_seq_no_[1] /\ h \in Nat
    <2>1. chain \in Seq(Commands) /\ chain # <<>>
      BY DEF IInv, TypeInv, SenderType, ChainRequest
    <2>2. Len(chain) \in Nat /\ Len(chain) >= 1 /\ 1 \in DOMAIN chain /\ h = chain[1]
      BY <2>1
    <2>3. /\ chain[1] = chain_seq_no_[2] + 1
          /\ chain_seq_no_[2] + Len(chain) <= chain_seq_no_[1]
      BY <1>1, <2>2, Zenon DEF OrderInv, ChainOrder
    <2> HIDE DEF h
    <2>4. QED
      BY <1>0, <2>2, <2>3
  <1>3. chain_seq_no_'[2] = h /\ chain_seq_no_'[1] = chain_seq_no_[1]
    BY <1>0 DEF ChainRequest, Run, IInv, TypeInv, SenderType
  <1>4. Send(2, {h})
    BY Zenon DEF ChainRequest
  <1> HIDE DEF h
  <1>5. /\ Ran(d)' = Ran(d) /\ RequestsOf(d)' = RequestsOf(d) /\ AcceptedOf(d)' = AcceptedOf(d)
        /\ chain_seq_no_'[1] \in Nat /\ chain_seq_no_[1] <= chain_seq_no_'[1]
    <2>1. Ran(d)' = Ran(d) /\ RequestsOf(d)' = RequestsOf(d) /\ AcceptedOf(d)' = AcceptedOf(d)
      BY <1>1, <1>3, Zenon DEF Ran, RequestsOf, AcceptedOf, Command
    <2>2. chain_seq_no_[1] \in Nat /\ chain_seq_no_'[1] = chain_seq_no_[1]
      BY <1>0, <1>3, Zenon
    <2>3. chain_seq_no_'[1] \in Nat /\ chain_seq_no_[1] <= chain_seq_no_'[1]
      BY <2>2
    <2>4. QED
      BY <2>1, <2>3
  <1>6. MarkBelow(d)'
    BY <1>0, <1>1, <1>5, AcceptMark
  <1>7. ASSUME NEW x \in AcceptedOf(d) \ Ran(d)
        PROVE  /\ Command(x) > h \/ x \in Batch({h}) \cap RequestsOf(d) \/ x \in Range(out[2][d])
               /\ \A y \in Batch({h}) : x < y => ~(Command(x) > h)
    <2>1. x \in RequestsOf(d)
      BY DEF AcceptedOf
    <2>2. x \in Requests /\ x \in Int /\ Command(x) \in Nat
      BY <2>1, RequestTypes
    <2>3. Command(x) > chain_seq_no_[2] \/ x \in Range(out[2][d])
      BY <1>0, <1>1, Zenon DEF OnTheWay
    <2>4. Command(x) > chain_seq_no_[2] => Command(x) > h \/ Command(x) = h
      BY <1>0, <1>2, <2>2
    <2>5. Command(x) = h => x \in Batch({h})
      BY <2>2 DEF Batch
    <2>6. ASSUME NEW y \in Batch({h}), x < y
          PROVE  ~(Command(x) > h)
      <3>1. y \in Requests /\ y \in Int /\ Command(y) = h
        BY RequestsInt DEF Batch
      <3>2. QED
        BY <1>2, <2>2, <2>6, <3>1, LaterIsLarger
    <2>7. QED
      BY <2>1, <2>3, <2>4, <2>5, <2>6
  <1>8. \A s \in {h} : s <= chain_seq_no_'[1]
    BY <1>2, <1>3
  <1>9. \A x \in AcceptedOf(d)' \ Ran(d) : \A y \in Batch({h}) :
           x < y => x \in Batch({h}) \/ x \in Range(out[2][d])
    BY <1>5, <1>7, Zenon
  <1>10. /\ OutInLine(d)' /\ OutAccepted(d)'
         /\ \A p \in Replicas : Range(out[p][d]) \subseteq Range(out'[p][d])
         /\ Batch({h}) \cap RequestsOf(d) \subseteq Range(out'[2][d])
    BY <1>0, <1>1, <1>4, <1>5, <1>8, <1>9, SendInLine, Zenon
  <1>11. OnTheWay(d)'
    <2>1. \A x \in AcceptedOf(d) \ Ran(d) : Command(x) > h \/ x \in Range(out'[2][d])
      BY <1>0, <1>7, <1>10, Zenon
    <2>2. (2 \in failed /\ mgr = "idle") => AcceptedOf(d) \ Ran(d) \subseteq Range(out'[1][d])
      BY <1>0, <1>10, Zenon DEF OnTheWay
    <2>3. QED
      BY <1>1, <1>3, <1>5, <2>1, <2>2, Zenon DEF OnTheWay, Command
  <1>12. QED
    BY <1>6, <1>10, <1>11, Zenon

(***************************************************************************)
(* A receiver reads a request: either a duplicate of one it has run, or    *)
(* one before which it has run all it has to.                              *)
(***************************************************************************)
LEMMA DeliverAsyncOperation ==
  ASSUME IInv, DeliverInv, NEW q \in Replicas, NEW e \in Receivers, AsyncOperation(q, e)
  PROVE  DeliverInv'
  <1> SUFFICES ASSUME NEW d \in Receivers
               PROVE  (MarkBelow(d) /\ OutAccepted(d) /\ OutInLine(d) /\ OnTheWay(d))'
    BY Zenon DEF DeliverInv
  <1>0. /\ MarkBelow(d) /\ OutAccepted(d) /\ OutInLine(d) /\ OnTheWay(d)
        /\ chain_seq_no_[1] \in Nat /\ last_seen_seq_[d] \in Int
    BY DEF DeliverInv, IInv, TypeInv, SenderType, RanType, Replicas
  <1>1. UNCHANGED <<route, chain_seq_no_, alive, failed, mgr>>
    BY Zenon DEF AsyncOperation, senderVars, mgrVars
  <1>2. RequestsOf(d)' = RequestsOf(d) /\ AcceptedOf(d)' = AcceptedOf(d)
    BY <1>1, Zenon DEF RequestsOf, AcceptedOf, Command
  <1>3. SUFFICES /\ Ran(d) \subseteq Ran(d)'
                 /\ \A x \in RequestsOf(d) : Command(x) > chain_seq_no_[1] => x > last_seen_seq_'[d]
                 /\ \A x \in AcceptedOf(d) : x <= last_seen_seq_'[d] => x \in Ran(d)'
                 /\ \A p \in Replicas :
                       /\ \A i \in DOMAIN out'[p][d] : Command(out'[p][d][i]) <= chain_seq_no_[1]
                       /\ InLine(out'[p][d], AcceptedOf(d), Ran(d)')
                       /\ AcceptedOf(d) \cap Range(out[p][d]) \subseteq Ran(d)' \cup Range(out'[p][d])
    <2>1. 1 \in Replicas /\ 2 \in Replicas
      BY Zenon DEF Replicas
    <2>2. MarkBelow(d)' /\ OutAccepted(d)' /\ OutInLine(d)'
      BY <1>1, <1>2, <1>3, Zenon DEF MarkBelow, OutAccepted, OutInLine, Command
    <2>3. OnTheWay(d)'
      BY <1>0, <1>1, <1>2, <1>3, <2>1, Zenon DEF OnTheWay, Command
    <2>4. QED
      BY <2>2, <2>3, Zenon
  <1>4. CASE d # e
    <2>1. /\ ran'[d] = ran[d] /\ last_seen_seq_'[d] = last_seen_seq_[d]
          /\ \A p \in Replicas : out'[p][d] = out[p][d]
      <3>1. ran'[d] = ran[d] /\ last_seen_seq_'[d] = last_seen_seq_[d]
        BY <1>4 DEF AsyncOperation, IInv, TypeInv, RanType
      <3>2. \A p \in Replicas : out'[p][d] = out[p][d]
        BY <1>4 DEF AsyncOperation, IInv, TypeInv, OutType
      <3>3. QED
        BY <3>1, <3>2, Zenon
    <2>2. Ran(d)' = Ran(d)
      BY <2>1, Zenon DEF Ran
    <2>3. QED
      BY <1>0, <2>1, <2>2, Zenon DEF MarkBelow, OutAccepted, OutInLine
  <1>5. CASE d = e
    <2> DEFINE o == out[q][d]
               y == Head(o)
    <2>1. o \in Seq(Int) /\ o # <<>> /\ y = o[1] /\ 1 \in DOMAIN o /\ y \in MayGo(d)
      <3>1. o \in Seq(Int) /\ o \in Seq(MayGo(d)) /\ o # <<>>
        BY <1>5, OutSeq DEF AsyncOperation
      <3>2. QED
        BY <3>1
    <2>2. y \in Requests /\ y \in Int /\ Command(y) <= chain_seq_no_[1]
      BY <1>0, <2>1, MayGoTypes, Zenon DEF OutAccepted
    <2>3. \A p \in Replicas : out'[p][d] = IF p = q THEN Tail(o) ELSE out[p][d]
      BY <1>5, Zenon DEF AsyncOperation, IInv, TypeInv, OutType
    <2>4. /\ Ran(d) \subseteq Ran(d)' /\ (y \in AcceptedOf(d) => y \in Ran(d)')
          /\ \/ last_seen_seq_'[d] = last_seen_seq_[d]
             \/ last_seen_seq_'[d] = y /\ y \in Ran(d)'
      <3>1. CASE IsDuplicate(d, y)
        <4>1. ran' = ran /\ last_seen_seq_' = last_seen_seq_
          BY <1>5, <3>1 DEF AsyncOperation
        <4>2. y \in AcceptedOf(d) => y \in Ran(d)
          BY <1>0, <2>2, <3>1, Zenon DEF IsDuplicate, MarkBelow
        <4>3. QED
          BY <4>1, <4>2, Zenon DEF Ran
      <3>2. CASE ~IsDuplicate(d, y)
        <4>1. ran[d] \in Seq(Requests)
          BY DEF IInv, TypeInv, RanType
        <4>2. ran'[d] = Append(ran[d], y) /\ last_seen_seq_'[d] = y
          BY <1>5, <3>2, Zenon DEF AsyncOperation, IInv, TypeInv, RanType
        <4> HIDE DEF y, o
        <4>3. \A i \in DOMAIN ran[d] : i \in DOMAIN ran'[d] /\ ran'[d][i] = ran[d][i]
          BY <2>2, <4>1, <4>2, SMTT(30)
        <4>4. (Len(ran[d]) + 1) \in DOMAIN ran'[d] /\ ran'[d][Len(ran[d]) + 1] = y
          BY <2>2, <4>1, <4>2
        <4>5. QED
          BY <4>2, <4>3, <4>4, Zenon DEF Ran, Range
      <3>3. QED
        BY <3>1, <3>2, Zenon
    <2>5. InLine(o, AcceptedOf(d), Ran(d))
      BY <1>0, Zenon DEF OutInLine
    <2>6. /\ InLine(Tail(o), AcceptedOf(d), Ran(d)')
          /\ AcceptedOf(d) \cap Range(o) \subseteq Ran(d)' \cup Range(Tail(o))
          /\ \A x \in AcceptedOf(d) : x < y => x \in Ran(d)
      BY <2>1, <2>4, <2>5, InLineTail, Zenon
    <2>7. \A i \in DOMAIN Tail(o) : Command(Tail(o)[i]) <= chain_seq_no_[1]
      <3>1. \A i \in DOMAIN Tail(o) : i + 1 \in DOMAIN o /\ Tail(o)[i] = o[i + 1]
        <4>1. o \in Seq(Int) /\ o # <<>>
          BY <2>1, Zenon
        <4> HIDE DEF o
        <4>2. QED
          BY <4>1
      <3>2. QED
        BY <1>0, <3>1, Zenon DEF OutAccepted
    <2>8. \A p \in Replicas : InLine(out[p][d], AcceptedOf(d), Ran(d)')
      BY <1>0, <2>4, InLineMore, Zenon DEF OutInLine
    <2>9. ASSUME NEW x \in RequestsOf(d)
          PROVE  /\ Command(x) > chain_seq_no_[1] => x > last_seen_seq_'[d]
                 /\ x \in AcceptedOf(d) /\ x <= last_seen_seq_'[d] => x \in Ran(d)'
      <3>1. x \in Requests /\ x \in Int
        BY RequestTypes
      <3>2. CASE last_seen_seq_'[d] = last_seen_seq_[d]
        BY <1>0, <2>4, <3>2, Zenon DEF MarkBelow
      <3>3. CASE last_seen_seq_'[d] = y /\ y \in Ran(d)'
        <4>1. Command(x) > chain_seq_no_[1] => x > y
          BY <1>0, <2>2, <3>1, LaterIsLarger
        <4>2. x <= y => x = y \/ x < y
          BY <2>2, <3>1
        <4> HIDE DEF y, o
        <4>3. QED
          BY <2>4, <2>6, <3>3, <4>1, <4>2, Zenon
      <3>4. QED
        BY <2>4, <3>2, <3>3, Zenon
    <2>10. AcceptedOf(d) \subseteq RequestsOf(d)
      BY DEF AcceptedOf
    <2> HIDE DEF o, y
    <2>11. \A p \in Replicas :
              /\ \A i \in DOMAIN out'[p][d] : Command(out'[p][d][i]) <= chain_seq_no_[1]
              /\ InLine(out'[p][d], AcceptedOf(d), Ran(d)')
              /\ AcceptedOf(d) \cap Range(out[p][d]) \subseteq Ran(d)' \cup Range(out'[p][d])
      <3> SUFFICES ASSUME NEW p \in Replicas
                   PROVE  /\ \A i \in DOMAIN out'[p][d] : Command(out'[p][d][i]) <= chain_seq_no_[1]
                          /\ InLine(out'[p][d], AcceptedOf(d), Ran(d)')
                          /\ AcceptedOf(d) \cap Range(out[p][d])
                                \subseteq Ran(d)' \cup Range(out'[p][d])
        BY Zenon
      <3>1. CASE p = q
        <4>1. out'[p][d] = Tail(o) /\ out[p][d] = o
          BY <2>3, <3>1, Zenon DEF o
        <4>2. QED
          BY <2>6, <2>7, <4>1, Zenon
      <3>2. CASE p # q
        <4>1. out'[p][d] = out[p][d]
          BY <2>3, <3>2, Zenon
        <4>2. QED
          BY <1>0, <2>8, <4>1, Zenon DEF OutAccepted
      <3>3. QED
        BY <3>1, <3>2, Zenon
    <2>12. QED
      BY <2>4, <2>9, <2>10, <2>11, Zenon
  <1>6. QED
    BY <1>4, <1>5, Zenon

(***************************************************************************)
(* A connection of replica 2 keeps a prefix of what was on it.             *)
(***************************************************************************)
LEMMA DeliverCrash ==
  ASSUME IInv, DeliverInv, Crash
  PROVE  DeliverInv'
  <1> SUFFICES ASSUME NEW d \in Receivers
               PROVE  (MarkBelow(d) /\ OutAccepted(d) /\ OutInLine(d) /\ OnTheWay(d))'
    BY Zenon DEF DeliverInv
  <1>0. /\ MarkBelow(d) /\ OutAccepted(d) /\ OutInLine(d) /\ OnTheWay(d)
        /\ 1 \in Replicas /\ 2 \in Replicas
    BY DEF DeliverInv, Replicas
  <1>1. /\ UNCHANGED <<route, chain_seq_no_, ran, last_seen_seq_, failed, mgr>>
        /\ 2 \notin alive'
    BY DEF Crash, receiverVars, mgrVars
  <1>2. /\ RequestsOf(d)' = RequestsOf(d) /\ AcceptedOf(d)' = AcceptedOf(d) /\ Ran(d)' = Ran(d)
    BY <1>1, Zenon DEF RequestsOf, AcceptedOf, Ran, Command
  <1>3. PICK k \in Nat : /\ k <= Len(out[2][d])
                         /\ \A p \in Replicas : out'[p][d] = IF p = 2 THEN SubSeq(out[2][d], 1, k)
                                                                     ELSE out[p][d]
    <2>1. PICK kept \in [Receivers -> 0..Cardinality(Requests)] :
            /\ \A e \in Receivers : kept[e] <= Len(out[2][e])
            /\ out' = [out EXCEPT ![2] = [e \in Receivers |-> SubSeq(out[2][e], 1, kept[e])]]
      BY Zenon DEF Crash
    <2>2. Cardinality(Requests) \in Nat
      BY RequestsFinite, FS_CardinalityType
    <2>3. kept[d] \in Nat /\ kept[d] <= Len(out[2][d])
      BY <2>1, <2>2
    <2>4. \A p \in Replicas : out'[p][d] = IF p = 2 THEN SubSeq(out[2][d], 1, kept[d]) ELSE out[p][d]
      BY <2>1 DEF IInv, TypeInv, OutType
    <2>5. QED
      BY <2>3, <2>4, Zenon
  <1>4. out[2][d] \in Seq(Int)
    BY <1>0, OutSeq
  <1>5. MarkBelow(d)'
    BY <1>0, <1>1, <1>2, Zenon DEF MarkBelow, Command
  <1>6. OnTheWay(d)'
    <2>1. out'[1][d] = out[1][d]
      <3>1. out'[1][d] = IF 1 = 2 THEN SubSeq(out[2][d], 1, k) ELSE out[1][d]
        BY <1>0, <1>3, Zenon
      <3>2. QED
        BY <3>1
    <2>2. QED
      BY <1>0, <1>1, <1>2, <2>1, Zenon DEF OnTheWay
  <1>7. ASSUME NEW p \in Replicas
        PROVE  /\ InLine(out'[p][d], AcceptedOf(d), Ran(d))
               /\ \A i \in DOMAIN out'[p][d] : Command(out'[p][d][i]) <= chain_seq_no_[1]
    <2>1. CASE p = 2
      <3> DEFINE o == out[2][d]
                 t == SubSeq(o, 1, k)
      <3>1. InLine(o, AcceptedOf(d), Ran(d)) /\ out'[p][d] = t
        BY <1>0, <1>3, <2>1, Zenon DEF OutInLine
      <3>2. InLine(t, AcceptedOf(d), Ran(d))
        BY <1>3, <1>4, <3>1, InLinePrefix, Zenon
      <3>3. \A i \in DOMAIN t : i \in DOMAIN o /\ t[i] = o[i]
        <4>1. o \in Seq(Int) /\ k \in Nat /\ k <= Len(o)
          BY <1>3, <1>4, Zenon
        <4> HIDE DEF o
        <4>2. QED
          BY <4>1, SMTT(30)
      <3>4. QED
        BY <1>0, <3>1, <3>2, <3>3, Zenon DEF OutAccepted
    <2>2. CASE p # 2
      <3>1. out'[p][d] = out[p][d]
        BY <1>3, <2>2
      <3>2. QED
        BY <1>0, <3>1, Zenon DEF OutInLine, OutAccepted
    <2>3. QED
      BY <2>1, <2>2
  <1>8. OutInLine(d)' /\ OutAccepted(d)'
    BY <1>1, <1>2, <1>7, Zenon DEF OutInLine, OutAccepted, Command
  <1>9. QED
    BY <1>5, <1>6, <1>8

(***************************************************************************)
(* The successor of a head that is gone has run a prefix of what the head  *)
(* had, and its mark is the last of it.                                    *)
(***************************************************************************)
LEMMA DeliverFailReceiver ==
  ASSUME IInv, DeliverInv, NEW e \in Receivers, FailReceiver(e)
  PROVE  DeliverInv'
  <1> SUFFICES ASSUME NEW d \in Receivers
               PROVE  (MarkBelow(d) /\ OutAccepted(d) /\ OutInLine(d) /\ OnTheWay(d))'
    BY Zenon DEF DeliverInv
  <1>0. /\ MarkBelow(d) /\ OutAccepted(d) /\ OutInLine(d)
        /\ chain_seq_no_[1] \in Nat /\ last_seen_seq_[d] \in Int
    BY DEF DeliverInv, IInv, TypeInv, SenderType, RanType, Replicas
  <1>1. UNCHANGED <<route, chain_seq_no_>> /\ mgr' # "idle" /\ 2 \notin failed'
    BY ForwardingAssumption, Zenon DEF FailReceiver, senderVars
  <1>2. RequestsOf(d)' = RequestsOf(d) /\ AcceptedOf(d)' = AcceptedOf(d)
    BY <1>1, Zenon DEF RequestsOf, AcceptedOf, Command
  <1>3. OnTheWay(d)'
    BY <1>1, Zenon DEF OnTheWay
  <1>4. CASE d # e
    <2>1. /\ ran'[d] = ran[d] /\ last_seen_seq_'[d] = last_seen_seq_[d]
          /\ \A p \in Replicas : out'[p][d] = out[p][d]
      BY <1>4 DEF FailReceiver, IInv, TypeInv, OutType, RanType
    <2>2. Ran(d)' = Ran(d)
      BY <2>1, Zenon DEF Ran
    <2>3. MarkBelow(d)' /\ OutAccepted(d)' /\ OutInLine(d)'
      BY <1>0, <1>1, <1>2, <2>1, <2>2, Zenon DEF MarkBelow, OutAccepted, OutInLine, Command
    <2>4. QED
      BY <1>3, <2>3
  <1>5. CASE d = e
    <2>1. PICK k \in copied[d]..Len(ran[d]) :
            ran'[d] = SubSeq(ran[d], 1, k) /\ last_seen_seq_'[d] = LastRun(d, k)
      BY <1>5, Zenon DEF FailReceiver, IInv, TypeInv, RanType
    <2>2. /\ k \in Nat /\ k <= Len(ran[d]) /\ ran[d] \in Seq(MayGo(d))
          /\ DOMAIN ran[d] = 1..Len(ran[d]) /\ Len(ran[d]) \in Nat
      <3>1. ran[d] \in Seq(MayGo(d)) /\ copied[d] \in Nat
        BY DEF IInv, TypeInv, RanType
      <3>2. Len(ran[d]) \in Nat /\ DOMAIN ran[d] = 1..Len(ran[d])
        BY <3>1
      <3>3. k \in Nat /\ k <= Len(ran[d])
        BY <3>1, <3>2
      <3>4. QED
        BY <3>1, <3>2, <3>3
    <2>3. \A i \in DOMAIN ran[d] : ran[d][i] \in Int /\ ran[d][i] >= 0
      <3>1. \A i \in DOMAIN ran[d] : ran[d][i] \in MayGo(d)
        BY <2>2
      <3>2. QED
        BY <3>1, MayGoTypes, Zenon
    <2>4. \A i \in 1..k : i \in DOMAIN ran'[d] /\ ran'[d][i] = ran[d][i] /\ i \in DOMAIN ran[d]
      <3> DEFINE o == ran[d]
                 t == SubSeq(o, 1, k)
      <3>1. ran'[d] = t /\ o \in Seq(MayGo(d)) /\ k \in Nat /\ k <= Len(o)
        BY <2>1, <2>2, Zenon
      <3> HIDE DEF o
      <3>2. \A i \in 1..k : i \in DOMAIN t /\ t[i] = o[i] /\ i \in DOMAIN o
        BY <3>1
      <3>3. QED
        BY <3>1, <3>2, Zenon DEF o
    <2>5. \/ last_seen_seq_'[d] \in Int /\ last_seen_seq_'[d] <= last_seen_seq_[d]
          \/ last_seen_seq_'[d] = -1
      <3>1. CASE k = 0
        BY <2>1, <3>1, Zenon DEF LastRun
      <3>2. CASE k # 0
        <4>1. k \in DOMAIN ran[d] /\ last_seen_seq_'[d] = ran[d][k]
          BY <2>1, <2>2, <3>2, SMTT(30) DEF LastRun
        <4>2. QED
          BY <2>3, <4>1, Zenon DEF IInv, MarkInv
      <3>3. QED
        BY <3>1, <3>2
    <2>6. ASSUME NEW x \in RequestsOf(d), Command(x) > chain_seq_no_[1]
          PROVE  x > last_seen_seq_'[d]
      <3>1. x \in Int /\ x >= 0 /\ x > last_seen_seq_[d]
        BY <1>0, <2>6, RequestTypes, Zenon DEF MarkBelow
      <3>2. last_seen_seq_[d] \in Int
        BY <1>0, Zenon
      <3>3. CASE last_seen_seq_'[d] = -1
        BY <3>1, <3>3, SMTT(30)
      <3>4. CASE last_seen_seq_'[d] \in Int /\ last_seen_seq_'[d] <= last_seen_seq_[d]
        BY <3>1, <3>2, <3>4
      <3>5. QED
        BY <2>5, <3>3, <3>4, Zenon
    <2>7. ASSUME NEW x \in AcceptedOf(d), x <= last_seen_seq_'[d]
          PROVE  x \in Range(ran'[d])
      <3>1. x \in RequestsOf(d)
        BY DEF AcceptedOf
      <3>2. x \in Int /\ x >= 0
        BY <3>1, RequestTypes
      <3>3. k # 0 /\ k \in DOMAIN ran[d] /\ last_seen_seq_'[d] = ran[d][k]
        <4>1. last_seen_seq_'[d] = IF k = 0 THEN -1 ELSE ran[d][k]
          BY <2>1, Zenon DEF LastRun
        <4>2. k # 0
          BY <2>7, <3>2, <4>1, SMTT(30)
        <4>3. k \in DOMAIN ran[d]
          BY <2>2, <4>2
        <4>4. QED
          BY <4>1, <4>2, <4>3, Zenon
      <3>4. ran[d][k] <= last_seen_seq_[d] /\ ran[d][k] \in Int
        BY <2>3, <3>3, Zenon DEF IInv, MarkInv
      <3>5. x <= last_seen_seq_[d]
        <4>1. x <= ran[d][k] /\ last_seen_seq_[d] \in Int
          BY <1>0, <2>7, <3>3, Zenon
        <4>2. QED
          BY <3>2, <3>4, <4>1
      <3>6. PICK i \in DOMAIN ran[d] : ran[d][i] = x
        BY <1>0, <3>5, Zenon DEF MarkBelow, Ran, Range
      <3>7. ~(k < i)
        <4>1. k < i => ran[d][k] < ran[d][i]
          BY <3>3, Zenon DEF IInv, MarkInv
        <4>2. x <= ran[d][k] /\ ran[d][i] = x
          BY <2>7, <3>3, <3>6, Zenon
        <4>3. QED
          BY <3>2, <3>4, <4>1, <4>2, SMTT(30)
      <3>8. i \in 1..k
        <4>1. i \in 1..Len(ran[d]) /\ k \in Nat /\ Len(ran[d]) \in Nat
          BY <2>2, Zenon
        <4>2. QED
          BY <3>7, <4>1, SMTT(30)
      <3>9. QED
        BY <2>4, <3>6, <3>8, Zenon DEF Range
    <2>8. MarkBelow(d)'
      BY <1>1, <1>2, <2>6, <2>7, Zenon DEF MarkBelow, Ran, Command
    <2>9. \A p \in Replicas : out'[p][d] = <<>>
      BY <1>5 DEF FailReceiver, IInv, TypeInv, OutType
    <2>10. DOMAIN <<>> = {}
      OBVIOUS
    <2>11. OutInLine(d)' /\ OutAccepted(d)'
      BY <2>9, <2>10, Zenon DEF OutInLine, OutAccepted, InLine
    <2>12. QED
      BY <1>3, <2>8, <2>11
  <1>6. QED
    BY <1>4, <1>5

(***************************************************************************)
(* What is sent again is all that may be missing.                          *)
(***************************************************************************)
LEMMA DeliverResendPending ==
  ASSUME IInv, ControlInv, OrderInv, PlaceInv, DeliverInv, ResendPending
  PROVE  DeliverInv'
  <1> SUFFICES ASSUME NEW d \in Receivers
               PROVE  (MarkBelow(d) /\ OutAccepted(d) /\ OutInLine(d) /\ OnTheWay(d))'
    BY Zenon DEF DeliverInv
  <1> DEFINE q == IF 2 \in failed THEN 1 ELSE 2
             missing == AcceptedOf(d) \ Ran(d)
  <1>0. /\ MarkBelow(d) /\ OutAccepted(d) /\ OutInLine(d) /\ OnTheWay(d)
        /\ chain_seq_no_[1] \in Nat /\ chain_seq_no_[2] \in Nat
        /\ chain_seq_no_[2] <= chain_seq_no_[1] /\ 1 \in Replicas /\ 2 \in Replicas
        /\ q \in Replicas /\ chain_seq_no_[q] \in Nat /\ chain_seq_no_[q] <= chain_seq_no_[1]
    BY DEF DeliverInv, IInv, TypeInv, SenderType, Replicas, OrderInv
  <1>1. /\ connected = Receivers /\ mgr' = "idle" /\ Send(q, pending_[q])
        /\ UNCHANGED <<route, chain_seq_no_, ran, last_seen_seq_, alive, failed>>
    BY Zenon DEF ResendPending, ControlInv, senderVars, receiverVars
  <1>2. /\ Ran(d)' = Ran(d) /\ RequestsOf(d)' = RequestsOf(d) /\ AcceptedOf(d)' = AcceptedOf(d)
    BY <1>1, Zenon DEF Ran, RequestsOf, AcceptedOf, Command
  <1>3. chain_seq_no_'[1] \in Nat /\ chain_seq_no_[1] <= chain_seq_no_'[1]
    BY <1>0, <1>1
  <1>4. MarkBelow(d)'
    BY <1>0, <1>1, <1>3, AcceptMark
  <1>5. \A s \in 1..chain_seq_no_[q] : s \notin pending_[q] => AllAcked(s) /\ AckedOnce(s)
    <2>1. Unresent
      BY DEF ResendPending, Unresent
    <2>2. \A s \in 1..chain_seq_no_[q] : s \notin pending_[q] => AllAcked(s)
      BY Zenon DEF IInv, CountInv, ForgottenDone, OrderInv
    <2>3. QED
      BY <2>1, <2>2, OnePlace, Zenon
  <1>6. pending_[q] \subseteq 1..chain_seq_no_[q]
    BY <1>0, Zenon DEF OrderInv
  <1> HIDE DEF q
  <1>7. ASSUME NEW x \in missing
        PROVE  /\ x \in RequestsOf(d) /\ x \in Requests /\ x \in Int
               /\ Command(x) \in Nat /\ Command(x) <= chain_seq_no_[1]
               /\ Command(x) <= chain_seq_no_[q] => x \in Batch(pending_[q]) \cap RequestsOf(d)
    <2>1. x \in RequestsOf(d) /\ Command(x) <= chain_seq_no_[1] /\ x \notin Ran(d)
      BY DEF AcceptedOf
    <2>2. x \in Requests /\ x \in Int /\ Command(x) \in Nat /\ Command(x) >= 1
      BY <2>1, RequestTypes
    <2>3. ~(\E e \in Receivers : <<e, x>> \in ackSent)
      <3>1. route[x] = d /\ d # Any
        BY <2>1, RequestTypes, ForwardingAssumption
      <3>2. To(x) = {d}
        BY <3>1, Zenon DEF To
      <3>3. QED
        BY <2>1, <2>2, <3>2, AckedRan, Zenon DEF Ran
    <2>4. ASSUME Command(x) <= chain_seq_no_[q]
          PROVE  x \in Batch(pending_[q])
      <3>1. Command(x) \in 1..chain_seq_no_[q]
        BY <1>0, <2>2, <2>4
      <3>2. x \in Batch({Command(x)})
        BY <2>2 DEF Batch
      <3>3. Command(x) \in pending_[q]
        BY <1>5, <2>3, <3>1, <3>2, Zenon DEF AllAcked
      <3>4. QED
        BY <2>2, <3>3 DEF Batch
    <2>5. QED
      BY <2>1, <2>2, <2>4
  <1>8. ASSUME NEW x \in missing, NEW y \in Batch(pending_[q]), x < y
        PROVE  x \in Batch(pending_[q])
    <2>1. y \in Requests /\ y \in Int /\ Command(y) \in pending_[q]
      BY RequestsInt DEF Batch
    <2>2. Command(y) <= chain_seq_no_[q]
      <3>1. Command(y) \in 1..chain_seq_no_[q]
        BY <1>6, <2>1, Zenon
      <3>2. QED
        BY <3>1, SMTT(30)
    <2>3. ~(Command(x) > chain_seq_no_[q])
      BY <1>0, <1>7, <1>8, <2>1, <2>2, LaterIsLarger, Zenon
    <2>4. Command(x) <= chain_seq_no_[q]
      <3>1. Command(x) \in Nat /\ chain_seq_no_[q] \in Nat
        BY <1>0, <1>7, Zenon
      <3>2. QED
        BY <2>3, <3>1, SMTT(30)
    <2>5. QED
      BY <1>7, <2>4
  <1>9. \A s \in pending_[q] : s <= chain_seq_no_'[1]
    <2>1. chain_seq_no_'[1] = chain_seq_no_[1]
      BY <1>1, Zenon
    <2>2. ASSUME NEW s \in pending_[q]
          PROVE  s <= chain_seq_no_[1]
      <3>1. s \in 1..chain_seq_no_[q]
        BY <1>6, Zenon
      <3>2. /\ chain_seq_no_[q] \in Nat /\ chain_seq_no_[1] \in Nat
            /\ chain_seq_no_[q] <= chain_seq_no_[1]
        BY <1>0, Zenon
      <3>3. QED
        BY <3>1, <3>2
    <2>3. QED
      BY <2>1, <2>2, Zenon
  <1>10. \A x \in AcceptedOf(d)' \ Ran(d) : \A y \in Batch(pending_[q]) :
            x < y => x \in Batch(pending_[q]) \/ x \in Range(out[q][d])
    BY <1>2, <1>8, Zenon
  <1>11. /\ OutInLine(d)' /\ OutAccepted(d)'
         /\ \A p \in Replicas : Range(out[p][d]) \subseteq Range(out'[p][d])
         /\ Batch(pending_[q]) \cap RequestsOf(d) \subseteq Range(out'[q][d])
    BY <1>0, <1>1, <1>3, <1>9, <1>10, SendInLine, Zenon
  <1>12. ASSUME NEW x \in missing, ~(Command(x) > chain_seq_no_[q])
         PROVE  x \in Range(out'[q][d])
    <2>1. Command(x) <= chain_seq_no_[q]
      <3>1. Command(x) \in Nat /\ chain_seq_no_[q] \in Nat
        BY <1>0, <1>7, Zenon
      <3>2. QED
        BY <1>12, <3>1
    <2>2. QED
      BY <1>7, <1>11, <2>1, Zenon
  <1>13. OnTheWay(d)'
    <2>1. CASE 2 \in failed
      <3>1. q = 1
        BY <2>1 DEF q
      <3>2. ASSUME NEW x \in missing
            PROVE  x \in Range(out'[1][d])
        <4>1. Command(x) \in Nat /\ chain_seq_no_[1] \in Nat /\ Command(x) <= chain_seq_no_[1]
          BY <1>0, <1>7, Zenon
        <4>2. ~(Command(x) > chain_seq_no_[1])
          BY <4>1
        <4>3. QED
          BY <1>12, <3>1, <4>2, Zenon
      <3>3. 2 \in alive => \A x \in missing : Command(x) > chain_seq_no_[2] \/ x \in Range(out'[2][d])
        BY <1>0, <1>11, <2>1, Zenon DEF OnTheWay
      <3>4. QED
        BY <1>1, <1>2, <3>2, <3>3, Zenon DEF OnTheWay, Command
    <2>2. CASE 2 \notin failed
      <3>1. q = 2
        BY <2>2 DEF q
      <3>2. \A x \in missing : Command(x) > chain_seq_no_[2] \/ x \in Range(out'[2][d])
        BY <1>12, <3>1, Zenon
      <3>3. QED
        BY <1>1, <1>2, <2>2, <3>2, Zenon DEF OnTheWay, Command
    <2>3. QED
      BY <2>1, <2>2
  <1>14. QED
    BY <1>4, <1>11, <1>13, Zenon

LEMMA DeliverStep ==
  ASSUME QuietRepair, IInv, ControlInv, OrderInv, PlaceInv, DeliverInv, [Next]_vars
  PROVE  DeliverInv'
  <1>1. CASE UNCHANGED <<route, chain_seq_no_, out, last_seen_seq_, ran, alive, failed, mgr>>
    BY <1>1, DeliverIf
  <1>2. CASE FailSender
    <2>1. /\ UNCHANGED <<route, chain_seq_no_, out, last_seen_seq_, ran, alive>>
          /\ mgr = "idle" /\ mgr' # "idle"
      BY <1>2 DEF FailSender, ControlInv, senderVars, receiverVars
    <2>2. QED
      BY <2>1, DeliverIf
  <1>3. CASE SetupChain
    <2>1. /\ UNCHANGED <<route, chain_seq_no_, out, last_seen_seq_, ran, alive, failed>>
          /\ mgr' # "idle"
      BY <1>3 DEF SetupChain, receiverVars
    <2>2. QED
      BY <2>1, DeliverIf
  <1>4. CASE UpdateConnections
    <2>1. /\ UNCHANGED <<route, chain_seq_no_, out, last_seen_seq_, ran, alive, failed>>
          /\ mgr' # "idle"
      BY <1>4 DEF UpdateConnections, senderVars, receiverVars
    <2>2. QED
      BY <2>1, DeliverIf
  <1>5. CASE Submit
    BY <1>5, DeliverSubmit
  <1>6. CASE ChainRequest
    BY <1>6, DeliverChainRequest
  <1>7. CASE \E q \in Replicas, d \in Receivers : AsyncOperation(q, d)
    BY <1>7, DeliverAsyncOperation
  <1>8. CASE Crash
    BY <1>8, DeliverCrash
  <1>9. CASE \E d \in Receivers : FailReceiver(d)
    BY <1>9, DeliverFailReceiver
  <1>10. CASE ResendPending
    BY <1>10, DeliverResendPending
  <1>11. CASE ChainAck \/ \E d \in Receivers, x \in Requests : ExternalAck(d, x)
    BY <1>1, <1>11, Zenon DEF ChainAck, ExternalAck, receiverVars, mgrVars
  <1>12. CASE \/ \E d \in Receivers : Replicate(d)
              \/ \E d \in Receivers, x \in Requests : SendAck(d, x)
    BY <1>1, <1>12, Zenon DEF Replicate, SendAck, senderVars, mgrVars
  <1>13. CASE UNCHANGED vars
    BY <1>1, <1>13, Zenon DEF vars, senderVars, receiverVars, mgrVars
  <1>14. QED
    BY <1>2, <1>3, <1>4, <1>5, <1>6, <1>7, <1>8, <1>9, <1>10, <1>11, <1>12, <1>13, Zenon
       DEF Next, Deliver

-----------------------------------------------------------------------------
LEMMA DeliveryInit ==
  ASSUME Init
  PROVE  ControlInv /\ OrderInv /\ PlaceInv /\ DeliverInv
  <1>1. ControlInv
    BY DEF Init, ControlInv, Replicas
  <1>2. OrderInv
    BY SMTT(30) DEF Init, OrderInv, ChainOrder, Replicas
  <1>3. DeliverInv
    <2> SUFFICES ASSUME NEW d \in Receivers
                 PROVE  MarkBelow(d) /\ OutAccepted(d) /\ OutInLine(d) /\ OnTheWay(d)
      BY Zenon DEF DeliverInv
    <2>1. /\ \A q \in Replicas : out[q][d] = <<>>
          /\ chain_seq_no_[1] = 0 /\ last_seen_seq_[d] = -1
      BY DEF Init, Replicas
    <2>2. AcceptedOf(d) = {}
      BY <2>1, RequestTypes DEF AcceptedOf
    <2>3. \A x \in RequestsOf(d) : x > -1
      BY RequestTypes
    <2>4. MarkBelow(d)
      BY <2>1, <2>2, <2>3, Zenon DEF MarkBelow
    <2>5. DOMAIN <<>> = {}
      OBVIOUS
    <2>6. OutAccepted(d) /\ OutInLine(d)
      BY <2>1, <2>5, Zenon DEF OutAccepted, OutInLine, InLine
    <2>7. OnTheWay(d)
      BY <2>2, Zenon DEF OnTheWay
    <2>8. QED
      BY <2>4, <2>6, <2>7
  <1>4. PlaceInv
    <2>1. \A d \in Receivers : ran[d] = <<>> /\ out[1][d] = <<>> /\ out[2][d] = <<>>
      BY DEF Init, Replicas
    <2>2. Range(<<>>) = {}
      BY DEF Range
    <2>3. \A d \in Receivers : Placed(d) = {}
      BY <2>1, <2>2, Zenon DEF Placed, Ran
    <2>4. QED
      BY <2>3, Zenon DEF PlaceInv
  <1>5. QED
    BY <1>1, <1>2, <1>3, <1>4

(***************************************************************************)
(* No request is lost between two layers: once they have settled, whatever *)
(* the head of the sending chain accepted has been run by the receiver its *)
(* key hashes to, although the tail of the chain or the head of a receiver *)
(* is gone, if no command reaches a tail during the repair.  Nothing is    *)
(* said of the requests for the dummy key.                                 *)
(***************************************************************************)
THEOREM ForwardingDelivers ==
  ASSUME QuietRepair
  PROVE  Spec => []SettledDelivered
  <1> DEFINE DInv == IInv /\ ControlInv /\ OrderInv /\ PlaceInv /\ DeliverInv
  <1>1. Init => DInv
    BY ForwardingInit, DeliveryInit
  <1>2. DInv /\ [Next]_vars => DInv'
    BY ForwardingStep, ControlStep, OrderStep, PlaceStep, DeliverStep
  <1>3. DInv => SettledDelivered
    <2> SUFFICES ASSUME DInv, Settled, NEW x \in Batch(1..chain_seq_no_[1]), route[x] # Any
                 PROVE  x \in Range(ran[route[x]])
      BY Zenon DEF SettledDelivered
    <2> DEFINE d == route[x]
    <2>0. /\ chain_seq_no_[1] \in Nat /\ chain_seq_no_[2] \in Nat
          /\ 1 \in Replicas /\ 2 \in Replicas
      BY DEF IInv, TypeInv, SenderType, Replicas
    <2>1. x \in Requests /\ d \in Receivers /\ x \in RequestsOf(d) /\ Command(x) \in Nat
      BY CommandType DEF Batch, IInv, TypeInv, RequestsOf, Commands
    <2>2. x \in AcceptedOf(d)
      BY <2>0, <2>1 DEF Batch, AcceptedOf
    <2>3. OnTheWay(d)
      BY <2>1, Zenon DEF DeliverInv
    <2>4. \A q \in Replicas : Range(out[q][d]) = {}
      <3>1. \A q \in Replicas : out[q][d] = <<>>
        BY <2>1, Zenon DEF Settled
      <3>2. Range(<<>>) = {}
        BY DEF Range
      <3>3. QED
        BY <3>1, <3>2, Zenon
    <2>5. CASE 2 \in failed
      BY <2>0, <2>2, <2>3, <2>4, <2>5, Zenon DEF OnTheWay, Settled, Ran
    <2>6. CASE 2 \notin failed
      <3>1. 2 \in alive /\ mgr = "idle" /\ role1 = "head" /\ chain = <<>>
        BY <2>0, <2>6, Zenon DEF ControlInv, Settled
      <3>2. chain_seq_no_[1] = chain_seq_no_[2]
        <4>1. chain_seq_no_[1] = chain_seq_no_[2] + Len(<<>>)
          BY <3>1, Zenon DEF OrderInv, ChainOrder
        <4>2. QED
          BY <2>0, <4>1
      <3>3. ~(Command(x) > chain_seq_no_[2])
        BY <2>0, <2>1, <2>2, <3>2 DEF AcceptedOf
      <3>4. QED
        BY <2>0, <2>2, <2>3, <2>4, <3>1, <3>3, Zenon DEF OnTheWay, Ran
    <2>7. QED
      BY <2>5, <2>6
  <1>4. QED
    BY <1>1, <1>2, <1>3, PTL DEF Spec
=============================================================================
