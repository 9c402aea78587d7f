-------------------------- MODULE L3FailoverProofs ---------------------------
(***************************************************************************)
(* For every number of servers, hosts, labels and requests, and whichever  *)
(* server fails: what an L2 tail has forgotten is in the KV store, and the *)
(* connections it has left lead to distinct servers, one for every column  *)
(* that the hash can give.                                                 *)
(***************************************************************************)
EXTENDS L3Failover, FiniteSetTheorems, TLAPS

(***************************************************************************)
(* A callback that is due, and an ack under way, are about a request whose *)
(* PUT the KV store has executed.                                          *)
(***************************************************************************)
StoredInv ==
    /\ chain_seq_no_ \in Nat
    /\ puts \in [Servers -> Seq(stored)]
    /\ acks \in [Servers -> Seq(stored)]
    /\ ForgottenIsStored

(***************************************************************************)
(* The sequences of the state                                              *)
(***************************************************************************)
LEMMA HeadTail ==
  ASSUME NEW S, NEW s \in Seq(S), s # <<>>
  PROVE  Head(s) \in S /\ Tail(s) \in Seq(S)
  OBVIOUS

LEMMA Appended ==
  ASSUME NEW S, NEW s \in Seq(S), NEW x \in S
  PROVE  Append(s, x) \in Seq(S)
  OBVIOUS

LEMMA Prefix ==
  ASSUME NEW S, NEW s \in Seq(S), NEW k \in 0..Len(s)
  PROVE  SubSeq(s, 1, k) \in Seq(S)
  OBVIOUS

LEMMA Joint ==
  ASSUME NEW S, NEW s \in Seq(S), NEW t \in Seq(S)
  PROVE  \A i \in 1..(Len(s) + Len(t)) :
            (s \o t)[i] = IF i <= Len(s) THEN s[i] ELSE t[i - Len(s)]
  OBVIOUS

LEMMA Wider ==
  ASSUME NEW S, NEW T, S \subseteq T, NEW s \in Seq(S)
  PROVE  s \in Seq(T)
  OBVIOUS

-----------------------------------------------------------------------------
(***************************************************************************)
(* Every step keeps the invariant.                                         *)
(***************************************************************************)
LEMMA StoredStep ==
  ASSUME StoredInv, [Next]_vars
  PROVE  StoredInv'
  <1>0. /\ chain_seq_no_ \in Nat /\ ForgottenIsStored
        /\ puts \in [Servers -> Seq(stored)] /\ acks \in [Servers -> Seq(stored)]
    BY DEF StoredInv
  <1>1. CASE UNCHANGED <<chain_seq_no_, pending_, puts, acks, stored>>
    BY <1>1, Zenon DEF StoredInv, ForgottenIsStored
  <1>2. CASE ChainRequest
    <2>1. /\ chain_seq_no_' = chain_seq_no_ + 1
          /\ pending_' = pending_ \cup {chain_seq_no_ + 1}
          /\ UNCHANGED <<puts, acks, stored>>
      BY <1>2 DEF ChainRequest, l3Vars
    <2>2. \A n \in 1..(chain_seq_no_ + 1) : n # chain_seq_no_ + 1 => n \in 1..chain_seq_no_
      BY <1>0
    <2>3. ForgottenIsStored'
      BY <1>0, <2>1, <2>2, Zenon DEF ForgottenIsStored
    <2>4. chain_seq_no_' \in Nat
      BY <1>0, <2>1
    <2>5. QED
      BY <1>0, <2>1, <2>3, <2>4, Zenon DEF StoredInv
  <1>3. ASSUME NEW s \in Servers, L2ExternalAck(s)
        PROVE  StoredInv'
    <2>1. /\ acks[s] # <<>> /\ acks' = [acks EXCEPT ![s] = Tail(acks[s])]
          /\ pending_' = pending_ \ {Head(acks[s])}
          /\ UNCHANGED <<chain_seq_no_, puts, stored>>
      BY <1>3 DEF L2ExternalAck, l3Vars
    <2>2. Head(acks[s]) \in stored /\ Tail(acks[s]) \in Seq(stored)
      BY <1>0, <2>1, HeadTail
    <2>3. ForgottenIsStored'
      BY <1>0, <2>1, <2>2, Zenon DEF ForgottenIsStored
    <2>4. acks' \in [Servers -> Seq(stored)]
      BY <1>0, <2>1, <2>2
    <2>5. QED
      BY <1>0, <2>1, <2>3, <2>4, Zenon DEF StoredInv
  <1>4. ASSUME NEW s \in Servers, KvPut(s)
        PROVE  StoredInv'
    <2>1. /\ puts' = [puts EXCEPT ![s] = Append(puts[s], Head(work[s]))]
          /\ stored' = stored \cup {Head(work[s])}
          /\ UNCHANGED <<chain_seq_no_, pending_, acks>>
      BY <1>4 DEF KvPut, l2Vars
    <2>2. stored \subseteq stored' /\ Head(work[s]) \in stored'
      BY <2>1
    <2>3. \A t \in Servers : puts[t] \in Seq(stored') /\ acks[t] \in Seq(stored')
      BY <1>0, <2>2, Wider
    <2>4. Append(puts[s], Head(work[s])) \in Seq(stored')
      BY <2>2, <2>3, Appended
    <2>5. puts' \in [Servers -> Seq(stored')] /\ acks' \in [Servers -> Seq(stored')]
      BY <1>0, <2>1, <2>3, <2>4
    <2>6. ForgottenIsStored'
      BY <1>0, <2>1, <2>2, Zenon DEF ForgottenIsStored
    <2>7. QED
      BY <1>0, <2>1, <2>5, <2>6, Zenon DEF StoredInv
  <1>5. ASSUME NEW s \in Servers, PutCallback(s)
        PROVE  StoredInv'
    <2>1. /\ puts[s] # <<>> /\ puts' = [puts EXCEPT ![s] = Tail(puts[s])]
          /\ acks' = [acks EXCEPT ![s] = Append(acks[s], Head(puts[s]))]
          /\ UNCHANGED <<chain_seq_no_, pending_, stored>>
      BY <1>5 DEF PutCallback, l2Vars
    <2>2. Head(puts[s]) \in stored /\ Tail(puts[s]) \in Seq(stored)
      BY <1>0, <2>1, HeadTail
    <2>3. Append(acks[s], Head(puts[s])) \in Seq(stored)
      BY <1>0, <2>2, Appended
    <2>4. puts' \in [Servers -> Seq(stored)] /\ acks' \in [Servers -> Seq(stored)]
      BY <1>0, <2>1, <2>2, <2>3
    <2>5. QED
      BY <1>0, <2>1, <2>4, Zenon DEF StoredInv, ForgottenIsStored
  <1>6. ASSUME NEW s \in Servers, Crash(s)
        PROVE  StoredInv'
    <2>1. PICK k \in 0..Len(acks[s]) : acks' = [acks EXCEPT ![s] = SubSeq(acks[s], 1, k)]
      BY <1>6, Zenon DEF Crash
    <2>2. puts' = [puts EXCEPT ![s] = <<>>] /\ UNCHANGED <<chain_seq_no_, pending_, stored>>
      BY <1>6 DEF Crash, l2Vars
    <2>3. SubSeq(acks[s], 1, k) \in Seq(stored) /\ <<>> \in Seq(stored)
      BY <1>0, Prefix
    <2>4. puts' \in [Servers -> Seq(stored)] /\ acks' \in [Servers -> Seq(stored)]
      BY <1>0, <2>1, <2>2, <2>3
    <2>5. QED
      BY <1>0, <2>2, <2>4, Zenon DEF StoredInv, ForgottenIsStored
  <1>7. ASSUME \/ L1ExternalAck \/ UpdateConnections \/ SelectiveResendPending
               \/ \E s \in Servers : AsyncOperation(s) \/ ResponderThread(s) \/ FailNode(s)
               \/ UNCHANGED vars
        PROVE  StoredInv'
    <2>1. UNCHANGED <<chain_seq_no_, pending_, puts, acks, stored>>
      BY <1>7, Zenon DEF L1ExternalAck, UpdateConnections, SelectiveResendPending, AsyncOperation,
             ResponderThread, FailNode, vars, l2Vars, l3Vars
    <2>2. QED
      BY <1>1, <2>1
  <1>8. QED
    BY <1>2, <1>3, <1>4, <1>5, <1>6, <1>7 DEF Next

(***************************************************************************)
(* l2_proxy::external_ack: what an L2 tail no longer keeps pending is in   *)
(* the KV store, whichever server executed it and whichever failed.        *)
(***************************************************************************)
THEOREM FailoverForgottenIsStored == Spec => []ForgottenIsStored
  <1>1. Init => StoredInv
    BY DEF Init, StoredInv, ForgottenIsStored
  <1>2. StoredInv /\ [Next]_vars => StoredInv'
    BY StoredStep
  <1>3. StoredInv => ForgottenIsStored
    BY DEF StoredInv
  <1>4. QED
    BY <1>1, <1>2, <1>3, PTL DEF Spec

-----------------------------------------------------------------------------
(***************************************************************************)
(* Type correctness.  The connections are those of all servers until one   *)
(* failed and update_connections has run.                                  *)
(***************************************************************************)
Queues ==
    /\ conn \in [Servers -> Seq(L3Op)]
    /\ work \in [Servers -> Seq(Requests)] /\ puts \in [Servers -> Seq(Requests)]
    /\ respond_queue_ \in [Servers -> Seq(Requests)]
    /\ acks \in [Servers -> Seq(Requests)] /\ l1acks \in Seq(Requests)

L1Typed ==
    pending_count_ \in [Batches -> 0..BatchSize] /\ batchAcked \in SUBSET Batches

L2Typed == chain_seq_no_ \in 0..MaxRequests /\ pending_ \in SUBSET Requests

L3Typed ==
    /\ last_seen_seq_ \in [Servers -> Requests \cup {-1}]
    /\ stored \in SUBSET Requests /\ answered \in SUBSET Requests

AllConnections == [i \in Servers |-> i]

Connections ==
    /\ clients_ \in Seq(Servers) /\ IsInjective(clients_) /\ Len(clients_) \in {Left, NumServers}
    /\ failed = {} \/ mgr = "update_connections" => clients_ = AllConnections
    /\ alive \in SUBSET Servers /\ failed \in SUBSET Servers
    /\ \A f \in failed : f + NumCores - 1 <= NumServers
    /\ mgr \in {"idle", "update_connections", "selective_resend_pending"}

TypeInv == Queues /\ L1Typed /\ L2Typed /\ L3Typed /\ Connections

LEMMA Typed == TypeInv => TypeOK
<1> SUFFICES ASSUME TypeInv PROVE TypeOK
  OBVIOUS
<1>1. \A S : \A q \in Seq(S) : Range(q) \subseteq S
  BY DEF Range
<1>2. ASSUME NEW s \in Servers
      PROVE  /\ Range(conn[s]) \subseteq L3Op
             /\ \A q \in {work[s], puts[s], respond_queue_[s], acks[s], l1acks} :
                   Range(q) \subseteq Requests
  <2>1. conn[s] \in Seq(L3Op)
    BY DEF TypeInv, Queues
  <2>2. \A q \in {work[s], puts[s], respond_queue_[s], acks[s], l1acks} : q \in Seq(Requests)
    BY DEF TypeInv, Queues
  <2> QED BY <1>1, <2>1, <2>2, Zenon
<1>3. Range(clients_) \subseteq Servers
  BY <1>1, Zenon DEF TypeInv, Connections
<1> QED BY <1>2, <1>3, Zenon DEF TypeOK, TypeInv, L1Typed, L2Typed, L3Typed, Connections

\* A request belongs to one of the batches.
LEMMA BatchOfRequest ==
  ASSUME NEW n \in Requests
  PROVE  BatchOf(n) \in Batches
<1> DEFINE a == n - 1
           b == MaxRequests - 1
           x == a \div BatchSize
           y == b \div BatchSize
<1>1. BatchSize \in Nat \ {0} /\ a \in Nat /\ b \in Nat /\ a <= b
  BY FailoverAssumption DEF Requests
<1> HIDE DEF a, b
<1>2. /\ x \in Nat /\ y \in Nat
      /\ BatchSize * x <= a /\ b < BatchSize * y + BatchSize
  BY <1>1
<1> HIDE DEF x, y
<1>3. BatchSize * x < BatchSize * (y + 1)
  BY <1>1, <1>2
<1>4. x <= y
  BY <1>1, <1>2, <1>3
<1> QED BY <1>2, <1>4 DEF a, b, x, y, BatchOf, Batches

LEMMA InitTyped == Init => TypeInv
<1> SUFFICES ASSUME Init PROVE TypeInv
  OBVIOUS
<1>1. Queues
  BY DEF Init, Queues
<1>2. L1Typed /\ L2Typed /\ L3Typed
  BY FailoverAssumption DEF Init, L1Typed, L2Typed, L3Typed, Batches, Requests
<1>3. Connections
  BY FailoverAssumption DEF Init, Connections, AllConnections, Servers, IsInjective
<1> QED BY <1>1, <1>2, <1>3 DEF TypeInv

(***************************************************************************)
(* What is sent to the servers are requests.                               *)
(***************************************************************************)
LEMMA SendingsTyped ==
  ASSUME Queues, NEW S \in SUBSET Requests, NEW dedup \in BOOLEAN, ForwardRequests(S, dedup)
  PROVE  conn' \in [Servers -> Seq(L3Op)]
<1>1. PICK q \in Sendings(S) :
         conn' = [s \in Servers |->
             IF s \notin alive THEN conn[s]
             ELSE conn[s] \o [i \in DOMAIN q[s] |-> [n |-> q[s][i], dedup |-> dedup]]]
  BY Zenon DEF ForwardRequests
<1>2. ASSUME NEW s \in Servers
      PROVE  conn[s] \o [i \in DOMAIN q[s] |-> [n |-> q[s][i], dedup |-> dedup]] \in Seq(L3Op)
  <2> DEFINE T == {n \in S : Server(n) = s}
             k == Cardinality(T)
             p == [i \in DOMAIN q[s] |-> [n |-> q[s][i], dedup |-> dedup]]
  <2>1. q[s] \in Orders(T)
    BY <1>1, Zenon DEF Sendings
  <2>2. T \subseteq Requests
    BY Zenon
  <2> HIDE DEF T
  <2>3. k \in Nat
    <3>1. IsFiniteSet(Requests)
      BY FS_Interval, FailoverAssumption DEF Requests
    <3> QED BY <2>2, <3>1, FS_Subset, FS_CardinalityType, Zenon
  <2>4. q[s] \in [1..k -> T]
    BY <2>1, Zenon DEF Orders
  <2> HIDE DEF k
  <2>5. p \in [1..k -> L3Op]
    BY <2>2, <2>4 DEF L3Op
  <2> HIDE DEF p
  <2>6. p \in Seq(L3Op)
    BY <2>3, <2>5
  <2>7. conn[s] \in Seq(L3Op)
    BY DEF Queues
  <2>8. conn[s] \o p \in Seq(L3Op)
    BY <2>6, <2>7
  <2> QED BY <2>8 DEF p
<1>3. \A s \in Servers : conn[s] \in Seq(L3Op)
  BY DEF Queues
<1> QED BY <1>1, <1>2, <1>3, Zenon

(***************************************************************************)
(* remove_connection leaves Left connections, to distinct servers.         *)
(***************************************************************************)
LEMMA ConnectionsLeft ==
  ASSUME clients_ = AllConnections, NEW f \in Servers, f + NumCores - 1 <= NumServers
  PROVE  /\ RemoveConnection(f) \in Seq(Servers) /\ Len(RemoveConnection(f)) = Left
         /\ IsInjective(RemoveConnection(f))
<1>1. /\ NumCores \in Nat \ {0} /\ NumServers \in Nat /\ f \in Nat \ {0}
      /\ f + NumCores <= NumServers + 1
  BY FailoverAssumption DEF Servers
<1> DEFINE c == clients_
           m == NumServers - NumCores - f + 1
           x == SubSeq(c, 1, f - 1)
           y == SubSeq(c, f + NumCores, NumServers)
           z == x \o y
<1>2. c \in Seq(Nat) /\ Len(c) = NumServers /\ \A i \in 1..NumServers : c[i] = i
  BY <1>1 DEF AllConnections, Servers
<1>3. f - 1 \in Nat /\ m \in Nat /\ m = NumServers - (f + NumCores) + 1
  BY <1>1
<1>4. x = [i \in 1..(f - 1) |-> i]
  <2>1. SubSeq(c, 1, f - 1) = [i \in 1..(f - 1 - 1 + 1) |-> c[1 + i - 1]]
    BY <1>1, <1>2
  <2>2. f - 1 - 1 + 1 = f - 1 /\ \A i \in 1..(f - 1) : 1 + i - 1 = i /\ i \in 1..NumServers
    BY <1>1
  <2> HIDE DEF c
  <2>3. \A i \in 1..(f - 1) : c[1 + i - 1] = i
    BY <1>2, <2>2
  <2> QED BY <2>1, <2>2, <2>3
<1>5. y = [i \in 1..m |-> f + NumCores + i - 1]
  <2>1. y = [i \in 1..(NumServers - (f + NumCores) + 1) |-> c[f + NumCores + i - 1]]
    BY <1>1, <1>2
  <2>2. \A i \in 1..m : f + NumCores + i - 1 \in 1..NumServers
    BY <1>1
  <2> HIDE DEF c
  <2>3. \A i \in 1..m : c[f + NumCores + i - 1] = f + NumCores + i - 1
    BY <1>2, <2>2
  <2> HIDE DEF m, y
  <2> QED BY <1>3, <2>1, <2>3
<1> HIDE DEF c, x, y
<1>6. /\ x \in Seq(Nat) /\ y \in Seq(Nat) /\ Len(x) = f - 1 /\ Len(y) = m
  <2> HIDE DEF m
  <2>1. \A k \in Nat : \A s \in [1..k -> Nat] : s \in Seq(Nat) /\ Len(s) = k
    OBVIOUS
  <2>2. \A i \in 1..m : f + NumCores + i - 1 \in Nat
    BY <1>1, <1>3
  <2>3. y \in [1..m -> Nat]
    BY <1>5, <2>2, Zenon
  <2>4. \A i \in 1..(f - 1) : i \in Nat
    BY <1>3
  <2>5. x \in [1..(f - 1) -> Nat]
    BY <1>4, <2>4, Zenon
  <2> QED BY <1>3, <2>1, <2>3, <2>5, Zenon
<1>7. z \in Seq(Nat) /\ Len(z) = (f - 1) + m
  BY <1>6
<1>8. \A i \in 1..((f - 1) + m) :
         z[i] = IF i <= f - 1 THEN x[i] ELSE y[i - (f - 1)]
  <2> HIDE DEF m
  <2>1. \A i \in 1..(Len(x) + Len(y)) : z[i] = IF i <= Len(x) THEN x[i] ELSE y[i - Len(x)]
    BY <1>6, Joint, Zenon
  <2> QED BY <1>6, <2>1
<1> HIDE DEF z
<1>9. (f - 1) + m = Left
  BY <1>1 DEF Left
<1>10. ASSUME NEW i \in 1..Left PROVE z[i] = IF i <= f - 1 THEN i ELSE i + NumCores
  <2>1. CASE i <= f - 1
    <3>1. i \in 1..(f - 1)
      BY <1>3, <2>1
    <3> QED BY <1>4, <1>8, <1>9, <2>1, <3>1
  <2>2. CASE ~(i <= f - 1)
    <3>1. i - (f - 1) \in 1..m /\ f + NumCores + (i - (f - 1)) - 1 = i + NumCores
      BY <1>1, <1>9, <2>2
    <3>2. y[i - (f - 1)] = i + NumCores
      BY <1>5, <3>1
    <3> QED BY <1>8, <1>9, <2>2, <3>2
  <2> QED BY <2>1, <2>2
<1>11. Left \in Nat
  BY FailoverAssumption DEF Left
<1>12. ASSUME NEW i \in 1..Left PROVE z[i] \in Servers
  BY <1>1, <1>10, <1>12 DEF Left, Servers
<1>13. ASSUME NEW i \in 1..Left, NEW j \in 1..Left, z[i] = z[j] PROVE i = j
  BY <1>1, <1>10, <1>13 DEF Left
<1>14. z \in Seq(Servers) /\ Len(z) = Left /\ DOMAIN z = 1..Left
  <2>1. Len(z) = Left /\ DOMAIN z = 1..Left /\ z = [i \in 1..Left |-> z[i]]
    BY <1>7, <1>9
  <2>2. z \in [1..Left -> Servers]
    BY <1>12, <2>1, Zenon
  <2> QED BY <1>11, <2>1, <2>2
<1>15. IsInjective(z)
  BY <1>13, <1>14, Zenon DEF IsInjective
<1>16. RemoveConnection(f) = z
  BY <1>2 DEF RemoveConnection, z, x, y, c
<1> QED BY <1>14, <1>15, <1>16

(***************************************************************************)
(* Every step keeps the types.                                             *)
(***************************************************************************)
LEMMA SendStep ==
  ASSUME TypeInv, ChainRequest \/ SelectiveResendPending
  PROVE  TypeInv'
<1>1. Queues /\ L1Typed /\ L2Typed /\ L3Typed /\ Connections
  BY DEF TypeInv
<1>2. CASE ChainRequest
  <2>1. /\ chain_seq_no_ < MaxRequests /\ chain_seq_no_' = chain_seq_no_ + 1
        /\ pending_' = pending_ \cup {chain_seq_no_ + 1}
        /\ ForwardRequests({chain_seq_no_ + 1}, TRUE)
        /\ UNCHANGED <<pending_count_, batchAcked, l1acks, clients_, last_seen_seq_, work, puts,
                       respond_queue_, stored, answered, acks, alive, failed, mgr>>
    BY <1>2 DEF ChainRequest, l1Vars, l3Vars, mgrVars
  <2>2. chain_seq_no_ + 1 \in Requests /\ chain_seq_no_' \in 0..MaxRequests
    BY <1>1, <2>1, FailoverAssumption DEF L2Typed, Requests
  <2>3. conn' \in [Servers -> Seq(L3Op)]
    <3>1. {chain_seq_no_ + 1} \in SUBSET Requests
      BY <2>2
    <3> QED BY <1>1, <2>1, <3>1, SendingsTyped
  <2>4. Queues'
    BY <1>1, <2>1, <2>3 DEF Queues
  <2>5. L2Typed'
    BY <1>1, <2>1, <2>2 DEF L2Typed
  <2>6. L1Typed' /\ L3Typed'
    BY <1>1, <2>1 DEF L1Typed, L3Typed
  <2>7. Connections'
    BY <1>1, <2>1, Zenon DEF Connections
  <2> QED BY <2>4, <2>5, <2>6, <2>7 DEF TypeInv
<1>3. CASE SelectiveResendPending
  <2>1. /\ ForwardRequests({n \in pending_ : FilterRequest(n)}, FALSE)
        /\ mgr' = "idle"
        /\ UNCHANGED <<pending_count_, batchAcked, l1acks, chain_seq_no_, pending_, clients_,
                       last_seen_seq_, work, puts, respond_queue_, stored, answered, acks,
                       alive, failed>>
    BY <1>3 DEF SelectiveResendPending, l1Vars, l2Vars, l3Vars
  <2>2. conn' \in [Servers -> Seq(L3Op)]
    <3>1. {n \in pending_ : FilterRequest(n)} \in SUBSET Requests
      BY <1>1 DEF L2Typed
    <3> DEFINE S == {n \in pending_ : FilterRequest(n)}
    <3> HIDE DEF S
    <3>2. S \in SUBSET Requests /\ ForwardRequests(S, FALSE)
      BY <2>1, <3>1 DEF S
    <3> QED BY <1>1, <3>2, SendingsTyped
  <2>3. Queues'
    BY <1>1, <2>1, <2>2 DEF Queues
  <2>4. L1Typed' /\ L2Typed' /\ L3Typed'
    BY <1>1, <2>1 DEF L1Typed, L2Typed, L3Typed
  <2>5. Connections'
    BY <1>1, <2>1 DEF Connections
  <2> QED BY <2>3, <2>4, <2>5 DEF TypeInv
<1> QED BY <1>2, <1>3

LEMMA AckStep ==
  ASSUME TypeInv, L1ExternalAck \/ \E s \in Servers : L2ExternalAck(s)
  PROVE  TypeInv'
<1>1. Queues /\ L1Typed /\ L2Typed /\ L3Typed /\ Connections
  BY DEF TypeInv
<1>2. CASE L1ExternalAck
  <2> DEFINE b == BatchOf(Head(l1acks))
  <2>1. /\ l1acks # <<>> /\ l1acks' = Tail(l1acks)
        /\ pending_count_' = [pending_count_ EXCEPT ![b] = IF @ > 0 THEN @ - 1 ELSE @]
        /\ batchAcked' = IF pending_count_[b] = 1 THEN batchAcked \cup {b} ELSE batchAcked
        /\ UNCHANGED <<chain_seq_no_, pending_, clients_, conn, last_seen_seq_, work, puts,
                       respond_queue_, stored, answered, acks, alive, failed, mgr>>
    BY <1>2 DEF L1ExternalAck, l2Vars, l3Vars, mgrVars
  <2>2. Head(l1acks) \in Requests /\ l1acks' \in Seq(Requests)
    BY <1>1, <2>1, HeadTail DEF Queues
  <2>3. b \in Batches
    BY <2>2, BatchOfRequest
  <2> HIDE DEF b
  <2>4. L1Typed'
    <3>1. pending_count_[b] \in 0..BatchSize /\ BatchSize \in Nat
      BY <1>1, <2>3, FailoverAssumption DEF L1Typed
    <3>2. (IF pending_count_[b] > 0 THEN pending_count_[b] - 1 ELSE pending_count_[b])
             \in 0..BatchSize
      BY <3>1
    <3> QED BY <1>1, <2>1, <2>3, <3>2 DEF L1Typed
  <2>5. Queues'
    BY <1>1, <2>1, <2>2 DEF Queues
  <2>6. L2Typed' /\ L3Typed'
    BY <1>1, <2>1 DEF L2Typed, L3Typed
  <2>7. Connections'
    BY <1>1, <2>1, Zenon DEF Connections
  <2> QED BY <2>4, <2>5, <2>6, <2>7 DEF TypeInv
<1>3. ASSUME NEW s \in Servers, L2ExternalAck(s) PROVE TypeInv'
  <2>1. /\ acks[s] # <<>> /\ acks' = [acks EXCEPT ![s] = Tail(acks[s])]
        /\ pending_' = pending_ \ {Head(acks[s])} /\ l1acks' = Append(l1acks, Head(acks[s]))
        /\ UNCHANGED <<pending_count_, batchAcked, chain_seq_no_, clients_, conn, last_seen_seq_,
                       work, puts, respond_queue_, stored, answered, alive, failed, mgr>>
    BY <1>3 DEF L2ExternalAck, l1Vars, l3Vars, mgrVars
  <2>2. Head(acks[s]) \in Requests /\ Tail(acks[s]) \in Seq(Requests)
    BY <1>1, <2>1, HeadTail DEF Queues
  <2>3. l1acks' \in Seq(Requests)
    BY <1>1, <2>1, <2>2, Appended DEF Queues
  <2>4. Queues'
    BY <1>1, <2>1, <2>2, <2>3 DEF Queues
  <2>5. L1Typed' /\ L2Typed' /\ L3Typed'
    BY <1>1, <2>1 DEF L1Typed, L2Typed, L3Typed
  <2>6. Connections'
    BY <1>1, <2>1, Zenon DEF Connections
  <2> QED BY <2>4, <2>5, <2>6 DEF TypeInv
<1> QED BY <1>2, <1>3

LEMMA ServerStep ==
  ASSUME TypeInv, NEW s \in Servers,
         AsyncOperation(s) \/ KvPut(s) \/ PutCallback(s) \/ ResponderThread(s)
  PROVE  TypeInv'
<1>1. Queues /\ L1Typed /\ L2Typed /\ L3Typed /\ Connections
  BY DEF TypeInv
<1>2. UNCHANGED <<pending_count_, batchAcked, l1acks, chain_seq_no_, pending_, clients_,
                  alive, failed, mgr>>
  BY Zenon DEF AsyncOperation, KvPut, PutCallback, ResponderThread, l1Vars, l2Vars, mgrVars
<1>3. L1Typed' /\ L2Typed'
  BY <1>1, <1>2 DEF L1Typed, L2Typed
<1>4. Connections'
  BY <1>1, <1>2, Zenon DEF Connections
<1>5. /\ conn[s] \in Seq(L3Op) /\ work[s] \in Seq(Requests) /\ puts[s] \in Seq(Requests)
      /\ respond_queue_[s] \in Seq(Requests) /\ acks[s] \in Seq(Requests)
  BY <1>1 DEF Queues
<1>6. CASE AsyncOperation(s)
  <2> DEFINE op == Head(conn[s])
  <2>1. /\ conn[s] # <<>> /\ conn' = [conn EXCEPT ![s] = Tail(conn[s])]
        /\ UNCHANGED <<puts, respond_queue_, acks, stored, answered>>
        /\ \/ UNCHANGED <<last_seen_seq_, work>>
           \/ /\ last_seen_seq_' = [last_seen_seq_ EXCEPT ![s] = IF @ < op.n THEN op.n ELSE @]
              /\ work' = [work EXCEPT ![s] = Append(work[s], op.n)]
    BY <1>6 DEF AsyncOperation
  <2>2. op \in L3Op /\ Tail(conn[s]) \in Seq(L3Op)
    BY <1>5, <2>1, HeadTail
  <2>3. op.n \in Requests
    BY <2>2 DEF L3Op
  <2> HIDE DEF op
  <2>4. Append(work[s], op.n) \in Seq(Requests)
    BY <1>5, <2>3, Appended
  <2>5. Queues'
    BY <1>1, <1>2, <2>1, <2>2, <2>4 DEF Queues
  <2>6. L3Typed'
    BY <1>1, <2>1, <2>3 DEF L3Typed
  <2> QED BY <1>3, <1>4, <2>5, <2>6 DEF TypeInv
<1>7. CASE KvPut(s)
  <2>1. /\ work[s] # <<>> /\ work' = [work EXCEPT ![s] = Tail(work[s])]
        /\ puts' = [puts EXCEPT ![s] = Append(puts[s], Head(work[s]))]
        /\ stored' = stored \cup {Head(work[s])}
        /\ UNCHANGED <<conn, last_seen_seq_, respond_queue_, answered, acks>>
    BY <1>7 DEF KvPut
  <2>2. Head(work[s]) \in Requests /\ Tail(work[s]) \in Seq(Requests)
    BY <1>5, <2>1, HeadTail
  <2>3. Append(puts[s], Head(work[s])) \in Seq(Requests)
    BY <1>5, <2>2, Appended
  <2>4. Queues'
    BY <1>1, <1>2, <2>1, <2>2, <2>3 DEF Queues
  <2>5. L3Typed'
    BY <1>1, <2>1, <2>2 DEF L3Typed
  <2> QED BY <1>3, <1>4, <2>4, <2>5 DEF TypeInv
<1>8. CASE PutCallback(s)
  <2>1. /\ puts[s] # <<>> /\ puts' = [puts EXCEPT ![s] = Tail(puts[s])]
        /\ respond_queue_' = [respond_queue_ EXCEPT
                                 ![s] = Append(respond_queue_[s], Head(puts[s]))]
        /\ acks' = [acks EXCEPT ![s] = Append(acks[s], Head(puts[s]))]
        /\ UNCHANGED <<conn, last_seen_seq_, work, stored, answered>>
    BY <1>8 DEF PutCallback
  <2>2. Head(puts[s]) \in Requests /\ Tail(puts[s]) \in Seq(Requests)
    BY <1>5, <2>1, HeadTail
  <2>3. /\ Append(respond_queue_[s], Head(puts[s])) \in Seq(Requests)
        /\ Append(acks[s], Head(puts[s])) \in Seq(Requests)
    BY <1>5, <2>2, Appended
  <2>4. Queues'
    BY <1>1, <1>2, <2>1, <2>2, <2>3 DEF Queues
  <2>5. L3Typed'
    BY <1>1, <2>1 DEF L3Typed
  <2> QED BY <1>3, <1>4, <2>4, <2>5 DEF TypeInv
<1>9. CASE ResponderThread(s)
  <2>1. /\ respond_queue_[s] # <<>>
        /\ respond_queue_' = [respond_queue_ EXCEPT ![s] = Tail(respond_queue_[s])]
        /\ answered' = answered \cup {Head(respond_queue_[s])}
        /\ UNCHANGED <<conn, last_seen_seq_, work, puts, stored, acks>>
    BY <1>9 DEF ResponderThread
  <2>2. Head(respond_queue_[s]) \in Requests /\ Tail(respond_queue_[s]) \in Seq(Requests)
    BY <1>5, <2>1, HeadTail
  <2>3. Queues'
    BY <1>1, <1>2, <2>1, <2>2 DEF Queues
  <2>4. L3Typed'
    BY <1>1, <2>1, <2>2 DEF L3Typed
  <2> QED BY <1>3, <1>4, <2>3, <2>4 DEF TypeInv
<1> QED BY <1>6, <1>7, <1>8, <1>9

LEMMA FailureStep ==
  ASSUME TypeInv, UpdateConnections \/ \E f \in Servers : FailNode(f) \/ Crash(f)
  PROVE  TypeInv'
<1>1. Queues /\ L1Typed /\ L2Typed /\ L3Typed /\ Connections
  BY DEF TypeInv
<1>2. UNCHANGED <<pending_count_, batchAcked, l1acks, chain_seq_no_, pending_, last_seen_seq_,
                  stored, answered>>
  BY Zenon DEF UpdateConnections, FailNode, Crash, l1Vars, l2Vars, l3Vars
<1>3. L1Typed' /\ L2Typed' /\ L3Typed'
  BY <1>1, <1>2 DEF L1Typed, L2Typed, L3Typed
<1>4. CASE UpdateConnections
  <2>1. PICK f \in failed : clients_' = RemoveConnection(f)
    BY <1>4, Zenon DEF UpdateConnections
  <2>2. /\ mgr = "update_connections" /\ mgr' = "selective_resend_pending"
        /\ UNCHANGED <<conn, work, puts, respond_queue_, acks, alive, failed>>
    BY <1>4 DEF UpdateConnections, l3Vars
  <2>3. f \in Servers /\ f + NumCores - 1 <= NumServers /\ clients_ = AllConnections
    BY <1>1, <2>1, <2>2 DEF Connections
  <2>4. clients_' \in Seq(Servers) /\ Len(clients_') = Left /\ IsInjective(clients_')
    BY <2>1, <2>3, ConnectionsLeft, Zenon
  <2>5. Connections'
    <3>1. failed' # {} /\ mgr' # "update_connections"
      BY <2>1, <2>2
    <3>2. /\ alive' \in SUBSET Servers /\ failed' \in SUBSET Servers
          /\ \A g \in failed' : g + NumCores - 1 <= NumServers
      BY <1>1, <2>2, Zenon DEF Connections
    <3>3. mgr' \in {"idle", "update_connections", "selective_resend_pending"}
      BY <2>2
    <3> QED BY <2>4, <3>1, <3>2, <3>3, Zenon DEF Connections, IsInjective, Left, Servers
  <2>6. Queues'
    BY <1>1, <1>2, <2>2 DEF Queues
  <2> QED BY <1>3, <2>5, <2>6 DEF TypeInv
<1>5. ASSUME NEW f \in Servers, FailNode(f) PROVE TypeInv'
  <2>1. /\ f + NumCores - 1 <= NumServers /\ failed = {} /\ failed' = {f}
        /\ mgr' = "update_connections"
        /\ UNCHANGED <<clients_, conn, work, puts, respond_queue_, acks, alive>>
    BY <1>5 DEF FailNode, l2Vars, l3Vars
  <2>2. clients_ = AllConnections
    BY <1>1, <2>1, Zenon DEF Connections
  <2>3. Connections'
    <3>1. \A g \in failed' : g \in Servers /\ g + NumCores - 1 <= NumServers
      BY <2>1
    <3>2. /\ clients_' \in Seq(Servers) /\ IsInjective(clients_')
          /\ Len(clients_') \in {Left, NumServers} /\ alive' \in SUBSET Servers
          /\ clients_' = AllConnections
      BY <1>1, <2>1, <2>2, Zenon DEF Connections
    <3>3. mgr' \in {"idle", "update_connections", "selective_resend_pending"}
      BY <2>1
    <3> QED BY <3>1, <3>2, <3>3, Zenon
            DEF Connections, IsInjective, Left, Servers, AllConnections
  <2>4. Queues'
    BY <1>1, <1>2, <2>1 DEF Queues
  <2> QED BY <1>3, <2>3, <2>4 DEF TypeInv
<1>6. ASSUME NEW f \in Servers, Crash(f) PROVE TypeInv'
  <2>1. /\ alive' = alive \ {f} /\ conn' = [conn EXCEPT ![f] = <<>>]
        /\ work' = [work EXCEPT ![f] = <<>>] /\ puts' = [puts EXCEPT ![f] = <<>>]
        /\ respond_queue_' = [respond_queue_ EXCEPT ![f] = <<>>]
        /\ UNCHANGED <<clients_, failed, mgr>>
    BY <1>6 DEF Crash, l2Vars
  <2>2. PICK k \in 0..Len(acks[f]) : acks' = [acks EXCEPT ![f] = SubSeq(acks[f], 1, k)]
    BY <1>6, Zenon DEF Crash
  <2>3. SubSeq(acks[f], 1, k) \in Seq(Requests)
    BY <1>1, Prefix DEF Queues
  <2>4. acks' \in [Servers -> Seq(Requests)]
    BY <1>1, <2>2, <2>3 DEF Queues
  <2>5. <<>> \in Seq(Requests) /\ <<>> \in Seq(L3Op)
    OBVIOUS
  <2>6. Queues'
    BY <1>1, <1>2, <2>1, <2>4, <2>5 DEF Queues
  <2>7. alive' \in SUBSET Servers
    BY <1>1, <2>1 DEF Connections
  <2>8. Connections'
    BY <1>1, <2>1, <2>7, Zenon DEF Connections
  <2> QED BY <1>3, <2>6, <2>8 DEF TypeInv
<1> QED BY <1>4, <1>5, <1>6

(***************************************************************************)
(* The messages under way and the queues of the servers are of requests    *)
(* that were made, a batch is acked at most as often as it has requests,   *)
(* and after l3proxy_interface::remove_connection the L2 tail has one      *)
(* connection for every column the hash can give, to distinct servers.     *)
(***************************************************************************)
THEOREM FailoverTypeOK == Spec => []TypeOK
<1>1. ASSUME TypeInv, UNCHANGED vars PROVE TypeInv'
  <2>1. UNCHANGED <<pending_count_, batchAcked, l1acks, chain_seq_no_, pending_, clients_, conn,
                    last_seen_seq_, work, puts, respond_queue_, acks, stored, answered,
                    alive, failed, mgr>>
    BY <1>1 DEF vars, l1Vars, l2Vars, l3Vars, mgrVars
  <2>2. Queues' /\ L1Typed' /\ L2Typed' /\ L3Typed' /\ Connections'
    BY <1>1, <2>1, Zenon DEF TypeInv, Queues, L1Typed, L2Typed, L3Typed, Connections
  <2> QED BY <2>2 DEF TypeInv
<1>2. TypeInv /\ [Next]_vars => TypeInv'
  BY <1>1, SendStep, AckStep, ServerStep, FailureStep DEF Next
<1> QED BY InitTyped, Typed, <1>2, PTL DEF Spec
=============================================================================
