-------------------------- MODULE ChainModuleProofs --------------------------
(***************************************************************************)
(* Proofs about ChainModule: the type invariant, and that ChainInv is      *)
(* inductive. LogOrder, PendingCovers and AckedIsDurable follow, for every *)
(* number of replicas, commands, failures and connections.                 *)
(***************************************************************************)
EXTENDS ChainModule, TLAPS

(***************************************************************************)
(* Facts about the operators of the model                                  *)
(***************************************************************************)

\* Replacing one entry of a table keeps the type of the table.
LEMMA UpdateType ==
  ASSUME NEW D, NEW S, NEW f \in [D -> S], NEW d \in D, NEW s \in S
  PROVE  [f EXCEPT ![d] = s] \in [D -> S]
OBVIOUS

\* The elements of a sequence that was appended to, and of two put together.
LEMMA AppendAt ==
  ASSUME NEW S, NEW s \in Seq(S), NEW x \in S, NEW i \in 1..Len(s)
  PROVE  i \in DOMAIN Append(s, x) /\ Append(s, x)[i] = s[i]
OBVIOUS

LEMMA ConcatAt ==
  ASSUME NEW S, NEW s \in Seq(S), NEW t \in Seq(S), NEW i \in 1..Len(s \o t)
  PROVE  \/ i \in 1..Len(s) /\ (s \o t)[i] = s[i]
         \/ i - Len(s) \in 1..Len(t) /\ (s \o t)[i] = t[i - Len(s)]
OBVIOUS

\* What next_->request leaves on the connections: channels of messages.
LEMMA RequestType ==
  ASSUME TypeOK, NEW n \in Nodes, NEW q \in Seq(Msg), NEW ch \in [Conns -> Seq(Msg)]
  PROVE  Request(n, q, ch) \in [Conns -> Seq(Msg)]
BY DEF Request, TypeOK, Conns

\* Closing a connection leaves a sequence of messages on it.
LEMMA RemainsType ==
  ASSUME NEW ch \in [Conns -> Seq(Msg)], NEW c \in 0..MaxConns,
         NEW q \in Remains(ch, c)
  PROVE  q \in Seq(Msg)
<1>1. CASE c = 0
  BY <1>1 DEF Remains
<1>2. CASE c # 0
  <2>1. ch[c] \in Seq(Msg)
    BY <1>2, ChainAssumption DEF Conns
  <2>2. CASE LossyClose
    <3>1. PICK k \in 0..Len(ch[c]) : q = SubSeq(ch[c], 1, k)
      BY <1>2, <2>2 DEF Remains
    <3> QED BY <2>1, <3>1
  <2> QED BY <1>2, <2>1, <2>2 DEF Remains
<1> QED BY <1>1, <1>2

\* What resend_pending sorts is a sequence of the messages it is given.
LEMMA SortedType ==
  ASSUME NEW S \in SUBSET Msg, NEW s \in Sorted(S)
  PROVE  s \in Seq(Msg) /\ Range(s) = S
<1>1. PICK k \in 0..Cardinality(S) : s \in [1..k -> S]
  BY DEF Sorted
<1>2. k \in Nat /\ s \in [1..k -> Msg]
  BY <1>1
<1>3. Range(s) = S
  BY DEF Sorted
<1> QED BY <1>2, <1>3

\* The message the head renumbers is a message.
LEMMA NumberedType ==
  ASSUME TypeOK, NEW n \in Nodes, NEW m \in Msg
  PROVE  Numbered(n, m) \in Msg /\ Numbered(n, m).op = m.op
BY DEF Numbered, TypeOK, Msg

\* Accept keeps the types of what it changes.
LEMMA AcceptType ==
  ASSUME TypeOK, NEW n \in Nodes, NEW m \in Msg, NEW ch \in [Conns -> Seq(Msg)],
         Accept(n, m, ch)
  PROVE  /\ chain_seq_no_' \in [Nodes -> Nat]
         /\ log' \in [Nodes -> Seq(Ops)]
         /\ pending_' \in [Nodes -> SUBSET Msg]
         /\ reqs' \in [Conns -> Seq(Msg)]
         /\ completed' \in [Nodes -> SUBSET Msg]
         /\ unacked' \subseteq Msg
<1>1. m.op \in Ops
  BY DEF Msg
<1>2. /\ chain_seq_no_' \in [Nodes -> Nat]
      /\ log' \in [Nodes -> Seq(Ops)]
      /\ pending_' \in [Nodes -> SUBSET Msg]
  <2>1. /\ chain_seq_no_ \in [Nodes -> Nat] /\ log \in [Nodes -> Seq(Ops)]
        /\ pending_ \in [Nodes -> SUBSET Msg]
    BY Zenon DEF TypeOK
  <2>2. chain_seq_no_' \in [Nodes -> Nat]
    BY <2>1 DEF Accept
  <2>3. Append(log[n], m.op) \in Seq(Ops)
    BY <1>1, <2>1
  <2>4. log' \in [Nodes -> Seq(Ops)]
    BY <2>1, <2>3 DEF Accept
  <2>5. pending_' \in [Nodes -> SUBSET Msg]
    BY <2>1 DEF Accept
  <2> QED BY <2>2, <2>4, <2>5
<1>3. <<m>> \in Seq(Msg)
  OBVIOUS
<1>4. reqs' \in [Conns -> Seq(Msg)]
  BY <1>3, RequestType, Zenon DEF Accept
<1>5. CASE is_tail(n)
  <2>1. completed' \in [Nodes -> SUBSET Msg]
    <3>1. completed \in [Nodes -> SUBSET Msg]
      BY DEF TypeOK
    <3>2. completed' = [completed EXCEPT ![n] = completed[n] \cup {m}]
      BY <1>5 DEF Accept, ReplicationComplete
    <3> QED BY <3>1, <3>2
  <2>2. unacked' \subseteq Msg
    BY <1>5 DEF Accept, ReplicationComplete, TypeOK
  <2> QED BY <1>2, <1>4, <2>1, <2>2
<1>6. CASE ~is_tail(n)
  <2>1. completed' = completed /\ unacked' = unacked
    BY <1>6 DEF Accept
  <2> QED BY <1>2, <1>4, <2>1, Zenon DEF TypeOK
<1> QED BY <1>5, <1>6

\* What is left of the acks on a connection when the first one, and k more, were read.
LEMMA RestOf ==
  ASSUME NEW S, NEW q \in Seq(S), q # <<>>, NEW k \in Nat
  PROVE  /\ Head(q) \in S /\ Head(q) = q[1] /\ 1 \in 1..Len(q)
         /\ SubSeq(q, 2 + k, Len(q)) \in Seq(S)
         /\ \A i \in 1..Len(SubSeq(q, 2 + k, Len(q))) :
               /\ i + 1 + k \in 1..Len(q)
               /\ SubSeq(q, 2 + k, Len(q))[i] = q[i + 1 + k]
<1>1. Head(q) \in S /\ Head(q) = q[1] /\ 1 \in 1..Len(q)
  OBVIOUS
<1>2. CASE 2 + k <= Len(q)
  <2>1. \A i \in (2 + k)..Len(q) : q[i] \in S
    BY <1>2
  <2> QED BY <1>1, <1>2, <2>1
<1>3. CASE 2 + k > Len(q)
  <2>1. SubSeq(q, 2 + k, Len(q)) = <<>>
    BY <1>3
  <2> QED BY <1>1, <2>1
<1> QED BY <1>2, <1>3

\* Ack keeps the types of what it changes.
LEMMA AckType ==
  ASSUME TypeOK, NEW n \in Nodes, NEW m \in Msg, NEW ch \in [Conns -> Seq(Msg)],
         NEW threw \in BOOLEAN, Ack(n, m, ch, threw)
  PROVE  /\ pending_' \in [Nodes -> SUBSET Msg]
         /\ ack_queue_' \in [Nodes -> Seq(Msg)]
         /\ acks' \in [Conns -> Seq(Msg)]
         /\ released' \subseteq Ops
<1> DEFINE q == Append(ack_queue_[n], m)
<1>1. m.op \in Ops
  BY DEF Msg
<1>2. ack_queue_ \in [Nodes -> Seq(Msg)] /\ q \in Seq(Msg)
  BY DEF TypeOK
<1>3. pending_' \in [Nodes -> SUBSET Msg]
  BY Zenon DEF Ack, TypeOK
<1>4. ack_queue_' \in [Nodes -> Seq(Msg)]
  <2>1. \/ ack_queue_' = ack_queue_
        \/ ack_queue_' = [ack_queue_ EXCEPT ![n] = <<>>]
        \/ ack_queue_' = [ack_queue_ EXCEPT ![n] = q]
    BY Zenon DEF Ack
  <2>2. <<>> \in Seq(Msg)
    OBVIOUS
  <2> HIDE DEF q
  <2> QED BY <1>2, <2>1, <2>2, UpdateType, Zenon
<1>5. acks' \in [Conns -> Seq(Msg)]
  <2>1. \/ acks' = ch
        \/ prev_[n] \in open /\ acks' = [ch EXCEPT ![prev_[n]] = ch[prev_[n]] \o q]
    BY Zenon DEF Ack
  <2>2. open \subseteq Conns
    BY DEF TypeOK
  <2> HIDE DEF q
  <2>3. CASE prev_[n] \in open
    <3>1. ch[prev_[n]] \o q \in Seq(Msg)
      BY <1>2, <2>2, <2>3
    <3> QED BY <2>1, <2>2, <2>3, <3>1, UpdateType, Zenon
  <2> QED BY <2>1, <2>3
<1>6. released' \subseteq Ops
  BY <1>1, Zenon DEF Ack, TypeOK
<1> QED BY <1>3, <1>4, <1>5, <1>6

(***************************************************************************)
(* Type correctness                                                        *)
(***************************************************************************)

\* Every plan of the manager has the type of a plan.
LEMMA PlanType ==
  /\ Idle \in Plans
  /\ \A f \in Nodes : RepairPlan(f) \in Plans
  /\ mgr \in Plans => Aborted \in Plans
<1>1. Idle \in Plans
  BY ChainAssumption DEF Idle, Plans, Steps, Roles, Nodes
<1>2. ASSUME NEW f \in Nodes PROVE RepairPlan(f) \in Plans
  BY <1>1, ChainAssumption DEF RepairPlan, Plans, Steps, Roles, Nodes
<1>3. mgr \in Plans => Aborted \in Plans
  BY DEF Aborted, Plans, Steps
<1> QED BY <1>1, <1>2, <1>3

\* The chain starts with every variable of its type.
LEMMA TypeInit == Init => TypeOK
<1> SUFFICES ASSUME Init PROVE TypeOK
  OBVIOUS
<1>1. mgr \in Plans
  BY PlanType DEF Init
<1>2. ends \in [Conns -> [src : Nodes, dst : Nodes]]
  BY ChainAssumption DEF Init, Conns, Nodes
<1>3. /\ role_ \in [Nodes -> Roles]
      /\ next_ \in [Nodes -> 0..MaxConns]
      /\ numConns \in 0..MaxConns
      /\ open \subseteq Conns
      /\ entry \in Nodes
  BY ChainAssumption DEF Init, Roles, Nodes, Conns
<1>4. /\ reqs \in [Conns -> Seq(Msg)] /\ acks \in [Conns -> Seq(Msg)]
      /\ log \in [Nodes -> Seq(Ops)] /\ ack_queue_ \in [Nodes -> Seq(Msg)]
  BY DEF Init
<1>5. /\ pending_ \in [Nodes -> SUBSET Msg] /\ completed \in [Nodes -> SUBSET Msg]
      /\ unacked \subseteq Msg /\ released \subseteq Ops
      /\ alive \subseteq Nodes /\ failed \subseteq Nodes
  BY DEF Init
<1>6. /\ chain_seq_no_ \in [Nodes -> Nat] /\ extraAcks \in Nat
      /\ prev_ \in [Nodes -> 0..MaxConns]
  BY ChainAssumption DEF Init
<1> QED BY <1>1, <1>2, <1>3, <1>4, <1>5, <1>6, Zenon DEF TypeOK

\* Every action of the replicas, the manager and the environment keeps the types.
LEMMA TypeNext == TypeOK /\ [Next]_vars => TypeOK'
<1> SUFFICES ASSUME TypeOK, [Next]_vars PROVE TypeOK'
  OBVIOUS
<1> USE DEF mgrVars, nodeVars, netVars, envVars
<1>1. ASSUME NEW op \in Ops, Submit(op) PROVE TypeOK'
  <2> DEFINE m == Numbered(entry, [seq |-> 0, op |-> op])
  <2>1. entry \in Nodes /\ m \in Msg
    BY NumberedType, Zenon DEF TypeOK, Msg
  <2>2. Accept(entry, m, reqs) /\ reqs \in [Conns -> Seq(Msg)]
    BY <1>1 DEF Submit, TypeOK
  <2> HIDE DEF m
  <2>3. /\ chain_seq_no_' \in [Nodes -> Nat]
        /\ log' \in [Nodes -> Seq(Ops)]
        /\ pending_' \in [Nodes -> SUBSET Msg]
        /\ reqs' \in [Conns -> Seq(Msg)]
        /\ completed' \in [Nodes -> SUBSET Msg]
        /\ unacked' \subseteq Msg
    BY <2>1, <2>2, AcceptType
  <2>4. UNCHANGED <<role_, ack_queue_, next_, prev_, numConns, ends, open,
                    acks, entry, extraAcks, released, mgrVars>>
    BY <1>1 DEF Submit
  <2> QED BY <2>3, <2>4, Zenon DEF TypeOK
<1>2. ASSUME NEW c \in Conns, ChainRequest(c) PROVE TypeOK'
  <2> DEFINE n == ends[c].dst
             m == Numbered(n, Head(reqs[c]))
             read == [reqs EXCEPT ![c] = Tail(reqs[c])]
  <2>1. n \in Nodes
    BY DEF TypeOK
  <2>2. reqs[c] \in Seq(Msg) /\ reqs[c] # <<>>
    BY <1>2 DEF ChainRequest, TypeOK
  <2>3. Head(reqs[c]) \in Msg /\ Tail(reqs[c]) \in Seq(Msg)
    BY <2>2
  <2>4. m \in Msg
    BY <2>1, <2>3, NumberedType
  <2>5. read \in [Conns -> Seq(Msg)]
    BY <2>3, UpdateType DEF TypeOK
  <2>6. prev_' \in [Nodes -> 0..MaxConns]
    BY <1>2 DEF ChainRequest, TypeOK, Conns
  <2>7. CASE Accept(n, m, read)
    <3> HIDE DEF n, m, read
    <3>1. /\ chain_seq_no_' \in [Nodes -> Nat]
          /\ log' \in [Nodes -> Seq(Ops)]
          /\ pending_' \in [Nodes -> SUBSET Msg]
          /\ reqs' \in [Conns -> Seq(Msg)]
          /\ completed' \in [Nodes -> SUBSET Msg]
          /\ unacked' \subseteq Msg
      BY <2>1, <2>4, <2>5, <2>7, AcceptType
    <3> QED BY <1>2, <2>6, <3>1, Zenon DEF ChainRequest, TypeOK
  <2>8. CASE /\ reqs' = read
             /\ UNCHANGED <<chain_seq_no_, log, pending_, completed, unacked>>
    BY <1>2, <2>5, <2>6, <2>8, Zenon DEF ChainRequest, TypeOK
  <2> QED BY <1>2, <2>7, <2>8 DEF ChainRequest
<1>3. ASSUME NEW m \in unacked, NEW again \in BOOLEAN, ExternalAck(m, again)
      PROVE  TypeOK'
  <2>1. PICK threw \in BOOLEAN : Ack(N, m, acks, threw)
    BY <1>3 DEF ExternalAck
  <2>2. N \in Nodes /\ m \in Msg /\ acks \in [Conns -> Seq(Msg)]
    BY ChainAssumption DEF Nodes, TypeOK
  <2>3. extraAcks' \in Nat /\ unacked' \subseteq Msg
    BY <1>3, SMTT(20) DEF ExternalAck, TypeOK
  <2>4. /\ pending_' \in [Nodes -> SUBSET Msg]
        /\ ack_queue_' \in [Nodes -> Seq(Msg)]
        /\ acks' \in [Conns -> Seq(Msg)]
        /\ released' \subseteq Ops
    BY <2>1, <2>2, AckType
  <2>5. UNCHANGED <<role_, chain_seq_no_, log, next_, prev_, numConns, ends,
                    open, reqs, entry, completed, mgrVars>>
    BY <1>3 DEF ExternalAck
  <2> QED BY <2>3, <2>4, <2>5, Zenon DEF TypeOK
<1>4. ASSUME NEW n \in Nodes, ChainAck(n) PROVE TypeOK'
  <2> DEFINE c == next_[n]
             read(k) == [acks EXCEPT ![c] = SubSeq(acks[c], 2 + k, Len(acks[c]))]
  <2>1. c \in Conns /\ acks[c] # <<>>
    BY <1>4, ChainAssumption DEF ChainAck, TypeOK, Conns
  <2>2. acks[c] \in Seq(Msg)
    BY <2>1 DEF TypeOK
  <2>3. PICK threw \in BOOLEAN : \E k \in Skipped(threw) : Ack(n, Head(acks[c]), read(k), threw)
    BY <1>4, Zenon DEF ChainAck
  <2>4. PICK k \in Skipped(threw) : Ack(n, Head(acks[c]), read(k), threw)
    BY <2>3
  <2>5. k \in Nat
    BY ChainAssumption DEF Skipped
  <2>6. Head(acks[c]) \in Msg /\ read(k) \in [Conns -> Seq(Msg)]
    <3>1. Head(acks[c]) \in Msg /\ SubSeq(acks[c], 2 + k, Len(acks[c])) \in Seq(Msg)
      BY <2>1, <2>2, <2>5, RestOf
    <3> QED BY <2>1, <3>1, UpdateType DEF TypeOK
  <2> HIDE DEF c, read
  <2>7. /\ pending_' \in [Nodes -> SUBSET Msg]
        /\ ack_queue_' \in [Nodes -> Seq(Msg)]
        /\ acks' \in [Conns -> Seq(Msg)]
        /\ released' \subseteq Ops
    BY <2>4, <2>6, AckType
  <2> QED BY <1>4, <2>7, Zenon DEF ChainAck, TypeOK
<1>5. ASSUME NEW f \in Nodes, FailNode(f) PROVE TypeOK'
  <2>1. mgr' \in Plans /\ failed' \subseteq Nodes
    BY <1>5, PlanType DEF FailNode, TypeOK
  <2> QED BY <1>5, <2>1, Zenon DEF FailNode, TypeOK
<1>6. ASSUME NEW f \in Nodes, Crash(f) PROVE TypeOK'
  <2>1. next_[f] \in 0..MaxConns /\ prev_[f] \in 0..MaxConns
    BY DEF TypeOK
  <2>2. reqs \in [Conns -> Seq(Msg)] /\ acks \in [Conns -> Seq(Msg)]
    BY DEF TypeOK
  <2>3. <<>> \in Seq(Msg)
    OBVIOUS
  <2>4. reqs' \in [Conns -> Seq(Msg)]
    <3>1. PICK q \in Remains(reqs, next_[f]) :
             reqs' = [c \in Conns |-> IF ends[c].dst = f THEN <<>>
                                      ELSE IF c = next_[f] THEN q ELSE reqs[c]]
      BY <1>6 DEF Crash
    <3>2. q \in Seq(Msg)
      BY <2>1, <2>2, RemainsType
    <3> QED BY <2>2, <2>3, <3>1, <3>2
  <2>5. acks' \in [Conns -> Seq(Msg)]
    <3>1. PICK q \in Remains(acks, prev_[f]) :
             acks' = [c \in Conns |-> IF ends[c].src = f THEN <<>>
                                      ELSE IF c = prev_[f] THEN q ELSE acks[c]]
      BY <1>6 DEF Crash
    <3>2. q \in Seq(Msg)
      BY <2>1, <2>2, RemainsType
    <3> QED BY <2>2, <2>3, <3>1, <3>2
  <2>6. alive' \subseteq Nodes /\ open' \subseteq Conns
    BY <1>6 DEF Crash, TypeOK
  <2> QED BY <1>6, <2>4, <2>5, <2>6, Zenon DEF Crash, TypeOK
<1>7. CASE SetupChain
  <2> DEFINE n == mgr.node
  <2>1. n \in Nodes /\ mgr.next \in 0..N /\ mgr.role \in Roles /\ mgr.then \in Steps
    BY DEF TypeOK, Plans
  <2>2. next_[n] \in 0..MaxConns
    BY <2>1 DEF TypeOK
  <2>3. role_' \in [Nodes -> Roles]
    BY <1>7, <2>1 DEF SetupChain, TypeOK
  <2>4. reqs' \in [Conns -> Seq(Msg)]
    <3>1. PICK q \in Remains(reqs, next_[n]) :
             reqs' = [k \in Conns |-> IF k = next_[n] THEN q ELSE reqs[k]]
      BY <1>7 DEF SetupChain
    <3>2. reqs \in [Conns -> Seq(Msg)]
      BY DEF TypeOK
    <3>3. q \in Seq(Msg)
      BY <2>2, <3>2, RemainsType
    <3> QED BY <3>1, <3>2, <3>3, Zenon
  <2>5. acks' \in [Conns -> Seq(Msg)]
    <3>1. acks' = [k \in Conns |-> IF k = next_[n] THEN <<>> ELSE acks[k]]
      BY <1>7 DEF SetupChain
    <3>2. <<>> \in Seq(Msg) /\ acks \in [Conns -> Seq(Msg)]
      BY DEF TypeOK
    <3> QED BY <3>1, <3>2
  <2>6. numConns + 1 \in Conns /\ numConns + 1 \in 0..MaxConns /\ 0 \in 0..MaxConns
    <3>1. numConns + 1 \in Conns
      BY <1>7 DEF SetupChain
    <3> QED BY <3>1, ChainAssumption DEF Conns
  <2>7. /\ numConns' \in 0..MaxConns
        /\ ends' \in [Conns -> [src : Nodes, dst : Nodes]]
        /\ open' \subseteq Conns
        /\ next_' \in [Nodes -> 0..MaxConns]
    <3>1. CASE mgr.next \in alive
      <4>1. /\ numConns' = numConns + 1
            /\ ends' = [ends EXCEPT ![numConns + 1] = [src |-> n, dst |-> mgr.next]]
            /\ open' = (open \ {next_[n]}) \cup {numConns + 1}
            /\ next_' = [next_ EXCEPT ![n] = numConns + 1]
        BY <1>7, <3>1 DEF SetupChain
      <4>2. [src |-> n, dst |-> mgr.next] \in [src : Nodes, dst : Nodes]
        BY <2>1, <3>1, Zenon DEF TypeOK
      <4>3. /\ ends \in [Conns -> [src : Nodes, dst : Nodes]]
            /\ next_ \in [Nodes -> 0..MaxConns]
            /\ open \subseteq Conns
        BY DEF TypeOK
      <4> HIDE DEF n
      <4>4. ends' \in [Conns -> [src : Nodes, dst : Nodes]]
        BY <2>6, <4>1, <4>2, <4>3, UpdateType, Zenon
      <4>5. next_' \in [Nodes -> 0..MaxConns]
        BY <2>1, <2>6, <4>1, <4>3, UpdateType
      <4> QED BY <2>1, <2>6, <4>1, <4>3, <4>4, <4>5
    <3>2. CASE mgr.next \notin alive
      <4>1. /\ numConns' = numConns /\ ends' = ends
            /\ open' = open \ {next_[n]}
            /\ next_' = [next_ EXCEPT ![n] = 0]
        BY <1>7, <3>2 DEF SetupChain
      <4>2. next_' \in [Nodes -> 0..MaxConns]
        BY <2>1, <2>6, <4>1, UpdateType DEF TypeOK
      <4> QED BY <4>1, <4>2, Zenon DEF TypeOK
    <3> QED BY <3>1, <3>2
  <2>8. mgr' \in Plans
    <3>1. mgr \in Plans /\ Aborted \in Plans
      BY PlanType DEF TypeOK
    <3>2. [mgr EXCEPT !.step = mgr.then] \in Plans
      BY <2>1, <3>1 DEF Plans
    <3> QED BY <1>7, <3>1, <3>2 DEF SetupChain
  <2> QED BY <1>7, <2>3, <2>4, <2>5, <2>7, <2>8, Zenon DEF SetupChain, TypeOK
<1>8. CASE FetchSeq
  <2>1. mgr' \in Plans
    <3>1. mgr \in Plans /\ chain_seq_no_[mgr.next] \in Int /\ "resend_pending" \in Steps
      BY <1>8 DEF FetchSeq, TypeOK, Steps
    <3> QED BY <1>8, <3>1, Zenon DEF FetchSeq, Plans
  <2> QED BY <1>8, <2>1, Zenon DEF FetchSeq, TypeOK
<1>9. CASE ResendPending
  <2> DEFINE n == mgr.node
             ops == Unseen(n, mgr.seq)
  <2>1. n \in Nodes
    BY DEF TypeOK, Plans
  <2>2. ops \subseteq Msg
    BY <2>1 DEF Unseen, TypeOK
  <2>3. mgr' \in Plans
    BY <1>9, PlanType DEF ResendPending
  <2>4. CASE is_tail(n)
    <3>1. /\ completed' = [completed EXCEPT ![n] = completed[n] \cup ops]
          /\ unacked' = unacked \cup ops
          /\ reqs' = reqs
      BY <1>9, <2>4 DEF ResendPending, ReplicationComplete
    <3> HIDE DEF ops, n
    <3>2. completed \in [Nodes -> SUBSET Msg] /\ unacked \subseteq Msg
      BY DEF TypeOK
    <3>3. completed' \in [Nodes -> SUBSET Msg] /\ unacked' \subseteq Msg
      BY <2>1, <2>2, <3>1, <3>2
    <3> QED BY <1>9, <2>3, <3>1, <3>3, Zenon DEF ResendPending, TypeOK
  <2>5. CASE ~is_tail(n)
    <3>1. PICK op_list \in Sorted(ops) : reqs' = Request(n, op_list, reqs)
      BY <1>9, <2>5 DEF ResendPending
    <3>2. op_list \in Seq(Msg)
      BY <2>2, <3>1, SortedType
    <3>3. reqs' \in [Conns -> Seq(Msg)]
      BY <2>1, <3>1, <3>2, RequestType, Zenon DEF TypeOK
    <3> QED BY <1>9, <2>3, <2>5, <3>3, Zenon DEF ResendPending, TypeOK
  <2> QED BY <2>4, <2>5
<1>10. CASE UpdateConnections
  <2>1. mgr' \in Plans /\ entry' \in Nodes
    BY <1>10, PlanType, Zenon DEF UpdateConnections, TypeOK, Plans
  <2> QED BY <1>10, <2>1, Zenon DEF UpdateConnections, TypeOK
<1>11. CASE ManagerAborts
  BY <1>11, PlanType, Zenon DEF ManagerAborts, TypeOK
<1>12. CASE UNCHANGED vars
  BY <1>12, Zenon DEF vars, TypeOK
<1> QED
  BY <1>1, <1>2, <1>3, <1>4, <1>5, <1>6, <1>7, <1>8, <1>9, <1>10, <1>11, <1>12
  DEF Next, Manager

\* Every variable of the chain keeps its type, whatever fails and whenever.
THEOREM TypeCorrect == Spec => []TypeOK
BY TypeInit, TypeNext, PTL DEF Spec

-----------------------------------------------------------------------------
(***************************************************************************)
(* A command that Accept runs in turn, the chain_requests and the acks     *)
(* keep ChainInv.                                                          *)
(***************************************************************************)

(***************************************************************************)
(* Messages and logs                                                       *)
(***************************************************************************)

\* A message that agrees with a log agrees with every log that leads it.
LEMMA AgreesLead ==
  ASSUME NEW k \in Seq(Ops), NEW l \in Seq(Ops), Leads(k, l), NEW m \in Msg, Agrees(m, l)
  PROVE  Agrees(m, k)
BY DEF Agrees, Leads, Msg

\* A message that agrees with a log agrees with it after the next command.
LEMMA AgreesAppend ==
  ASSUME NEW l \in Seq(Ops), NEW o \in Ops, NEW m \in Msg, Agrees(m, l)
  PROVE  Agrees(m, Append(l, o))
BY DEF Agrees, Msg

\* The command of a message that agrees with a log is in the log.
LEMMA AgreesRange ==
  ASSUME NEW l \in Seq(Ops), NEW m \in Msg, Agrees(m, l)
  PROVE  m.op \in Range(l)
BY DEF Agrees, Range, Msg

\* A log that leads another still does when it grows, and when the other grows
\* by the command it has next.
LEMMA LeadsAppend ==
  ASSUME NEW k \in Seq(Ops), NEW l \in Seq(Ops), Leads(k, l), NEW o \in Ops
  PROVE  /\ Leads(Append(k, o), l)
         /\ Len(l) + 1 <= Len(k) /\ k[Len(l) + 1] = o => Leads(k, Append(l, o))
<1>1. Leads(Append(k, o), l)
  BY DEF Leads
<1>2. ASSUME Len(l) + 1 <= Len(k), k[Len(l) + 1] = o PROVE Leads(k, Append(l, o))
  BY <1>2 DEF Leads
<1> QED BY <1>1, <1>2

(***************************************************************************)
(* A command run in its turn: at n, and at every survivor before it.       *)
(***************************************************************************)
InTurn(n, m) ==
    /\ m.seq = chain_seq_no_[n] + 1
    /\ \A i \in Members : i < n => Agrees(m, log[i])

\* What the channels carry agrees with the log of the sender.
ChannelsAgree(channels) ==
    /\ \A c \in Conns : \A i \in 1..Len(channels[c]) : Agrees(channels[c][i], log[ends[c].src])
    /\ \A c \in Conns : c > numConns => channels[c] = <<>>

\* A command that is run in its turn keeps everything ChainInv says.
LEMMA AcceptInv ==
  ASSUME TypeOK, ChainInv, NEW n \in Nodes, NEW m \in Msg,
         NEW ch \in [Conns -> Seq(Msg)], ChannelsAgree(ch),
         InTurn(n, m), Accept(n, m, ch),
         UNCHANGED <<failed, role_, ack_queue_, next_, numConns, ends, open, acks,
                     released, mgr>>
  PROVE  ChainInv'
<1> DEFINE next == Append(log[n], m.op)
<1>1. m.op \in Ops
  BY DEF Msg
<1>2. /\ log \in [Nodes -> Seq(Ops)] /\ log[n] \in Seq(Ops)
      /\ pending_ \in [Nodes -> SUBSET Msg] /\ chain_seq_no_ \in [Nodes -> Nat]
      /\ failed \subseteq Nodes /\ ends \in [Conns -> [src : Nodes, dst : Nodes]]
      /\ next_ \in [Nodes -> 0..MaxConns] /\ unacked \subseteq Msg
      /\ acks \in [Conns -> Seq(Msg)] /\ ack_queue_ \in [Nodes -> Seq(Msg)]
      /\ reqs \in [Conns -> Seq(Msg)] /\ completed \in [Nodes -> SUBSET Msg]
  BY Zenon DEF TypeOK
<1>2a. log \in [Nodes -> Seq(Ops)] /\ \A i \in Nodes : log[i] \in Seq(Ops)
  BY <1>2
<1>3. /\ log' = [log EXCEPT ![n] = next]
      /\ pending_' = [pending_ EXCEPT ![n] = pending_[n] \cup {m}]
      /\ chain_seq_no_' = [chain_seq_no_ EXCEPT ![n] = chain_seq_no_[n] + 1]
  BY DEF Accept
<1>4. m.seq = Len(log[n]) + 1
  BY DEF InTurn, ChainInv, SeqIsLength
<1>5. /\ log'[n] = next /\ next \in Seq(Ops)
      /\ Len(next) = Len(log[n]) + 1 /\ next[Len(log[n]) + 1] = m.op
      /\ \A s \in 1..Len(log[n]) : next[s] = log[n][s]
      /\ \A i \in Nodes : i # n => log'[i] = log[i]
  BY <1>1, <1>2, <1>3, SMTT(30)
<1> HIDE DEF next
<1>6. Agrees(m, log'[n])
  BY <1>2, <1>4, <1>5, SMTT(30) DEF Agrees
<1>7. ASSUME NEW p \in Msg, NEW i \in Nodes, Agrees(p, log[i])
      PROVE  Agrees(p, log'[i])
  <2>1. CASE i = n
    BY <1>1, <1>2a, <1>5, <1>7, <2>1, AgreesAppend, Zenon DEF next
  <2> QED BY <1>5, <1>7, <2>1
<1>8. ASSUME NEW p \in Msg, Everywhere(p) PROVE Everywhere(p)'
  <2> SUFFICES ASSUME NEW j \in Members PROVE Agrees(p, log'[j])
    BY DEF Everywhere, Members, Agrees
  <2> QED BY <1>7, <1>8 DEF Everywhere, Members
<1>9. SeqIsLength'
  BY <1>2, <1>3, <1>5 DEF SeqIsLength, ChainInv
<1>10. \A c \in Conns : \A i \in 1..Len(ch[c]) : Agrees(ch[c][i], log'[ends[c].src])
  <2> SUFFICES ASSUME NEW c \in Conns, NEW i \in 1..Len(ch[c])
               PROVE  Agrees(ch[c][i], log'[ends[c].src])
    OBVIOUS
  <2>1. ends[c].src \in Nodes
    BY <1>2
  <2>2. ch[c] \in Seq(Msg) /\ ch[c][i] \in Msg
    OBVIOUS
  <2> QED BY <1>7, <2>1, <2>2 DEF ChannelsAgree
<1>11. RequestsAgree' /\ (\A c \in Conns : c > numConns => reqs'[c] = <<>>)
  <2>1. CASE reqs' = ch
    BY <1>10, <2>1, Zenon DEF RequestsAgree, ChannelsAgree, Agrees
  <2>2. CASE /\ next_[n] \in open
             /\ reqs' = [ch EXCEPT ![next_[n]] = ch[next_[n]] \o <<m>>]
    <3> DEFINE k == next_[n]
    <3>1. k \in Conns /\ k <= numConns /\ ends[k].src = n /\ numConns \in Int
      <4>1. k \in Conns /\ numConns \in Int
        BY <2>2, ChainAssumption DEF TypeOK
      <4>2. k # 0
        BY <4>1 DEF Conns
      <4> QED BY <4>1, <4>2 DEF ChainInv, LinksForward
    <3>2. \A c \in Conns : c # k => reqs'[c] = ch[c]
      BY <2>2
    <3>3. reqs'[k] = ch[k] \o <<m>> /\ ch[k] \in Seq(Msg)
      BY <2>2, <3>1
    <3>4. \A i \in 1..Len(reqs'[k]) : Agrees(reqs'[k][i], log'[ends[k].src])
      <4> SUFFICES ASSUME NEW i \in 1..Len(reqs'[k]) PROVE Agrees(reqs'[k][i], log'[n])
        BY <3>1
      <4>1. CASE i <= Len(ch[k])
        BY <1>10, <3>1, <3>3, <4>1
      <4>2. CASE i = Len(ch[k]) + 1
        <5>1. reqs'[k][i] = m
          BY <3>3, <4>2
        <5> QED BY <1>6, <5>1
      <4>3. Len(ch[k]) \in Nat /\ Len(reqs'[k]) = Len(ch[k]) + 1
        BY <3>3
      <4>4. i <= Len(ch[k]) \/ i = Len(ch[k]) + 1
        BY <4>3
      <4> QED BY <4>1, <4>2, <4>4, Zenon
    <3>5. \A c \in Conns : c > numConns => reqs'[c] = <<>>
      BY <3>1, <3>2 DEF ChannelsAgree, Conns
    <3> HIDE DEF k
    <3>6. \A c \in Conns : \A i \in 1..Len(reqs'[c]) : Agrees(reqs'[c][i], log'[ends[c].src])
      BY <1>10, <3>2, <3>4
    <3> QED BY <3>5, <3>6, Zenon DEF RequestsAgree, Agrees
  <2> QED BY <2>1, <2>2, Zenon DEF Accept, Request
<1>12. LinksForward'
  BY <1>11 DEF ChainInv, LinksForward, Adjacent
<1>13. RolesFit' /\ PlanFits'
  BY DEF ChainInv, RolesFit, RoleFits, PlanFits, Adjacent
<1>14. PendingAgrees'
  <2> SUFFICES ASSUME NEW i \in Nodes, NEW p \in pending_'[i] PROVE Agrees(p, log'[i])
    BY DEF PendingAgrees, Agrees
  <2>1. CASE i = n /\ p = m
    BY <1>6, <2>1
  <2>2. CASE ~(i = n /\ p = m)
    <3>1. p \in pending_[i] /\ p \in Msg
      BY <1>2, <1>3, <2>2
    <3> QED BY <1>7, <3>1 DEF ChainInv, PendingAgrees
  <2> QED BY <2>1, <2>2
<1>15. AcksSound'
  <2>1. \A p \in unacked' : Everywhere(p)'
    <3>1. \A p \in unacked : Everywhere(p)'
      BY <1>2, <1>8, Zenon DEF ChainInv, AcksSound
    <3>2. CASE is_tail(n)
      <4>1. unacked' = unacked \cup {m}
        BY <3>2 DEF Accept, ReplicationComplete
      <4>2. ASSUME NEW j \in Members PROVE Agrees(m, log'[j])
        <5>1. CASE j = n
          BY <1>6, <5>1
        <5>2. CASE j < n
          BY <1>7, <5>2 DEF InTurn, Members
        <5>3. CASE j > n
          BY <3>2, <5>3 DEF ChainInv, RolesFit, RoleFits, is_tail, Members
        <5> QED BY <5>1, <5>2, <5>3 DEF Members, Nodes
      <4>3. Everywhere(m)'
        BY <4>2 DEF Everywhere, Members, Agrees
      <4> QED BY <3>1, <4>1, <4>3
    <3>3. CASE ~is_tail(n)
      BY <3>1, <3>3 DEF Accept
    <3> QED BY <3>2, <3>3
  <2>2. ASSUME NEW c \in Conns, NEW i \in 1..Len(acks[c]) PROVE Everywhere(acks[c][i])'
    <3>1. acks[c] \in Seq(Msg)
      BY <1>2
    <3>2. acks[c][i] \in Msg /\ Everywhere(acks[c][i])
      BY <3>1 DEF ChainInv, AcksSound
    <3> QED BY <1>8, <3>2
  <2>3. ASSUME NEW k \in Nodes, NEW i \in 1..Len(ack_queue_[k])
        PROVE  Everywhere(ack_queue_[k][i])'
    <3>1. ack_queue_[k] \in Seq(Msg)
      BY <1>2
    <3>2. ack_queue_[k][i] \in Msg
      BY <3>1
    <3>3. Everywhere(ack_queue_[k][i])
      BY Zenon DEF ChainInv, AcksSound
    <3> QED BY <1>8, <3>2, <3>3
  <2> QED BY <2>1, <2>2, <2>3 DEF AcksSound
<1>16. LogOrder'
  <2> SUFFICES ASSUME NEW i \in Members, NEW j \in Nodes, i < j
               PROVE  Leads(log'[i], log'[j])
    BY DEF LogOrder, Members, Leads
  <2>1. Leads(log[i], log[j]) /\ i \in Nodes
    BY DEF ChainInv, LogOrder, Members
  <2>2. CASE i = n
    <3>1. j # n /\ log'[j] = log[j] /\ log[j] \in Seq(Ops)
      BY <1>2a, <1>5, <2>2 DEF Nodes
    <3> QED BY <1>1, <1>2a, <1>5, <2>1, <2>2, <3>1, LeadsAppend, Zenon DEF next
  <2>3. CASE j = n
    <3>1. i # n /\ log'[i] = log[i] /\ log[i] \in Seq(Ops)
      BY <1>2a, <1>5, <2>1, <2>3 DEF Nodes
    <3>2. Len(log[n]) + 1 <= Len(log[i]) /\ log[i][Len(log[n]) + 1] = m.op
      <4>1. Agrees(m, log[i])
        <5>1. i \in Members /\ i < n
          BY <2>3
        <5> QED BY <5>1, Zenon DEF InTurn
      <4> QED BY <1>4, <4>1, SMTT(30) DEF Agrees
    <3>3. log[n] \in Seq(Ops)
      BY <1>2a
    <3> QED BY <1>1, <1>5, <2>1, <2>3, <3>1, <3>2, <3>3, LeadsAppend, Zenon DEF next
  <2> QED BY <1>5, <2>1, <2>2, <2>3
<1>17. PendingCovers'
  <2> SUFFICES ASSUME NEW i \in Nodes, NEW j \in Members, NEW s \in 1..Len(log'[i]),
                      s > Len(log'[j])
               PROVE  [seq |-> s, op |-> log'[i][s]] \in pending_'[i]
    BY DEF PendingCovers, Members
  <2>1. Len(log[j]) <= Len(log'[j]) /\ Len(log[j]) \in Nat /\ Len(log'[j]) \in Nat
    <3>1. j \in Nodes /\ log[j] \in Seq(Ops)
      BY <1>2a DEF Members
    <3>2. Len(log[j]) \in Nat
      BY <3>1
    <3>3. CASE j = n
      <4>1. Len(log'[j]) = Len(log[j]) + 1
        BY <1>5, <3>3, Zenon
      <4> QED BY <3>2, <4>1
    <3>4. CASE j # n
      <4>1. log'[j] = log[j]
        BY <1>5, <3>1, <3>4, Zenon
      <4> QED BY <3>2, <4>1
    <3> QED BY <3>3, <3>4
  <2>2. CASE s \in 1..Len(log[i])
    <3>1. [seq |-> s, op |-> log[i][s]] \in pending_[i]
      <4>1. s > Len(log[j]) /\ j \in Members
        BY <2>1, <2>2
      <4> QED BY <2>2, <4>1 DEF ChainInv, PendingCovers
    <3>2. log'[i][s] = log[i][s]
      <4>1. CASE i = n
        BY <1>5, <2>2, <4>1
      <4> QED BY <1>5, <4>1, Zenon
    <3>3. pending_[i] \subseteq pending_'[i]
      BY <1>2, <1>3
    <3> QED BY <3>1, <3>2, <3>3, Zenon
  <2>3. CASE s \notin 1..Len(log[i])
    <3>1. i = n
      BY <1>5, <2>3, Zenon
    <3>2. s = Len(log[n]) + 1
      <4>1. s \in 1..Len(log'[n]) /\ Len(log'[n]) = Len(log[n]) + 1 /\ s \notin 1..Len(log[n])
        BY <1>5, <2>3, <3>1, Zenon
      <4>2. Len(log[n]) \in Nat
        BY <1>2a
      <4> QED BY <4>1, <4>2
    <3>3. m.seq = s /\ m.op = log'[i][s]
      BY <1>4, <1>5, <3>1, <3>2, Zenon
    <3>4. m = [seq |-> s, op |-> log'[i][s]]
      BY <3>3 DEF Msg
    <3> QED BY <1>2, <1>3, <3>1, <3>4
  <2> QED BY <2>2, <2>3
<1>18. AckedIsDurable'
  <2> SUFFICES ASSUME NEW j \in Members, NEW o \in released PROVE o \in Range(log'[j])
    BY DEF AckedIsDurable, Members
  <2>1. PICK s \in DOMAIN log[j] : log[j][s] = o
    BY Zenon DEF ChainInv, AckedIsDurable, Range
  <2>2. s \in 1..Len(log[j]) /\ log[j] \in Seq(Ops) /\ j \in Nodes
    BY <1>2a, <2>1 DEF Members
  <2>3. s \in DOMAIN log'[j] /\ log'[j][s] = o
    <3>1. CASE j = n
      <4>1. /\ log'[j] = next /\ next \in Seq(Ops) /\ next[s] = o
            /\ s \in 1..Len(log[j]) /\ Len(next) = Len(log[j]) + 1
        BY <1>5, <2>1, <2>2, <3>1, Zenon
      <4>2. Len(log[j]) \in Nat
        BY <2>2, SMTT(30)
      <4>3. s \in 1..Len(next)
        BY <4>1, <4>2, SMTT(30)
      <4>4. DOMAIN next = 1..Len(next)
        BY <4>1
      <4> QED BY <4>1, <4>3, <4>4, Zenon
    <3>2. CASE j # n
      BY <1>5, <2>1, <2>2, <3>2, Zenon
    <3> QED BY <3>1, <3>2, Zenon
  <2> QED BY <2>3, Zenon DEF Range
<1> QED
  BY <1>9, <1>11, <1>12, <1>13, <1>14, <1>15, <1>16, <1>17, <1>18 DEF ChainInv

-----------------------------------------------------------------------------
(***************************************************************************)
(* chain_request, ack and the response handler                             *)
(***************************************************************************)

\* A step that runs no command, and neither fails a replica nor changes what is
\* pending or released, keeps what ChainInv says of the logs.
LEMMA LogsInv ==
  ASSUME ChainInv, UNCHANGED <<failed, chain_seq_no_, log, pending_, released>>
  PROVE  /\ SeqIsLength' /\ PendingAgrees' /\ LogOrder' /\ PendingCovers' /\ AckedIsDurable'
         /\ \A p : Everywhere(p)' <=> Everywhere(p)
<1>1. SeqIsLength' /\ PendingAgrees'
  BY DEF ChainInv, SeqIsLength, PendingAgrees, Agrees
<1>2. LogOrder'
  BY DEF ChainInv, LogOrder, Leads, Members
<1>3. PendingCovers'
  BY DEF ChainInv, PendingCovers, Members
<1>4. AckedIsDurable'
  BY DEF ChainInv, AckedIsDurable, Members, Range
<1>5. \A p : Everywhere(p)' <=> Everywhere(p)
  BY DEF Everywhere, Members, Agrees
<1> QED BY <1>1, <1>2, <1>3, <1>4, <1>5

(***************************************************************************)
(* Acks                                                                    *)
(***************************************************************************)

\* Handling an ack for a command that every survivor has run keeps ChainInv:
\* what leaves pending_ is nowhere missing, and what is acked is durable.
LEMMA AckInv ==
  ASSUME TypeOK, ChainInv, NEW n \in Nodes, NEW m \in Msg, Everywhere(m),
         NEW ch \in [Conns -> Seq(Msg)],
         \A c \in Conns : \A i \in 1..Len(ch[c]) : Everywhere(ch[c][i]),
         \A c \in Conns : c > numConns => ch[c] = <<>>,
         NEW threw \in BOOLEAN, Ack(n, m, ch, threw), unacked' \subseteq unacked,
         UNCHANGED <<failed, role_, chain_seq_no_, log, next_, numConns, ends, open,
                     reqs, mgr>>
  PROVE  ChainInv'
<1> DEFINE q == Append(ack_queue_[n], m)
<1>1. /\ ack_queue_ \in [Nodes -> Seq(Msg)] /\ q \in Seq(Msg)
      /\ pending_ \in [Nodes -> SUBSET Msg] /\ log \in [Nodes -> Seq(Ops)]
  <2>1. /\ ack_queue_ \in [Nodes -> Seq(Msg)]
        /\ pending_ \in [Nodes -> SUBSET Msg] /\ log \in [Nodes -> Seq(Ops)]
    BY Zenon DEF TypeOK
  <2>2. ack_queue_[n] \in Seq(Msg)
    BY <2>1
  <2>3. q \in Seq(Msg)
    BY <2>2
  <2> QED BY <2>1, <2>3, Zenon
<1>2. \A i \in 1..Len(q) : Everywhere(q[i])
  <2>1. ack_queue_[n] \in Seq(Msg)
    BY <1>1
  <2>2. \A i \in 1..Len(ack_queue_[n]) : Everywhere(ack_queue_[n][i])
    BY Zenon DEF ChainInv, AcksSound
  <2> SUFFICES ASSUME NEW i \in 1..Len(q) PROVE Everywhere(q[i])
    OBVIOUS
  <2>3. CASE i <= Len(ack_queue_[n])
    <3>1. i \in 1..Len(ack_queue_[n])
      BY <2>1, <2>3
    <3>2. q[i] = ack_queue_[n][i]
      BY <2>1, <3>1, AppendAt
    <3> QED BY <2>2, <3>1, <3>2, Zenon
  <2>4. CASE i = Len(ack_queue_[n]) + 1
    <3>1. q[i] = m
      BY <2>1, <2>4
    <3> QED BY <3>1
  <2> QED BY <2>1, <2>3, <2>4
<1>3. pending_' = [pending_ EXCEPT ![n] = {p \in pending_[n] : p.seq # m.seq}]
  BY Zenon DEF Ack
<1>4. \/ ack_queue_' = ack_queue_
      \/ ack_queue_' = [ack_queue_ EXCEPT ![n] = <<>>]
      \/ ack_queue_' = [ack_queue_ EXCEPT ![n] = q]
  BY Zenon DEF Ack
<1>5. \/ acks' = ch
      \/ prev_[n] \in open /\ acks' = [ch EXCEPT ![prev_[n]] = ch[prev_[n]] \o q]
  BY Zenon DEF Ack
<1>6. released' = released \/ released' = released \cup {m.op}
  BY Zenon DEF Ack
<1> HIDE DEF q
<1>7. \A p : Everywhere(p)' <=> Everywhere(p)
  BY Zenon DEF Everywhere, Members, Agrees
<1>8. SeqIsLength' /\ RolesFit' /\ PlanFits' /\ RequestsAgree' /\ LogOrder'
  <2>1. SeqIsLength'
    BY Zenon DEF ChainInv, SeqIsLength
  <2>2. LogOrder'
    <3>1. Members' = Members /\ log' = log
      BY Zenon DEF Members
    <3>2. LogOrder
      BY Zenon DEF ChainInv
    <3>3. SUFFICES ASSUME NEW i \in Members, NEW j \in Nodes, i < j
                   PROVE  Leads(log'[i], log'[j])
      BY <3>1, Zenon DEF LogOrder, Leads
    <3>4. Leads(log[i], log[j])
      BY <3>2, <3>3, Zenon DEF LogOrder
    <3> QED BY <3>1, <3>4
  <2>3. RolesFit'
    BY Zenon DEF ChainInv, RolesFit, RoleFits
  <2>4. PlanFits'
    BY Zenon DEF ChainInv, PlanFits, RoleFits, Adjacent
  <2>5. RequestsAgree'
    BY Zenon DEF ChainInv, RequestsAgree, Agrees
  <2> QED BY <2>1, <2>2, <2>3, <2>4, <2>5
<1>9. PendingAgrees'
  <2> SUFFICES ASSUME NEW i \in Nodes, NEW p \in pending_'[i] PROVE Agrees(p, log[i])
    BY Zenon DEF PendingAgrees, Agrees
  <2>1. p \in pending_[i]
    BY <1>1, <1>3
  <2> QED BY <2>1, Zenon DEF ChainInv, PendingAgrees
<1>10. /\ \A c \in Conns : \A i \in 1..Len(acks'[c]) : Everywhere(acks'[c][i])
       /\ \A c \in Conns : c > numConns => acks'[c] = <<>>
  <2>1. CASE acks' = ch
    BY <2>1
  <2>2. CASE prev_[n] \in open /\ acks' = [ch EXCEPT ![prev_[n]] = ch[prev_[n]] \o q]
    <3> DEFINE k == prev_[n]
    <3>1. k \in Conns /\ k \in 1..numConns /\ numConns \in Int
      <4>1. k \in Conns /\ numConns \in Int
        <5>1. open \subseteq Conns /\ numConns \in 0..MaxConns
          BY Zenon DEF TypeOK
        <5>2. numConns \in Int
          BY <5>1, ChainAssumption
        <5> QED BY <2>2, <5>1, <5>2, Zenon
      <4>2. k \in 1..numConns
        BY <2>2, Zenon DEF ChainInv, LinksForward
      <4> QED BY <4>1, <4>2
    <3>2. \A c \in Conns : c # k => acks'[c] = ch[c]
      BY <2>2
    <3>3. acks'[k] = ch[k] \o q /\ ch[k] \in Seq(Msg)
      BY <2>2, <3>1
    <3> HIDE DEF k
    <3>4. ASSUME NEW i \in 1..Len(acks'[k]) PROVE Everywhere(acks'[k][i])
      <4>1. \/ i \in 1..Len(ch[k]) /\ acks'[k][i] = ch[k][i]
            \/ i - Len(ch[k]) \in 1..Len(q) /\ acks'[k][i] = q[i - Len(ch[k])]
        <5>1. q \in Seq(Msg)
          BY <1>1
        <5>2. ch[k] \in Seq(Msg) /\ acks'[k] = ch[k] \o q /\ i \in 1..Len(ch[k] \o q)
          BY <3>3
        <5>3. \/ i \in 1..Len(ch[k]) /\ (ch[k] \o q)[i] = ch[k][i]
              \/ i - Len(ch[k]) \in 1..Len(q) /\ (ch[k] \o q)[i] = q[i - Len(ch[k])]
          BY <5>1, <5>2, ConcatAt, Zenon
        <5> QED BY <5>2, <5>3, Zenon
      <4> QED BY <1>2, <3>1, <4>1, Zenon
    <3>5. \A c \in Conns : c > numConns => acks'[c] = <<>>
      BY <3>1, <3>2, SMTT(30) DEF Conns
    <3> QED BY <3>2, <3>4, <3>5
  <2> QED BY <1>5, <2>1, <2>2, Zenon
<1>11. LinksForward'
  BY <1>10, Zenon DEF ChainInv, LinksForward, Adjacent
<1>12. AcksSound'
  <2>1. \A k \in Nodes : \A i \in 1..Len(ack_queue_'[k]) : Everywhere(ack_queue_'[k][i])
    <3> SUFFICES ASSUME NEW k \in Nodes, NEW i \in 1..Len(ack_queue_'[k])
                 PROVE  Everywhere(ack_queue_'[k][i])
      OBVIOUS
    <3>1. CASE ack_queue_'[k] = ack_queue_[k]
      BY <3>1, Zenon DEF ChainInv, AcksSound
    <3>2. CASE ack_queue_'[k] = <<>>
      BY <3>2
    <3>3. CASE ack_queue_'[k] = q
      BY <1>2, <3>3
    <3> QED BY <1>1, <1>4, <3>1, <3>2, <3>3, Zenon
  <2>2. \A p \in unacked' : Everywhere(p)
    BY Zenon DEF ChainInv, AcksSound
  <2> QED BY <1>7, <1>10, <2>1, <2>2, Zenon DEF AcksSound
<1>13. PendingCovers'
  <2> SUFFICES ASSUME NEW i \in Nodes, NEW j \in Members, NEW s \in 1..Len(log[i]),
                      s > Len(log[j])
               PROVE  [seq |-> s, op |-> log[i][s]] \in pending_'[i]
    BY Zenon DEF PendingCovers, Members
  <2>1. [seq |-> s, op |-> log[i][s]] \in pending_[i]
    BY Zenon DEF ChainInv, PendingCovers
  <2>2. m.seq <= Len(log[j]) /\ m.seq \in Int /\ Len(log[j]) \in Int
    <3>1. m.seq \in 1..Len(log[j])
      BY Zenon DEF Everywhere, Agrees
    <3>2. log[j] \in Seq(Ops)
      BY <1>1 DEF Members
    <3> QED BY <3>1, <3>2
  <2>3. s # m.seq
    BY <2>2
  <2> QED BY <1>1, <1>3, <2>1, <2>3, Zenon
<1>14. AckedIsDurable'
  <2> SUFFICES ASSUME NEW j \in Members, NEW o \in released' PROVE o \in Range(log[j])
    BY DEF AckedIsDurable, Members
  <2>1. CASE o \in released
    BY <2>1 DEF ChainInv, AckedIsDurable
  <2>2. CASE o = m.op
    BY <1>1, <2>2, AgreesRange DEF Everywhere, Members
  <2> QED BY <1>6, <2>1, <2>2
<1> QED
  BY <1>8, <1>9, <1>11, <1>12, <1>13, <1>14 DEF ChainInv

(***************************************************************************)
(* Requests and acks                                                       *)
(***************************************************************************)

\* A command submitted to the head is run in its turn: nobody comes before it.
LEMMA SubmitInv ==
  ASSUME TypeOK, ChainInv, NEW op \in Ops, Submit(op)
  PROVE  ChainInv'
<1> DEFINE m == Numbered(entry, [seq |-> 0, op |-> op])
<1>1. entry \in Nodes /\ m \in Msg
  BY NumberedType, Zenon DEF TypeOK, Msg
<1>2. reqs \in [Conns -> Seq(Msg)] /\ ChannelsAgree(reqs)
  <2>1. reqs \in [Conns -> Seq(Msg)]
    BY DEF TypeOK
  <2>2. ChannelsAgree(reqs)
    BY Zenon DEF ChannelsAgree, ChainInv, RequestsAgree, LinksForward
  <2> QED BY <2>1, <2>2
<1>3. is_head(entry) /\ m.seq = chain_seq_no_[entry] + 1
  BY DEF Submit, Numbered
<1>4. \A i \in Members : ~(i < entry)
  BY <1>1, <1>3 DEF is_head, ChainInv, RolesFit, RoleFits, Members
<1>5. InTurn(entry, m)
  BY <1>3, <1>4 DEF InTurn
<1>6. /\ Accept(entry, m, reqs)
      /\ UNCHANGED <<failed, role_, ack_queue_, next_, numConns, ends, open, acks,
                     released, mgr>>
  BY DEF Submit, mgrVars
<1> HIDE DEF m
<1> QED BY <1>1, <1>2, <1>5, <1>6, AcceptInv

\* A step that only changes the requests in flight keeps ChainInv if they still
\* agree with their senders.
LEMMA RequestsInv ==
  ASSUME ChainInv,
         UNCHANGED <<failed, role_, chain_seq_no_, log, pending_, ack_queue_, next_,
                     numConns, ends, open, acks, unacked, released, mgr>>,
         \A c \in Conns : \A i \in 1..Len(reqs'[c]) : Agrees(reqs'[c][i], log[ends[c].src]),
         \A c \in Conns : c > numConns => reqs'[c] = <<>>
  PROVE  ChainInv'
<1>1. RequestsAgree'
  BY Zenon DEF RequestsAgree, Agrees
<1>2. LinksForward'
  BY Zenon DEF ChainInv, LinksForward, Adjacent
<1>3. RolesFit' /\ PlanFits'
  BY Zenon DEF ChainInv, RolesFit, RoleFits, PlanFits, Adjacent
<1>4. AcksSound'
  BY LogsInv, Zenon DEF ChainInv, AcksSound
<1> QED BY <1>1, <1>2, <1>3, <1>4, LogsInv, Zenon DEF ChainInv

\* Of a channel with its first message read, the messages still agree.
LEMMA ReadAgrees ==
  ASSUME TypeOK, ChainInv, NEW c \in Conns, reqs[c] # <<>>
  PROVE  /\ Head(reqs[c]) \in Msg
         /\ Agrees(Head(reqs[c]), log[ends[c].src])
         /\ [reqs EXCEPT ![c] = Tail(reqs[c])] \in [Conns -> Seq(Msg)]
         /\ ChannelsAgree([reqs EXCEPT ![c] = Tail(reqs[c])])
<1> DEFINE read == [reqs EXCEPT ![c] = Tail(reqs[c])]
<1>1. reqs \in [Conns -> Seq(Msg)] /\ reqs[c] \in Seq(Msg)
  BY DEF TypeOK
<1>2. Head(reqs[c]) \in Msg /\ Tail(reqs[c]) \in Seq(Msg)
  BY <1>1
<1>3. read \in [Conns -> Seq(Msg)]
  BY <1>1, <1>2, UpdateType
<1>4. \A k \in Conns : \A i \in 1..Len(reqs[k]) : Agrees(reqs[k][i], log[ends[k].src])
  BY DEF ChainInv, RequestsAgree
<1>5. Agrees(Head(reqs[c]), log[ends[c].src])
  BY <1>1, <1>4
<1>6. ASSUME NEW k \in Conns, NEW i \in 1..Len(read[k])
      PROVE  Agrees(read[k][i], log[ends[k].src])
  <2>1. CASE k = c
    <3>1. read[k][i] = reqs[c][i + 1] /\ i + 1 \in 1..Len(reqs[c])
      BY <1>1, <2>1
    <3> QED BY <1>4, <2>1, <3>1
  <2>2. CASE k # c
    BY <1>4, <1>1, <2>2
  <2> QED BY <2>1, <2>2
<1>7. ASSUME NEW k \in Conns, k > numConns PROVE read[k] = <<>>
  <2>1. reqs[k] = <<>>
    BY <1>7 DEF ChainInv, LinksForward
  <2> QED BY <1>1, <2>1
<1>8. ChannelsAgree(read)
  <2> HIDE DEF read
  <2> QED BY <1>6, <1>7, Zenon DEF ChannelsAgree
<1> QED BY <1>2, <1>3, <1>5, <1>8

\* A chain_request that carries the next sequence number is run in its turn: the
\* sender has the command, and so has every survivor before the sender.
LEMMA ChainRequestInv ==
  ASSUME TypeOK, ChainInv, NEW c \in Conns, ChainRequest(c)
  PROVE  ChainInv'
<1> DEFINE n == ends[c].dst
           src == ends[c].src
           first == Head(reqs[c])
           m == Numbered(n, first)
           read == [reqs EXCEPT ![c] = Tail(reqs[c])]
<1>1. /\ reqs[c] # <<>>
      /\ UNCHANGED <<failed, role_, ack_queue_, next_, numConns, ends, open, acks,
                     released, mgr>>
      /\ \/ m.seq = chain_seq_no_[n] + 1 /\ Accept(n, m, read)
         \/ reqs' = read /\ UNCHANGED <<chain_seq_no_, log, pending_, completed, unacked>>
  BY Zenon DEF ChainRequest, InSequence, mgrVars
<1>2. n \in Nodes /\ src \in Nodes
  <2>1. ends \in [Conns -> [src : Nodes, dst : Nodes]]
    BY Zenon DEF TypeOK
  <2> QED BY <2>1
<1>3. /\ first \in Msg /\ Agrees(first, log[src])
      /\ read \in [Conns -> Seq(Msg)] /\ ChannelsAgree(read)
  BY <1>1, ReadAgrees, Zenon
<1>4. m \in Msg
  BY <1>2, <1>3, NumberedType, Zenon
<1>5. Adjacent(src, n)
  <2>1. c \in Int /\ numConns \in Int
    BY ChainAssumption DEF TypeOK, Conns
  <2>2. c > numConns => reqs[c] = <<>>
    BY Zenon DEF ChainInv, LinksForward
  <2>3. ~(c > numConns)
    BY <1>1, <2>2, Zenon
  <2>4. c <= numConns
    BY <2>1, <2>3
  <2> QED BY <2>4, Zenon DEF ChainInv, LinksForward
<1>6. ASSUME NEW i \in Members, i < n, m.seq = chain_seq_no_[n] + 1 PROVE Agrees(m, log[i])
  <2>1. CASE is_head(n)
    BY <1>2, <1>6, <2>1, Zenon DEF is_head, ChainInv, RolesFit, RoleFits, Members
  <2>2. CASE ~is_head(n)
    <3>1. m = first
      BY <2>2 DEF Numbered
    <3>2. i \in Nodes /\ i \notin failed
      BY DEF Members
    <3>3. i <= src
      <4>1. src < n /\ \A k \in Nodes : src < k /\ k < n => k \in failed
        BY <1>5, Zenon DEF Adjacent
      <4>2. i \in Int /\ src \in Int /\ n \in Int /\ i < n /\ ~(src < i)
        <5>1. i \in Int /\ src \in Int /\ n \in Int
          BY <1>2, <3>2 DEF Nodes
        <5> QED BY <1>6, <3>2, <4>1, <5>1, Zenon
      <4> HIDE DEF src, n, m, first
      <4> QED BY <4>2
    <3>4. CASE i = src
      BY <1>3, <3>1, <3>4, Zenon
    <3>5. CASE i # src
      <4>1. i < src
        <5>1. i \in Int /\ src \in Int
          BY <1>2 DEF Nodes, Members
        <5> HIDE DEF src, n, m, first
        <5> QED BY <5>1, <3>3, <3>5
      <4>2. Leads(log[i], log[src])
        BY <1>2, <4>1, Zenon DEF ChainInv, LogOrder
      <4>3. log[i] \in Seq(Ops) /\ log[src] \in Seq(Ops)
        <5>1. log \in [Nodes -> Seq(Ops)]
          BY Zenon DEF TypeOK
        <5> QED BY <1>2, <3>2, <5>1
      <4> HIDE DEF src, first, m
      <4> QED BY <1>3, <3>1, <4>2, <4>3, AgreesLead
    <3> QED BY <3>4, <3>5, Zenon
  <2> QED BY <2>1, <2>2
<1> HIDE DEF n, src, first, m, read
<1>7. CASE m.seq = chain_seq_no_[n] + 1 /\ Accept(n, m, read)
  <2>1. InTurn(n, m)
    BY <1>6, <1>7, Zenon DEF InTurn
  <2> QED BY <1>1, <1>2, <1>3, <1>4, <1>7, <2>1, AcceptInv, Zenon
<1>8. CASE reqs' = read /\ UNCHANGED <<chain_seq_no_, log, pending_, completed, unacked>>
  <2>1. UNCHANGED <<failed, role_, chain_seq_no_, log, pending_, ack_queue_, next_,
                    numConns, ends, open, acks, unacked, released, mgr>>
    BY <1>1, <1>8, Zenon
  <2>2. /\ \A k \in Conns : \A i \in 1..Len(reqs'[k]) : Agrees(reqs'[k][i], log[ends[k].src])
        /\ \A k \in Conns : k > numConns => reqs'[k] = <<>>
    BY <1>3, <1>8, Zenon DEF ChannelsAgree
  <2> QED BY <2>1, <2>2, RequestsInv, Zenon
<1> QED BY <1>1, <1>7, <1>8, Zenon

\* The layer below acks only what a tail gave to it.
LEMMA ExternalAckInv ==
  ASSUME TypeOK, ChainInv, NEW m \in unacked, NEW again \in BOOLEAN, ExternalAck(m, again)
  PROVE  ChainInv'
<1>1. PICK threw \in BOOLEAN : Ack(N, m, acks, threw)
  BY DEF ExternalAck
<1>2. /\ unacked' \subseteq unacked
      /\ UNCHANGED <<failed, role_, chain_seq_no_, log, next_, numConns, ends, open,
                     reqs, mgr>>
  BY DEF ExternalAck, mgrVars
<1>3. N \in Nodes /\ m \in Msg /\ acks \in [Conns -> Seq(Msg)]
  <2>1. N \in Nodes
    BY ChainAssumption DEF Nodes
  <2>2. m \in Msg /\ acks \in [Conns -> Seq(Msg)]
    BY Zenon DEF TypeOK
  <2> QED BY <2>1, <2>2
<1>4. Everywhere(m) /\ \A c \in Conns : \A i \in 1..Len(acks[c]) : Everywhere(acks[c][i])
  BY Zenon DEF ChainInv, AcksSound
<1>5. \A c \in Conns : c > numConns => acks[c] = <<>>
  BY DEF ChainInv, LinksForward
<1> QED BY <1>1, <1>2, <1>3, <1>4, <1>5, AckInv, Zenon

\* A chain_ack is for a command every survivor has run.
LEMMA ChainAckInv ==
  ASSUME TypeOK, ChainInv, NEW n \in Nodes, ChainAck(n)
  PROVE  ChainInv'
<1> DEFINE c == next_[n]
           m == Head(acks[c])
           rest(j) == SubSeq(acks[c], 2 + j, Len(acks[c]))
           read(j) == [acks EXCEPT ![c] = rest(j)]
<1>1. PICK threw \in BOOLEAN : \E j \in Skipped(threw) : Ack(n, m, read(j), threw)
  BY Zenon DEF ChainAck
<1>2. PICK j \in Skipped(threw) : Ack(n, m, read(j), threw)
  BY <1>1
<1>3. j \in Nat
  BY ChainAssumption DEF Skipped
<1>4. /\ unacked' \subseteq unacked
      /\ UNCHANGED <<failed, role_, chain_seq_no_, log, next_, numConns, ends, open,
                     reqs, mgr>>
  BY Zenon DEF ChainAck, mgrVars
<1>5. c \in Conns /\ acks[c] # <<>>
  <2>1. c # 0 /\ acks[c] # <<>>
    BY Zenon DEF ChainAck
  <2>2. next_ \in [Nodes -> 0..MaxConns]
    BY Zenon DEF TypeOK
  <2>3. c \in 0..MaxConns
    BY <2>2, Zenon
  <2> HIDE DEF c
  <2> QED BY <2>1, <2>3, ChainAssumption DEF Conns
<1>6. acks \in [Conns -> Seq(Msg)] /\ acks[c] \in Seq(Msg)
  BY <1>5, Zenon DEF TypeOK
<1>7. /\ m \in Msg /\ m = acks[c][1] /\ 1 \in 1..Len(acks[c])
      /\ rest(j) \in Seq(Msg)
      /\ \A i \in 1..Len(rest(j)) :
            i + 1 + j \in 1..Len(acks[c]) /\ rest(j)[i] = acks[c][i + 1 + j]
  BY <1>3, <1>5, <1>6, RestOf
<1>8. read(j) \in [Conns -> Seq(Msg)]
  BY <1>5, <1>6, <1>7, UpdateType
<1>9. \A k \in Conns : \A i \in 1..Len(acks[k]) : Everywhere(acks[k][i])
  BY Zenon DEF ChainInv, AcksSound
<1>10. Everywhere(m)
  BY <1>5, <1>7, <1>9, Zenon
<1>11. read(j)[c] = rest(j) /\ \A k \in Conns : k # c => read(j)[k] = acks[k]
  BY <1>5, <1>6, Zenon
<1>12. ASSUME NEW k \in Conns, NEW i \in 1..Len(read(j)[k]) PROVE Everywhere(read(j)[k][i])
  <2> HIDE DEF c, m, rest, read
  <2>1. CASE k = c
    BY <1>5, <1>7, <1>9, <1>11, <2>1, Zenon
  <2>2. CASE k # c
    BY <1>9, <1>11, <2>2, Zenon
  <2> QED BY <2>1, <2>2
<1>13. ASSUME NEW k \in Conns, k > numConns PROVE read(j)[k] = <<>>
  <2>1. acks[k] = <<>>
    BY <1>13, Zenon DEF ChainInv, LinksForward
  <2> HIDE DEF c, m, rest, read
  <2> QED BY <1>5, <1>11, <2>1, Zenon
<1> HIDE DEF c, m, rest, read
<1> QED BY <1>2, <1>4, <1>7, <1>8, <1>10, <1>12, <1>13, AckInv, Zenon

-----------------------------------------------------------------------------
(***************************************************************************)
(* So do the steps of failures and of the manager, and the initial states  *)
(* satisfy it.                                                             *)
(***************************************************************************)

\* The chain that init_proxy sets up satisfies the invariant.
LEMMA ChainInvInit == Init => ChainInv
<1> SUFFICES ASSUME Init PROVE ChainInv
  OBVIOUS
<1>1. \A n \in Nodes : log[n] = <<>> /\ pending_[n] = {} /\ ack_queue_[n] = <<>>
  BY DEF Init
<1>2. \A c \in Conns : reqs[c] = <<>> /\ acks[c] = <<>>
  BY DEF Init
<1>3. SeqIsLength
  BY <1>1 DEF Init, SeqIsLength
<1>4. LinksForward
  <2>1. \A c \in Conns : c <= numConns => Adjacent(ends[c].src, ends[c].dst)
    BY ChainAssumption, SMTT(30) DEF Init, Adjacent, Conns, Nodes
  <2>2. \A n \in Nodes : next_[n] # 0 => next_[n] <= numConns /\ ends[next_[n]].src = n
    BY ChainAssumption, SMTT(30) DEF Init, Conns, Nodes
  <2>3. open \subseteq 1..numConns
    BY DEF Init
  <2> QED BY <1>2, <2>1, <2>2, <2>3 DEF LinksForward
<1>5. RolesFit
  BY ChainAssumption, SMTT(30) DEF Init, RolesFit, RoleFits, Nodes
<1>6. PlanFits
  BY DEF Init, Idle, PlanFits
<1>7. RequestsAgree /\ PendingAgrees
  BY <1>1, <1>2 DEF RequestsAgree, PendingAgrees
<1>8. AcksSound
  BY <1>1, <1>2 DEF Init, AcksSound
<1>9. LogOrder /\ PendingCovers
  BY <1>1 DEF LogOrder, PendingCovers, Leads, Members
<1>10. AckedIsDurable
  BY DEF Init, AckedIsDurable
<1> QED
  BY <1>3, <1>4, <1>5, <1>6, <1>7, <1>8, <1>9, <1>10 DEF ChainInv

\* The repair that fail_node works out fits the chain without f.
LEMMA FailNodeInv ==
  ASSUME TypeOK, ChainInv, NEW f \in Nodes, FailNode(f)
  PROVE  ChainInv'
<1>1. /\ failed' = failed \cup {f} /\ mgr' = RepairPlan(f)
      /\ UNCHANGED <<role_, chain_seq_no_, log, pending_, ack_queue_, next_>>
      /\ UNCHANGED <<numConns, ends, open, reqs, acks, unacked, released>>
  BY Zenon DEF FailNode, nodeVars, netVars, envVars
<1>2. Members' \subseteq Members
  BY <1>1 DEF Members
<1>3. \A p : Everywhere(p) => Everywhere(p)'
  BY <1>1, <1>2 DEF Everywhere, Agrees
<1>4. SeqIsLength' /\ RequestsAgree' /\ PendingAgrees'
  BY <1>1, Zenon DEF ChainInv, SeqIsLength, RequestsAgree, PendingAgrees, Agrees
<1>5. LinksForward'
  BY <1>1 DEF ChainInv, LinksForward, Adjacent
<1>6. RolesFit'
  BY <1>1 DEF ChainInv, RolesFit, RoleFits
<1>7. PlanFits'
  <2>1. CASE f > 1
    <3>1. /\ mgr'.node = f - 1
          /\ mgr'.role = IF N = 2 THEN "singleton" ELSE IF f = 2 THEN "head"
                         ELSE IF f = N THEN "tail" ELSE "mid"
          /\ mgr'.next = IF f = N THEN 0 ELSE f + 1
      BY <1>1, <2>1 DEF RepairPlan
    <3>2. RoleFits(mgr.node, mgr.role)'
      BY <1>1, <2>1, <3>1, ChainAssumption DEF RoleFits, Nodes
    <3>3. mgr'.next # 0 => Adjacent(mgr.node, mgr.next)'
      BY <1>1, <2>1, <3>1, ChainAssumption DEF Adjacent, Nodes
    <3> QED BY <3>2, <3>3 DEF PlanFits
  <2>2. CASE f = 1 /\ HeadFailover
    <3>1. /\ mgr'.node = 2
          /\ mgr'.role = IF N = 2 THEN "singleton" ELSE "head"
          /\ mgr'.next = IF N = 2 THEN 0 ELSE 3
      BY <1>1, <2>2, SMTT(30) DEF RepairPlan
    <3>2. RoleFits(mgr.node, mgr.role)'
      BY <1>1, <2>2, <3>1, ChainAssumption DEF RoleFits, Nodes
    <3>3. mgr'.next # 0 => Adjacent(mgr.node, mgr.next)'
      BY <1>1, <2>2, <3>1, ChainAssumption DEF Adjacent, Nodes
    <3> QED BY <3>2, <3>3 DEF PlanFits
  <2>3. CASE f = 1 /\ ~HeadFailover
    BY <1>1, <2>3, SMTT(30) DEF RepairPlan, Idle, PlanFits
  <2> QED BY <2>1, <2>2, <2>3 DEF Nodes
<1>8. AcksSound'
  BY <1>1, <1>3 DEF ChainInv, AcksSound
<1>9. LogOrder' /\ PendingCovers'
  BY <1>1, <1>2 DEF ChainInv, LogOrder, Leads, PendingCovers
<1>10. AckedIsDurable'
  BY <1>1, <1>2, SMTT(30) DEF ChainInv, AckedIsDurable, Range
<1> QED
  BY <1>4, <1>5, <1>6, <1>7, <1>8, <1>9, <1>10 DEF ChainInv

(***************************************************************************)
(* Every message in flight after a step was in flight before it.           *)
(***************************************************************************)
Shorter(before, after) ==
    /\ \A i \in 1..Len(after) : i \in 1..Len(before) /\ after[i] = before[i]
    /\ before = <<>> => after = <<>>

Fewer(before, after) == \A c \in Conns : Shorter(before[c], after[c])

\* What remains on a closed connection was on it before.
LEMMA RemainsShorter ==
  ASSUME NEW ch \in [Conns -> Seq(Msg)], NEW c \in Conns, NEW q \in Remains(ch, c)
  PROVE  Shorter(ch[c], q)
<1>1. c # 0 /\ ch[c] \in Seq(Msg)
  BY DEF Conns
<1>2. CASE LossyClose
  <2>1. PICK k \in 0..Len(ch[c]) : q = SubSeq(ch[c], 1, k)
    BY <1>1, <1>2 DEF Remains
  <2> QED BY <1>1, <2>1 DEF Shorter
<1>3. CASE ~LossyClose
  <2>1. q = ch[c]
    BY <1>1, <1>3 DEF Remains
  <2> QED BY <2>1 DEF Shorter
<1> QED BY <1>2, <1>3

\* A queue that a step leaves alone or empties holds only messages it had.
LEMMA ShorterCases ==
  ASSUME NEW s \in Seq(Msg)
  PROVE  Shorter(s, s) /\ Shorter(s, <<>>)
BY DEF Shorter

\* A replica that exits takes messages with it and changes nothing else.
LEMMA CrashInv ==
  ASSUME TypeOK, ChainInv, NEW f \in Nodes, Crash(f)
  PROVE  ChainInv'
<1>1. /\ UNCHANGED <<failed, mgr, role_, chain_seq_no_, log, pending_, ack_queue_, next_>>
      /\ UNCHANGED <<numConns, ends, unacked, released>>
      /\ open' \subseteq open
  BY DEF Crash, nodeVars, envVars
<1>2. reqs \in [Conns -> Seq(Msg)] /\ acks \in [Conns -> Seq(Msg)]
  BY DEF TypeOK
<1>3. next_[f] \in 0..MaxConns /\ prev_[f] \in 0..MaxConns
  BY DEF TypeOK
<1>4. Fewer(reqs, reqs')
  <2>1. PICK q \in Remains(reqs, next_[f]) :
           reqs' = [c \in Conns |-> IF ends[c].dst = f THEN <<>>
                                    ELSE IF c = next_[f] THEN q ELSE reqs[c]]
    BY DEF Crash
  <2> SUFFICES ASSUME NEW c \in Conns PROVE Shorter(reqs[c], reqs'[c])
    BY DEF Fewer
  <2>2. CASE reqs'[c] = <<>> \/ reqs'[c] = reqs[c]
    BY <1>2, <2>2, ShorterCases
  <2>3. CASE c = next_[f] /\ reqs'[c] = q
    BY <1>2, <2>3, RemainsShorter, Zenon
  <2> QED BY <2>1, <2>2, <2>3
<1>5. Fewer(acks, acks')
  <2>1. PICK q \in Remains(acks, prev_[f]) :
           acks' = [c \in Conns |-> IF ends[c].src = f THEN <<>>
                                    ELSE IF c = prev_[f] THEN q ELSE acks[c]]
    BY DEF Crash
  <2> SUFFICES ASSUME NEW c \in Conns PROVE Shorter(acks[c], acks'[c])
    BY DEF Fewer
  <2>2. CASE acks'[c] = <<>> \/ acks'[c] = acks[c]
    BY <1>2, <2>2, ShorterCases
  <2>3. CASE c = prev_[f] /\ acks'[c] = q
    BY <1>2, <2>3, RemainsShorter, Zenon
  <2> QED BY <2>1, <2>2, <2>3
<1>6. RolesFit' /\ PlanFits'
  BY <1>1 DEF ChainInv, RolesFit, RoleFits, PlanFits, Adjacent
<1>7. LinksForward'
  <2>1. \A c \in Conns : c > numConns => reqs'[c] = <<>> /\ acks'[c] = <<>>
    BY <1>4, <1>5 DEF ChainInv, LinksForward, Fewer, Shorter
  <2> QED BY <1>1, <2>1 DEF ChainInv, LinksForward, Adjacent
<1>8. RequestsAgree'
  <2> SUFFICES ASSUME NEW c \in Conns, NEW i \in 1..Len(reqs'[c])
               PROVE  Agrees(reqs'[c][i], log[ends[c].src])
    BY <1>1 DEF RequestsAgree, Agrees
  <2> QED BY <1>4 DEF ChainInv, RequestsAgree, Fewer, Shorter
<1>9. /\ SeqIsLength' /\ PendingAgrees' /\ LogOrder' /\ PendingCovers' /\ AckedIsDurable'
      /\ \A p : Everywhere(p)' <=> Everywhere(p)
  BY <1>1, LogsInv
<1>10. AcksSound'
  BY <1>1, <1>5, <1>9 DEF ChainInv, AcksSound, Fewer, Shorter
<1> QED
  BY <1>6, <1>7, <1>8, <1>9, <1>10 DEF ChainInv

\* setup gives the replica the role and the successor that were planned for it.
LEMMA SetupChainInv ==
  ASSUME TypeOK, ChainInv, SetupChain
  PROVE  ChainInv'
<1> DEFINE n == mgr.node
           c == numConns + 1
<1>1. /\ UNCHANGED <<failed, chain_seq_no_, log, pending_, ack_queue_, unacked, released>>
      /\ role_' = [role_ EXCEPT ![n] = mgr.role]
      /\ mgr.step = "setup_chain"
  BY DEF SetupChain, envVars
<1>2. n \in Nodes /\ numConns \in Int /\ next_[n] \in 0..MaxConns
  BY ChainAssumption DEF TypeOK, Plans
<1>3. RoleFits(n, mgr.role) /\ (mgr.next # 0 => Adjacent(n, mgr.next))
  BY <1>1 DEF ChainInv, PlanFits
<1>4. reqs \in [Conns -> Seq(Msg)] /\ acks \in [Conns -> Seq(Msg)]
  BY DEF TypeOK
<1>5. Fewer(reqs, reqs')
  <2>1. PICK q \in Remains(reqs, next_[n]) :
           reqs' = [k \in Conns |-> IF k = next_[n] THEN q ELSE reqs[k]]
    BY DEF SetupChain
  <2> SUFFICES ASSUME NEW k \in Conns PROVE Shorter(reqs[k], reqs'[k])
    BY DEF Fewer
  <2>2. CASE reqs'[k] = reqs[k]
    BY <1>4, <2>2, ShorterCases
  <2>3. CASE k = next_[n] /\ reqs'[k] = q
    BY <1>4, <2>3, RemainsShorter, Zenon
  <2> QED BY <2>1, <2>2, <2>3
<1>6. Fewer(acks, acks')
  <2>1. acks' = [k \in Conns |-> IF k = next_[n] THEN <<>> ELSE acks[k]]
    BY DEF SetupChain
  <2> QED BY <1>4, <2>1, ShorterCases DEF Fewer
<1>7. /\ \A k \in Conns : k > numConns => reqs[k] = <<>> /\ acks[k] = <<>>
      /\ \A k \in Conns : k <= numConns => Adjacent(ends[k].src, ends[k].dst)
      /\ open \subseteq 1..numConns
      /\ \A i \in Nodes : next_[i] # 0 => next_[i] <= numConns /\ ends[next_[i]].src = i
  BY DEF ChainInv, LinksForward
<1>8. \A k \in Conns : k > numConns => reqs'[k] = <<>> /\ acks'[k] = <<>>
  BY <1>5, <1>6, <1>7 DEF Fewer, Shorter
<1>9. \/ /\ mgr.next \in alive /\ c \in Conns
         /\ numConns' = c /\ ends' = [ends EXCEPT ![c] = [src |-> n, dst |-> mgr.next]]
         /\ open' = (open \ {next_[n]}) \cup {c} /\ next_' = [next_ EXCEPT ![n] = c]
      \/ /\ numConns' = numConns /\ ends' = ends
         /\ open' = open \ {next_[n]} /\ next_' = [next_ EXCEPT ![n] = 0]
  BY Zenon DEF SetupChain
<1> HIDE DEF n, c
<1>10. LinksForward' /\ \A k \in Conns : k <= numConns => ends'[k] = ends[k]
  <2>1. CASE /\ mgr.next \in alive /\ c \in Conns
             /\ numConns' = c /\ ends' = [ends EXCEPT ![c] = [src |-> n, dst |-> mgr.next]]
             /\ open' = (open \ {next_[n]}) \cup {c} /\ next_' = [next_ EXCEPT ![n] = c]
    <3>1. mgr.next # 0 /\ c = numConns + 1
      <4>1. mgr.next \in Nodes
        BY <2>1, Zenon DEF TypeOK
      <4> QED BY <4>1 DEF Nodes, c
    <3>2. ends'[c].src = n /\ ends'[c].dst = mgr.next /\ \A k \in Conns : k # c => ends'[k] = ends[k]
      BY <2>1 DEF TypeOK
    <3>3. \A k \in Conns : k \in Int
      BY DEF Conns
    <3>4. \A k \in Conns : k <= numConns => k # c
      BY <1>2, <3>1, <3>3
    <3>5. ASSUME NEW k \in Conns, k <= c PROVE Adjacent(ends'[k].src, ends'[k].dst)
      <4>1. CASE k = c
        BY <1>3, <3>1, <3>2, <4>1
      <4>2. CASE k # c
        <5>1. k <= numConns
          BY <1>2, <3>1, <3>3, <3>5, <4>2
        <5> QED BY <1>7, <3>2, <4>2, <5>1, Zenon
      <4> QED BY <4>1, <4>2
    <3>6. \A k \in Conns : k > c => reqs'[k] = <<>> /\ acks'[k] = <<>>
      BY <1>2, <1>8, <3>1, <3>3
    <3>7. open' \subseteq 1..c
      <4>1. c \in 1..c
        BY <2>1 DEF Conns
      <4>2. open \subseteq 1..c
        BY <1>2, <1>7, <3>1
      <4> QED BY <2>1, <4>1, <4>2, Zenon
    <3>8. ASSUME NEW i \in Nodes, next_'[i] # 0
          PROVE  next_'[i] <= c /\ ends'[next_'[i]].src = i
      <4>1. CASE i = n
        BY <1>2, <2>1, <3>1, <3>2, <4>1, SMTT(30) DEF TypeOK
      <4>2. CASE i # n
        <5>1. next_'[i] = next_[i] /\ next_[i] \in 0..MaxConns
          BY <2>1, <4>2 DEF TypeOK
        <5>2. next_[i] <= numConns /\ ends[next_[i]].src = i
          BY <1>7, <3>8, <5>1
        <5>3. next_[i] \in Conns
          BY <3>8, <5>1, ChainAssumption DEF Conns
        <5>4. ends'[next_[i]] = ends[next_[i]]
          BY <3>2, <3>4, <5>2, <5>3
        <5>5. next_[i] \in Int /\ numConns \in Int /\ numConns <= c
          BY <1>2, <3>1, <5>1
        <5>6. next_[i] <= c
          BY <3>1, <5>2, <5>5
        <5> QED BY <5>1, <5>2, <5>4, <5>6
      <4> QED BY <4>1, <4>2
    <3>9. numConns' = c
      BY <2>1
    <3>10. \A k \in Conns : k <= numConns' => Adjacent(ends[k].src, ends[k].dst)'
      BY <1>1, <3>5, <3>9 DEF Adjacent
    <3>11. LinksForward'
      BY <3>6, <3>7, <3>8, <3>9, <3>10 DEF LinksForward
    <3> QED BY <3>2, <3>4, <3>11
  <2>2. CASE /\ numConns' = numConns /\ ends' = ends
             /\ open' = open \ {next_[n]} /\ next_' = [next_ EXCEPT ![n] = 0]
    <3>1. \A i \in Nodes : next_'[i] # 0 => next_'[i] = next_[i]
      BY <2>2 DEF TypeOK
    <3> QED BY <1>1, <1>7, <1>8, <2>2, <3>1, Zenon DEF LinksForward, Adjacent
  <2> QED BY <1>9, <2>1, <2>2 DEF c
<1>11. RolesFit'
  <2> SUFFICES ASSUME NEW i \in Nodes PROVE RoleFits(i, role_'[i])
    BY <1>1 DEF RolesFit, RoleFits
  <2>1. role_'[i] = IF i = n THEN mgr.role ELSE role_[i]
    BY <1>1, <1>2 DEF TypeOK
  <2> QED BY <1>3, <2>1 DEF ChainInv, RolesFit
<1>12. PlanFits'
  <2>1. mgr' = Aborted \/ mgr' = [mgr EXCEPT !.step = mgr.then]
    BY Zenon DEF SetupChain
  <2>2. mgr'.node = n /\ mgr'.role = mgr.role /\ mgr'.next = mgr.next
    BY <2>1, Zenon DEF Aborted, TypeOK, Plans, n
  <2> QED BY <1>1, <1>3, <2>2 DEF PlanFits, RoleFits, Adjacent
<1>13. RequestsAgree'
  <2> SUFFICES ASSUME NEW k \in Conns, NEW i \in 1..Len(reqs'[k])
               PROVE  Agrees(reqs'[k][i], log[ends'[k].src])
    BY <1>1, Zenon DEF RequestsAgree, Agrees
  <2>1. i \in 1..Len(reqs[k]) /\ reqs'[k][i] = reqs[k][i]
    BY <1>5 DEF Fewer, Shorter
  <2>2. k <= numConns
    <3>1. ~(k > numConns)
      BY <1>7, <2>1
    <3> QED BY <1>2, <3>1 DEF Conns
  <2> QED BY <1>10, <2>1, <2>2 DEF ChainInv, RequestsAgree
<1>14. /\ SeqIsLength' /\ PendingAgrees' /\ LogOrder' /\ PendingCovers' /\ AckedIsDurable'
       /\ \A p : Everywhere(p)' <=> Everywhere(p)
  BY <1>1, LogsInv
<1>15. AcksSound'
  BY <1>1, <1>6, <1>14 DEF ChainInv, AcksSound, Fewer, Shorter
<1> QED
  BY <1>10, <1>11, <1>12, <1>13, <1>14, <1>15 DEF ChainInv

\* What is sent again is pending at the sender, and a new tail gives to the
\* layer below only what every survivor has run.
LEMMA ResendPendingInv ==
  ASSUME TypeOK, ChainInv, ResendPending
  PROVE  ChainInv'
<1> DEFINE n == mgr.node
           ops == Unseen(n, mgr.seq)
<1>1. /\ UNCHANGED <<failed, role_, chain_seq_no_, log, pending_, ack_queue_, next_>>
      /\ UNCHANGED <<numConns, ends, open, acks, released>>
      /\ mgr' = Idle
  BY Zenon DEF ResendPending, nodeVars
<1>2. n \in Nodes /\ numConns \in Int
  BY ChainAssumption DEF TypeOK, Plans
<1>3. ops \subseteq Msg /\ \A m \in ops : Agrees(m, log[n])
  BY <1>2, Zenon DEF Unseen, TypeOK, ChainInv, PendingAgrees
<1>4. reqs \in [Conns -> Seq(Msg)] /\ log \in [Nodes -> Seq(Ops)]
  BY DEF TypeOK
<1>5. \/ is_tail(n) /\ unacked' = unacked \cup ops /\ reqs' = reqs
      \/ unacked' = unacked /\ \E op_list \in Sorted(ops) : reqs' = Request(n, op_list, reqs)
  BY Zenon DEF ResendPending, ReplicationComplete
<1> HIDE DEF n, ops
<1>6. PlanFits'
  BY <1>1 DEF PlanFits, Idle
<1>7. RolesFit'
  BY <1>1 DEF ChainInv, RolesFit, RoleFits
<1>8. /\ SeqIsLength' /\ PendingAgrees' /\ LogOrder' /\ PendingCovers' /\ AckedIsDurable'
      /\ \A p : Everywhere(p)' <=> Everywhere(p)
  BY <1>1, LogsInv
<1>10. ASSUME is_tail(n), NEW m \in ops PROVE Everywhere(m)
  <2> SUFFICES ASSUME NEW j \in Members PROVE Agrees(m, log[j])
    BY DEF Everywhere
  <2>1. j \in Nodes /\ j \notin failed /\ log[j] \in Seq(Ops) /\ log[n] \in Seq(Ops)
    BY <1>2, <1>4 DEF Members
  <2>2. CASE j = n
    BY <1>3, <2>2
  <2>3. CASE j < n
    <3>1. Leads(log[j], log[n])
      BY <1>2, <2>3 DEF ChainInv, LogOrder
    <3> QED BY <1>3, <2>1, <3>1, AgreesLead
  <2>4. CASE j > n
    BY <1>2, <1>10, <2>1, <2>4 DEF is_tail, ChainInv, RolesFit, RoleFits
  <2> QED BY <1>2, <2>1, <2>2, <2>3, <2>4 DEF Nodes
<1>11. AcksSound'
  <2>1. \A m \in unacked' : Everywhere(m)
    BY <1>5, <1>10, Zenon DEF ChainInv, AcksSound
  <2> QED BY <1>1, <1>8, <2>1 DEF ChainInv, AcksSound
<1>12. /\ \A c \in Conns : \A i \in 1..Len(reqs'[c]) : Agrees(reqs'[c][i], log[ends[c].src])
       /\ \A c \in Conns : c > numConns => reqs'[c] = <<>>
  <2>1. CASE reqs' = reqs
    BY <2>1, Zenon DEF ChainInv, RequestsAgree, LinksForward
  <2>2. ASSUME NEW q \in Sorted(ops), next_[n] \in open,
               reqs' = [reqs EXCEPT ![next_[n]] = reqs[next_[n]] \o q]
        PROVE  <1>12!:
    <3> DEFINE k == next_[n]
    <3>1. q \in Seq(Msg) /\ Range(q) = ops
      BY <1>3, SortedType
    <3>2. k \in Conns /\ k # 0
      <4>1. k \in Conns
        BY <2>2, Zenon DEF TypeOK
      <4> QED BY <4>1 DEF Conns
    <3>3. k <= numConns /\ ends[k].src = n
      BY <1>2, <3>2 DEF ChainInv, LinksForward
    <3>4. reqs'[k] = reqs[k] \o q /\ reqs[k] \in Seq(Msg)
      BY <1>4, <2>2, <3>2
    <3>5. \A c \in Conns : c # k => reqs'[c] = reqs[c]
      BY <1>4, <2>2
    <3> HIDE DEF k
    <3>6. ASSUME NEW i \in 1..Len(reqs'[k]) PROVE Agrees(reqs'[k][i], log[n])
      <4>1. CASE i <= Len(reqs[k])
        <5>1. reqs'[k][i] = reqs[k][i] /\ i \in 1..Len(reqs[k])
          BY <3>1, <3>4, <4>1
        <5> QED BY <3>2, <3>3, <5>1, Zenon DEF ChainInv, RequestsAgree
      <4>2. CASE i > Len(reqs[k])
        <5>1. i - Len(reqs[k]) \in 1..Len(q) /\ reqs'[k][i] = q[i - Len(reqs[k])]
          BY <3>1, <3>4, <4>2
        <5>2. reqs'[k][i] \in ops
          BY <3>1, <5>1 DEF Range
        <5> QED BY <1>3, <5>2
      <4> QED BY <3>4, <4>1, <4>2, SMTT(30)
    <3>7. \A c \in Conns : c > numConns => reqs'[c] = <<>>
      BY <1>2, <3>2, <3>3, <3>5 DEF ChainInv, LinksForward, Conns
    <3> QED BY <3>3, <3>5, <3>6, <3>7, Zenon DEF ChainInv, RequestsAgree
  <2> QED BY <1>5, <2>1, <2>2, Zenon DEF Request
<1>13. RequestsAgree'
  BY <1>1, <1>12, Zenon DEF RequestsAgree, Agrees
<1>14. LinksForward'
  BY <1>1, <1>12, Zenon DEF ChainInv, LinksForward, Adjacent
<1> QED
  BY <1>6, <1>7, <1>8, <1>11, <1>13, <1>14 DEF ChainInv

\* A step that changes only the progress of the manager (and where the layer
\* above sends its commands) keeps ChainInv if the plan still fits.
LEMMA ProgressInv ==
  ASSUME ChainInv, PlanFits',
         UNCHANGED <<failed, role_, chain_seq_no_, log, pending_, ack_queue_, next_,
                     numConns, ends, open, reqs, acks, unacked, released>>
  PROVE  ChainInv'
<1>1. RolesFit' /\ RequestsAgree'
  BY Zenon DEF ChainInv, RolesFit, RoleFits, RequestsAgree, Agrees
<1>2. LinksForward'
  BY Zenon DEF ChainInv, LinksForward, Adjacent
<1>3. AcksSound'
  BY LogsInv, Zenon DEF ChainInv, AcksSound
<1> QED BY <1>1, <1>2, <1>3, LogsInv DEF ChainInv

\* Every action of the replicas, the manager and the environment keeps the invariant.
LEMMA ChainInvNext == TypeOK /\ ChainInv /\ [Next]_vars => ChainInv'
<1> SUFFICES ASSUME TypeOK, ChainInv, [Next]_vars PROVE ChainInv'
  OBVIOUS
<1>1. ASSUME NEW op \in Ops, Submit(op) PROVE ChainInv'
  BY <1>1, SubmitInv
<1>2. ASSUME NEW c \in Conns, ChainRequest(c) PROVE ChainInv'
  BY <1>2, ChainRequestInv
<1>3. ASSUME NEW m \in unacked, NEW again \in BOOLEAN, ExternalAck(m, again) PROVE ChainInv'
  BY <1>3, ExternalAckInv
<1>4. ASSUME NEW n \in Nodes, ChainAck(n) PROVE ChainInv'
  BY <1>4, ChainAckInv
<1>5. ASSUME NEW f \in Nodes, FailNode(f) PROVE ChainInv'
  BY <1>5, FailNodeInv
<1>6. ASSUME NEW f \in Nodes, Crash(f) PROVE ChainInv'
  BY <1>6, CrashInv
<1>7. CASE SetupChain
  BY <1>7, SetupChainInv
<1>8. CASE ResendPending
  BY <1>8, ResendPendingInv
<1>9. CASE FetchSeq
  <2>1. PlanFits'
    BY <1>9 DEF FetchSeq, PlanFits, TypeOK, Plans
  <2> QED BY <1>9, <2>1, ProgressInv, Zenon DEF FetchSeq, nodeVars, netVars, envVars
<1>10. CASE UpdateConnections
  <2>1. PlanFits'
    BY <1>10 DEF UpdateConnections, PlanFits, Idle
  <2> QED BY <1>10, <2>1, ProgressInv, Zenon DEF UpdateConnections, nodeVars, netVars
<1>11. CASE ManagerAborts
  <2>1. PlanFits'
    BY <1>11 DEF ManagerAborts, Aborted, PlanFits, TypeOK, Plans
  <2> QED BY <1>11, <2>1, ProgressInv, Zenon DEF ManagerAborts, nodeVars, netVars, envVars
<1>12. CASE UNCHANGED vars
  <2>1. PlanFits'
    BY <1>12 DEF vars, mgrVars, ChainInv, PlanFits, RoleFits, Adjacent
  <2> QED BY <1>12, <2>1, ProgressInv, Zenon DEF vars, nodeVars, netVars, envVars, mgrVars
<1> QED
  BY <1>1, <1>2, <1>3, <1>4, <1>5, <1>6, <1>7, <1>8, <1>9, <1>10, <1>11, <1>12
  DEF Next, Manager

(***************************************************************************)
(* The theorems                                                            *)
(***************************************************************************)

\* Whatever fails and whenever, the chain keeps every part of ChainInv.
THEOREM ChainSafe == Spec => []ChainInv
BY TypeInit, TypeNext, ChainInvInit, ChainInvNext, PTL DEF Spec

\* No replica runs commands in another order than the survivors before it.
THEOREM ChainLogOrder == Spec => []LogOrder
<1>1. ChainInv => LogOrder
  BY DEF ChainInv
<1> QED BY <1>1, ChainSafe, PTL

\* What a survivor lacks is still pending at every replica that has it.
THEOREM ChainPendingCovers == Spec => []PendingCovers
<1>1. ChainInv => PendingCovers
  BY DEF ChainInv
<1> QED BY <1>1, ChainSafe, PTL

\* What was acked to the layer above is in the log of every survivor.
THEOREM ChainAckedIsDurable == Spec => []AckedIsDurable
<1>1. ChainInv => AckedIsDurable
  BY DEF ChainInv
<1> QED BY <1>1, ChainSafe, PTL
=============================================================================
