-------------------------- MODULE ChainRepairProofs --------------------------
(***************************************************************************)
(* The repair of a chain: when one replica other than the head fails, the  *)
(* survivors end up with the same log (SettledAgree), for every number of  *)
(* replicas, commands and connections and whenever it fails.               *)
(*                                                                         *)
(* The invariant says what is on its way.  Between two live neighbours the *)
(* connection carries the commands that the second one has not run, in     *)
(* order, and the last replica has passed on what it ran; while the        *)
(* manager is at work, this holds of all links but the one it is about to  *)
(* repair, and what that one misses is pending at the replica that will    *)
(* send it again.                                                          *)
(***************************************************************************)
EXTENDS ChainModuleProofs, FiniteSetTheorems

-----------------------------------------------------------------------------
(***************************************************************************)
(* Commands on their way                                                   *)
(***************************************************************************)

\* Queue q holds the commands numbered a + 1 to b in this order, whatever else
\* it holds before, between and behind them.
Coming(q, a, b) ==
    \E pos \in [(a + 1)..b -> 1..Len(q)] :
        /\ \A s \in (a + 1)..b : q[pos[s]].seq = s
        /\ \A s, t \in (a + 1)..b : s < t => pos[s] < pos[t]

\* Nothing is missing when the queue has run empty.
LEMMA ComingEmpty ==
  ASSUME NEW a \in Nat, NEW b \in Nat, Coming(<<>>, a, b)
  PROVE  b <= a
<1>1. PICK pos \in [(a + 1)..b -> 1..Len(<<>>)] : TRUE
  BY Zenon DEF Coming
<1>2. (a + 1)..b = {}
  <2>1. \A s \in (a + 1)..b : pos[s] \in 1..0
    BY <1>1
  <2> QED BY <2>1
<1>3. b \in (a + 1)..b \/ b <= a
  OBVIOUS
<1> QED BY <1>2, <1>3

\* Of nothing everything is coming.
LEMMA ComingNothing ==
  ASSUME NEW q, NEW a \in Nat, NEW b \in Nat, b <= a
  PROVE  Coming(q, a, b)
<1>1. (a + 1)..b = {}
  OBVIOUS
<1> DEFINE pos == [s \in (a + 1)..b |-> 1]
<1>2. pos \in [(a + 1)..b -> 1..Len(q)]
  BY <1>1
<1> HIDE DEF pos
<1> QED BY <1>1, <1>2 DEF Coming

\* The reader may get commands on another way.
LEMMA ComingFewer ==
  ASSUME NEW q, NEW a \in Nat, NEW b \in Nat, NEW c \in Nat, a <= c, Coming(q, a, b)
  PROVE  Coming(q, c, b)
<1>1. PICK pos \in [(a + 1)..b -> 1..Len(q)] :
        /\ \A s \in (a + 1)..b : q[pos[s]].seq = s
        /\ \A s, t \in (a + 1)..b : s < t => pos[s] < pos[t]
  BY DEF Coming
<1>2. (c + 1)..b \subseteq (a + 1)..b
  OBVIOUS
<1> DEFINE p == [s \in (c + 1)..b |-> pos[s]]
<1>3. p \in [(c + 1)..b -> 1..Len(q)] /\ \A s \in (c + 1)..b : p[s] = pos[s]
  BY <1>1, <1>2
<1> HIDE DEF p
<1>4. \A s \in (c + 1)..b : q[p[s]].seq = s
  BY <1>1, <1>2, <1>3, Zenon
<1>5. \A s, t \in (c + 1)..b : s < t => p[s] < p[t]
  BY <1>1, <1>2, <1>3
<1> QED BY <1>3, <1>4, <1>5, Zenon DEF Coming

\* The writer has run its next command and sends it.
LEMMA ComingNext ==
  ASSUME NEW q \in Seq(Msg), NEW a \in Nat, NEW b \in Nat, Coming(q, a, b),
         NEW m \in Msg, m.seq = b + 1
  PROVE  Coming(q \o <<m>>, a, b + 1)
<1>1. PICK pos \in [(a + 1)..b -> 1..Len(q)] :
        /\ \A s \in (a + 1)..b : q[pos[s]].seq = s
        /\ \A s, t \in (a + 1)..b : s < t => pos[s] < pos[t]
  BY DEF Coming
<1> DEFINE r == q \o <<m>>
           p == [s \in (a + 1)..(b + 1) |-> IF s = b + 1 THEN Len(q) + 1 ELSE pos[s]]
<1>2. /\ Len(r) = Len(q) + 1 /\ r[Len(q) + 1] = m
      /\ \A i \in 1..Len(q) : r[i] = q[i]
  OBVIOUS
<1>3. Len(q) \in Nat
  OBVIOUS
<1>4. \A s \in (a + 1)..(b + 1) : s # b + 1 => s \in (a + 1)..b /\ s < b + 1
  OBVIOUS
<1>5. \A s \in (a + 1)..b : pos[s] \in 1..Len(q) /\ pos[s] \in Int /\ pos[s] < Len(q) + 1
  BY <1>1, <1>3
<1>6. \A s \in (a + 1)..(b + 1) : p[s] = IF s = b + 1 THEN Len(q) + 1 ELSE pos[s]
  OBVIOUS
<1>7. p \in [(a + 1)..(b + 1) -> 1..Len(r)]
  <2>1. \A s \in (a + 1)..(b + 1) : p[s] \in 1..(Len(q) + 1)
    BY <1>3, <1>4, <1>5, <1>6
  <2> QED BY <1>2, <2>1
<1> HIDE DEF p, r
<1>8. ASSUME NEW s \in (a + 1)..(b + 1) PROVE r[p[s]].seq = s
  <2>1. CASE s = b + 1
    BY <1>2, <1>6, <2>1
  <2>2. CASE s # b + 1
    <3>1. s \in (a + 1)..b /\ p[s] = pos[s]
      BY <1>4, <1>6, <2>2
    <3>2. r[pos[s]] = q[pos[s]]
      BY <1>2, <1>5, <3>1
    <3> QED BY <1>1, <3>1, <3>2
  <2> QED BY <2>1, <2>2
<1>9. ASSUME NEW s \in (a + 1)..(b + 1), NEW t \in (a + 1)..(b + 1), s < t
      PROVE  p[s] < p[t]
  <2>1. s # b + 1 /\ s \in (a + 1)..b
    BY <1>4, <1>9
  <2>2. CASE t = b + 1
    BY <1>5, <1>6, <2>1, <2>2
  <2>3. CASE t # b + 1
    BY <1>1, <1>4, <1>6, <1>9, <2>1, <2>3
  <2> QED BY <2>2, <2>3
<1> QED BY <1>7, <1>8, <1>9 DEF Coming, r

\* The reader takes the first message, and runs it if it is the one it lacks.
LEMMA ComingRead ==
  ASSUME NEW q \in Seq(Msg), q # <<>>, NEW a \in Nat, NEW b \in Nat, Coming(q, a, b),
         NEW c \in Nat, a <= c, Head(q).seq = a + 1 => a + 1 <= c
  PROVE  Coming(Tail(q), c, b)
<1>1. PICK pos \in [(a + 1)..b -> 1..Len(q)] :
        /\ \A s \in (a + 1)..b : q[pos[s]].seq = s
        /\ \A s, t \in (a + 1)..b : s < t => pos[s] < pos[t]
  BY DEF Coming
<1>2. /\ Len(q) \in Nat /\ Len(Tail(q)) = Len(q) - 1 /\ q[1] = Head(q)
      /\ \A i \in 1..Len(q) : i # 1 => i - 1 \in 1..Len(Tail(q)) /\ Tail(q)[i - 1] = q[i]
  OBVIOUS
<1>3. (c + 1)..b \subseteq (a + 1)..b
  OBVIOUS
<1>4. ASSUME NEW s \in (c + 1)..b PROVE pos[s] \in 1..Len(q) /\ pos[s] # 1
  <2>1. s \in (a + 1)..b /\ pos[s] \in 1..Len(q)
    BY <1>1, <1>3
  <2>2. ASSUME pos[s] = 1 PROVE FALSE
    <3>1. s # a + 1
      <4>1. ASSUME s = a + 1 PROVE FALSE
        <5>1. Head(q).seq = a + 1
          BY <1>1, <1>2, <2>1, <2>2, <4>1
        <5> QED BY <4>1, <5>1
      <4> QED BY <4>1
    <3>2. a + 1 \in (a + 1)..b /\ a + 1 < s
      BY <2>1, <3>1
    <3>3. pos[a + 1] < pos[s] /\ pos[a + 1] \in 1..Len(q)
      BY <1>1, <2>1, <3>2
    <3> QED BY <2>2, <3>3
  <2> QED BY <2>1, <2>2
<1> DEFINE p == [s \in (c + 1)..b |-> pos[s] - 1]
<1>5. \A s \in (c + 1)..b : p[s] = pos[s] - 1
  OBVIOUS
<1>6. p \in [(c + 1)..b -> 1..Len(Tail(q))]
  BY <1>2, <1>4
<1> HIDE DEF p
<1>7. ASSUME NEW s \in (c + 1)..b PROVE Tail(q)[p[s]].seq = s
  <2>1. p[s] = pos[s] - 1 /\ pos[s] \in 1..Len(q) /\ pos[s] # 1
    BY <1>4, <1>5
  <2>2. Tail(q)[p[s]] = q[pos[s]]
    BY <1>2, <2>1
  <2> QED BY <1>1, <1>3, <2>2
<1>8. \A s \in (c + 1)..b : pos[s] \in Int
  BY <1>4
<1>9. \A s, t \in (c + 1)..b : s < t => p[s] < p[t]
  <2>1. \A s, t \in (c + 1)..b : s < t => pos[s] < pos[t]
    BY <1>1, <1>3, Zenon
  <2> QED BY <1>5, <1>8, <2>1
<1> QED BY <1>6, <1>7, <1>9, Zenon DEF Coming

\* What is sent again is sorted: it holds, in order, whatever is missing.
LEMMA ComingSorted ==
  ASSUME NEW q \in Seq(Msg), NEW S \in SUBSET Msg, NEW l \in Sorted(S),
         NEW a \in Nat, NEW b \in Nat, \A s \in (a + 1)..b : \E m \in S : m.seq = s
  PROVE  Coming(q \o l, a, b)
<1>1. l \in Seq(Msg) /\ Range(l) = S
  BY SortedType
<1>2. \A i, j \in 1..Len(l) : i < j => l[i].seq < l[j].seq
  <2>1. \A i, j \in DOMAIN l : i < j => l[i].seq < l[j].seq
    BY Zenon DEF Sorted
  <2> QED BY <1>1, <2>1
<1>3. \A s \in (a + 1)..b : \E i \in 1..Len(l) : l[i].seq = s
  <2>1. \A m \in S : \E i \in 1..Len(l) : l[i] = m
    BY <1>1 DEF Range
  <2> SUFFICES ASSUME NEW s \in (a + 1)..b PROVE \E i \in 1..Len(l) : l[i].seq = s
    OBVIOUS
  <2>2. PICK m \in S : m.seq = s
    OBVIOUS
  <2>3. PICK i \in 1..Len(l) : l[i] = m
    BY <2>1
  <2> QED BY <2>2, <2>3
<1>4. Len(q) \in Nat /\ Len(l) \in Nat /\ Len(q \o l) = Len(q) + Len(l)
  BY <1>1
<1>5. \A i \in 1..Len(l) : (q \o l)[Len(q) + i] = l[i]
  BY <1>1
<1> DEFINE at(s) == CHOOSE i \in 1..Len(l) : l[i].seq = s
           p == [s \in (a + 1)..b |-> Len(q) + at(s)]
<1>6. \A s \in (a + 1)..b : at(s) \in 1..Len(l) /\ l[at(s)].seq = s
  BY <1>3, Zenon
<1> HIDE DEF at
<1>7. \A s \in (a + 1)..b : p[s] = Len(q) + at(s)
  OBVIOUS
<1>8. p \in [(a + 1)..b -> 1..Len(q \o l)]
  BY <1>4, <1>6
<1> HIDE DEF p
<1>9. \A s \in (a + 1)..b : (q \o l)[p[s]].seq = s
  BY <1>5, <1>6, <1>7
<1>10. ASSUME NEW s \in (a + 1)..b, NEW t \in (a + 1)..b, s < t
       PROVE  p[s] < p[t]
  <2>1. at(s) \in 1..Len(l) /\ at(t) \in 1..Len(l) /\ l[at(s)].seq = s /\ l[at(t)].seq = t
    BY <1>6
  <2>2. ~(at(t) < at(s)) /\ at(t) # at(s)
    BY <1>2, <1>10, <2>1
  <2>3. at(s) < at(t)
    BY <1>4, <2>1, <2>2
  <2> QED BY <1>4, <1>7, <2>1, <2>3
<1> QED BY <1>8, <1>9, <1>10, Zenon DEF Coming

-----------------------------------------------------------------------------
(***************************************************************************)
(* The invariant of the repair, as long as one replica other than the head *)
(* has failed.                                                             *)
(***************************************************************************)
OneFailure == 1 \notin failed /\ \A f, g \in failed : f = g

\* The manager is at work on replica n, or gave up while it was.
Repairing(n) == mgr.step # "idle" /\ mgr.node = n

Connected(i, k) == next_[i] \in open /\ ends[next_[i]].dst = k

IsLast(n) == \A j \in Members : j <= n

\* Whatever a survivor lacks is on its way from the survivor before it.
LinksCarry ==
    \A i, k \in Members : Adjacent(i, k) =>
        \/ Repairing(i)
        \/ Connected(i, k) /\ Coming(reqs[next_[i]], Len(log[k]), Len(log[i]))

\* The last survivor has given what is pending to the layer below.
LastCompletes ==
    \A n \in Members : IsLast(n) =>
        \/ Repairing(n)
        \/ is_tail(n) /\ pending_[n] \subseteq completed[n]

\* The tail failed: the replica before it becomes the tail and completes all
\* that is pending.
RepairsLast ==
    /\ mgr.next = 0 /\ IsLast(mgr.node)
    /\ mgr.seq = -1 /\ mgr.then = "resend_pending" /\ mgr.role \in {"tail", "singleton"}
    /\ mgr.step \in {"setup_chain", "resend_pending"}
    /\ mgr.step # "setup_chain" => is_tail(mgr.node)

\* Another replica failed: the one before it is connected to the one behind it
\* and sends what that did not have when it was asked.
RepairsLink ==
    /\ mgr.next \in Members /\ Adjacent(mgr.node, mgr.next) /\ mgr.then = "fetch_seq"
    /\ mgr.step \in {"setup_chain", "fetch_seq", "resend_pending"}
    /\ mgr.step # "setup_chain" => Connected(mgr.node, mgr.next)
    /\ mgr.step = "resend_pending" => mgr.seq <= Len(log[mgr.next])

RepairGoesOn ==
    mgr.step \notin {"idle", "aborted"} => mgr.node \in Members /\ (RepairsLast \/ RepairsLink)

RepairInv == Members \subseteq alive /\ LinksCarry /\ LastCompletes /\ RepairGoesOn

\* The connection to the successor is the replica's own.
LEMMA OwnLink ==
  ASSUME TypeOK, ChainInv, NEW n \in Nodes, next_[n] \in open
  PROVE  next_[n] \in Conns /\ next_[n] <= numConns /\ ends[next_[n]].src = n
<1>1. next_[n] \in Conns
  BY Zenon DEF TypeOK
<1>2. next_[n] # 0
  BY <1>1 DEF Conns
<1> QED BY <1>1, <1>2, Zenon DEF ChainInv, LinksForward

\* A survivor with another one behind it does not take itself for the tail, and
\* while the head lives no other replica takes itself for it.
LEMMA TailIsLast ==
  ASSUME ChainInv, NEW i \in Nodes, NEW k \in Members, Adjacent(i, k)
  PROVE  ~is_tail(i)
<1>1. k \in Nodes /\ k \notin failed /\ i < k
  BY DEF Members, Adjacent
<1>2. k > i
  BY <1>1 DEF Nodes
<1> QED BY <1>1, <1>2, Zenon DEF ChainInv, RolesFit, RoleFits, is_tail

LEMMA HeadIsFirst ==
  ASSUME ChainInv, 1 \notin failed, NEW n \in Nodes, is_head(n)
  PROVE  n = 1
<1>1. \A i \in Nodes : i < n => i \in failed
  BY Zenon DEF ChainInv, RolesFit, RoleFits, is_head
<1> QED BY <1>1, ChainAssumption DEF Nodes

\* The lengths of the logs are numbers.
LEMMA LogLength ==
  ASSUME TypeOK, NEW n \in Nodes
  PROVE  log[n] \in Seq(Ops) /\ Len(log[n]) \in Nat
<1>1. log \in [Nodes -> Seq(Ops)]
  BY Zenon DEF TypeOK
<1> QED BY <1>1

\* The repair goes on while the replicas run commands.
LEMMA GoesOn ==
  ASSUME TypeOK, RepairGoesOn, UNCHANGED <<failed, mgr, next_, ends, open, role_>>,
         \A n \in Nodes : Len(log'[n]) \in Nat /\ Len(log[n]) <= Len(log'[n])
  PROVE  RepairGoesOn'
<1>1. Members' = Members /\ \A i, k : Connected(i, k)' <=> Connected(i, k)
  BY Zenon DEF Members, Connected
<1>2. RepairsLast => RepairsLast'
  BY <1>1, Zenon DEF RepairsLast, IsLast, is_tail
<1>3. ASSUME RepairsLink PROVE RepairsLink'
  <2>1. mgr.next \in Nodes /\ mgr.seq \in Int
    BY <1>3 DEF RepairsLink, Members, TypeOK, Plans
  <2>2. mgr.seq <= Len(log[mgr.next]) => mgr.seq <= Len(log'[mgr.next])
    BY <2>1, LogLength
  <2> QED BY <1>1, <1>3, <2>2, Zenon DEF RepairsLink, Adjacent
<1> QED BY <1>1, <1>2, <1>3, Zenon DEF RepairGoesOn

\* Nothing the repair is about changes, but that acked commands are forgotten.
LEMMA QuietRepair ==
  ASSUME TypeOK, RepairInv,
         UNCHANGED <<failed, alive, mgr, next_, ends, open, role_, log, reqs, completed>>,
         \A n \in Nodes : pending_'[n] \subseteq pending_[n]
  PROVE  RepairInv'
<1>1. Members' = Members
  BY DEF Members
<1>2. LinksCarry'
  BY <1>1, Zenon DEF RepairInv, LinksCarry, Adjacent, Repairing, Connected
<1>3. LastCompletes'
  BY <1>1, Zenon DEF RepairInv, LastCompletes, IsLast, Repairing, is_tail, Members
<1>4. \A n \in Nodes : Len(log'[n]) \in Nat /\ Len(log[n]) <= Len(log'[n])
  BY LogLength
<1>5. RepairGoesOn'
  BY <1>4, GoesOn, Zenon DEF RepairInv
<1> QED BY <1>1, <1>2, <1>3, <1>5, Zenon DEF RepairInv

\* A command that is run in its turn goes to the successor, or to the layer below.
LEMMA AcceptRepair ==
  ASSUME TypeOK, ChainInv, RepairInv, NEW n \in Nodes, NEW m \in Msg,
         m.seq = Len(log[n]) + 1, NEW ch \in [Conns -> Seq(Msg)], Accept(n, m, ch),
         \A c \in Conns : \/ ch[c] = reqs[c]
                          \/ /\ ends[c].dst = n
                             /\ reqs[c] # <<>> /\ ch[c] = Tail(reqs[c]),
         UNCHANGED <<failed, alive, mgr, next_, ends, open, role_>>
  PROVE  RepairInv'
<1>1. Members' = Members
  BY DEF Members
<1>2. /\ log \in [Nodes -> Seq(Ops)] /\ pending_ \in [Nodes -> SUBSET Msg]
      /\ completed \in [Nodes -> SUBSET Msg] /\ reqs \in [Conns -> Seq(Msg)]
  BY Zenon DEF TypeOK
<1>3. m.op \in Ops
  BY DEF Msg
<1>4. /\ Len(log'[n]) = Len(log[n]) + 1 /\ Len(log[n]) \in Nat
      /\ \A i \in Nodes : i # n => log'[i] = log[i]
  <2>1. log' = [log EXCEPT ![n] = Append(log[n], m.op)]
    BY Zenon DEF Accept
  <2> QED BY <1>2, <1>3, <2>1
<1>5. /\ \A c \in Conns : c # next_[n] => reqs'[c] = ch[c]
      /\ ~is_tail(n) /\ next_[n] \in open /\ next_[n] \in Conns
            => reqs'[next_[n]] = ch[next_[n]] \o <<m>>
  <2>1. \/ reqs' = ch /\ (is_tail(n) \/ next_[n] \notin open)
        \/ reqs' = [ch EXCEPT ![next_[n]] = ch[next_[n]] \o <<m>>]
    BY Zenon DEF Accept, Request
  <2> QED BY <2>1
<1>6. \A i \in Nodes : Len(log'[i]) \in Nat /\ Len(log[i]) <= Len(log'[i])
  BY <1>4, LogLength
<1>7. ASSUME NEW i \in Members, NEW k \in Members, Adjacent(i, k), Connected(i, k),
             Coming(reqs[next_[i]], Len(log[k]), Len(log[i]))
      PROVE  Coming(reqs'[next_[i]], Len(log'[k]), Len(log'[i]))
  <2> DEFINE d == next_[i]
  <2>1. i \in Nodes /\ k \in Nodes /\ i # k
    BY <1>7 DEF Members, Adjacent, Nodes
  <2>2. d \in Conns /\ ends[d].src = i /\ ends[d].dst = k /\ d \in open
    BY <1>7, <2>1, OwnLink, Zenon DEF Connected
  <2>3. Len(log[i]) \in Nat /\ Len(log[k]) \in Nat /\ Len(log'[k]) \in Nat
    BY <1>6, <2>1, LogLength
  <2>4. reqs[d] \in Seq(Msg)
    BY <1>2, <2>2
  <2> HIDE DEF d
  <2>5. CASE n = i
    <3>1. ~is_tail(n)
      BY <1>7, <2>1, <2>5, TailIsLast
    <3>2. ch[d] = reqs[d]
      BY <2>1, <2>2, <2>5
    <3>3. reqs'[d] = reqs[d] \o <<m>>
      BY <1>5, <2>2, <2>5, <3>1, <3>2 DEF d
    <3>4. Len(log'[i]) = Len(log[i]) + 1 /\ log'[k] = log[k]
      BY <1>4, <2>1, <2>5
    <3>5. Coming(reqs[d] \o <<m>>, Len(log[k]), Len(log[i]) + 1)
      BY <1>7, <2>3, <2>4, <2>5, ComingNext, Zenon DEF d
    <3> QED BY <3>3, <3>4, <3>5, Zenon DEF d
  <2>6. CASE n # i
    <3>1. d # next_[n]
      <4>1. ASSUME d = next_[n] PROVE FALSE
        <5>1. ends[d].src = n
          BY <2>2, <4>1, OwnLink
        <5> QED BY <2>2, <2>6, <5>1
      <4> QED BY <4>1
    <3>2. reqs'[d] = ch[d] /\ log'[i] = log[i]
      BY <1>4, <1>5, <2>1, <2>2, <2>6, <3>1
    <3>3. CASE ch[d] = reqs[d]
      <4>1. Coming(reqs[d], Len(log'[k]), Len(log[i]))
        BY <1>6, <1>7, <2>1, <2>3, ComingFewer, Zenon DEF d
      <4> QED BY <3>2, <3>3, <4>1, Zenon DEF d
    <3>4. CASE ends[d].dst = n /\ reqs[d] # <<>> /\ ch[d] = Tail(reqs[d])
      <4>1. Len(log'[k]) = Len(log[k]) + 1
        BY <1>4, <2>2, <3>4
      <4>2. Len(log[k]) <= Len(log'[k]) /\ Len(log[k]) + 1 <= Len(log'[k])
        BY <2>3, <4>1
      <4>3. Coming(Tail(reqs[d]), Len(log'[k]), Len(log[i]))
        BY <1>7, <2>3, <2>4, <3>4, <4>2, ComingRead, Zenon DEF d
      <4> QED BY <3>2, <3>4, <4>3, Zenon DEF d
    <3> QED BY <2>2, <3>3, <3>4, Zenon
  <2> QED BY <2>5, <2>6
<1>8. LinksCarry'
  BY <1>1, <1>7, Zenon DEF RepairInv, LinksCarry, Adjacent, Repairing, Connected
<1>9. ASSUME NEW t \in Members, is_tail(t), pending_[t] \subseteq completed[t]
      PROVE  pending_'[t] \subseteq completed'[t]
  <2>1. t \in Nodes
    BY DEF Members
  <2>2. pending_' = [pending_ EXCEPT ![n] = pending_[n] \cup {m}]
    BY Zenon DEF Accept
  <2>3. \/ completed' = [completed EXCEPT ![n] = completed[n] \cup {m}]
        \/ ~is_tail(n) /\ completed' = completed
    BY Zenon DEF Accept, ReplicationComplete
  <2> QED BY <1>2, <1>9, <2>1, <2>2, <2>3
<1>10. LastCompletes'
  BY <1>1, <1>9, Zenon DEF RepairInv, LastCompletes, IsLast, Repairing, is_tail
<1>11. RepairGoesOn'
  BY <1>6, GoesOn, Zenon DEF RepairInv
<1> QED BY <1>1, <1>8, <1>10, <1>11, Zenon DEF RepairInv

\* The command the layer above hands to the head
LEMMA SubmitRepair ==
  ASSUME TypeOK, ChainInv, RepairInv, NEW op \in Ops, Submit(op)
  PROVE  RepairInv'
<1> DEFINE m == Numbered(entry, [seq |-> 0, op |-> op])
<1>1. /\ is_head(entry) /\ Accept(entry, m, reqs)
      /\ UNCHANGED <<failed, alive, mgr, next_, ends, open, role_>>
  BY Zenon DEF Submit, mgrVars
<1>2. entry \in Nodes /\ reqs \in [Conns -> Seq(Msg)]
  BY Zenon DEF TypeOK
<1>3. [seq |-> 0, op |-> op] \in Msg
  BY DEF Msg
<1>4. m \in Msg
  BY <1>2, <1>3, NumberedType, Zenon
<1>5. m.seq = chain_seq_no_[entry] + 1
  BY <1>1 DEF Numbered
<1>6. m.seq = Len(log[entry]) + 1
  BY <1>2, <1>5, Zenon DEF ChainInv, SeqIsLength
<1> HIDE DEF m
<1> QED BY <1>1, <1>2, <1>4, <1>6, AcceptRepair, Zenon

\* A chain_request is run if it is the one the replica lacks, and dropped or
\* refused if it is not.
LEMMA ChainRequestRepair ==
  ASSUME TypeOK, ChainInv, OneFailure, RepairInv, NEW c \in Conns, ChainRequest(c)
  PROVE  RepairInv'
<1> DEFINE n == ends[c].dst
           first == Head(reqs[c])
           m == Numbered(n, first)
           read == [reqs EXCEPT ![c] = Tail(reqs[c])]
<1>1. /\ reqs[c] # <<>>
      /\ UNCHANGED <<failed, alive, mgr, next_, ends, open, role_>>
      /\ \/ m.seq = chain_seq_no_[n] + 1 /\ Accept(n, m, read)
         \/ /\ m.seq # chain_seq_no_[n] + 1 /\ reqs' = read
            /\ UNCHANGED <<log, pending_, completed>>
  BY Zenon DEF ChainRequest, InSequence, mgrVars
<1>2. n \in Nodes /\ ends[c].src \in Nodes /\ reqs \in [Conns -> Seq(Msg)]
  <2>1. ends \in [Conns -> [src : Nodes, dst : Nodes]] /\ reqs \in [Conns -> Seq(Msg)]
    BY Zenon DEF TypeOK
  <2> QED BY <2>1
<1>3. first \in Msg /\ read \in [Conns -> Seq(Msg)]
  BY <1>1, ReadAgrees, Zenon
<1>4. m = first
  <2>1. c \in Int /\ numConns \in Int
    BY ChainAssumption DEF TypeOK, Conns
  <2>2. ~(c > numConns)
    BY <1>1, Zenon DEF ChainInv, LinksForward
  <2>3. c <= numConns
    BY <2>1, <2>2
  <2>4. ends[c].src < n
    BY <2>3, Zenon DEF ChainInv, LinksForward, Adjacent
  <2>5. n # 1
    BY <1>2, <2>4 DEF Nodes
  <2>6. ~is_head(n)
    BY <1>2, <2>5, HeadIsFirst, Zenon DEF OneFailure
  <2> QED BY <2>6 DEF Numbered
<1>5. chain_seq_no_[n] = Len(log[n])
  BY <1>2, Zenon DEF ChainInv, SeqIsLength
<1>6. read[c] = Tail(reqs[c]) /\ \A k \in Conns : k # c => read[k] = reqs[k]
  BY <1>2
<1> HIDE DEF n, first, m, read
<1>7. CASE m.seq = chain_seq_no_[n] + 1 /\ Accept(n, m, read)
  <2>1. \A k \in Conns : \/ read[k] = reqs[k]
                         \/ ends[k].dst = n /\ reqs[k] # <<>> /\ read[k] = Tail(reqs[k])
    BY <1>1, <1>6, Zenon DEF n
  <2> QED BY <1>1, <1>2, <1>3, <1>4, <1>5, <1>7, <2>1, AcceptRepair, Zenon
<1>8. CASE /\ m.seq # chain_seq_no_[n] + 1 /\ reqs' = read
           /\ UNCHANGED <<log, pending_, completed>>
  <2>1. Members' = Members
    BY <1>1 DEF Members
  <2>2. ASSUME NEW i \in Members, NEW k \in Members, Adjacent(i, k), Connected(i, k),
               Coming(reqs[next_[i]], Len(log[k]), Len(log[i]))
        PROVE  Coming(reqs'[next_[i]], Len(log'[k]), Len(log'[i]))
    <3> DEFINE d == next_[i]
    <3>1. i \in Nodes /\ k \in Nodes
      BY DEF Members
    <3>2. d \in Conns /\ ends[d].dst = k
      BY <2>2, <3>1, OwnLink, Zenon DEF Connected
    <3>3. Len(log[i]) \in Nat /\ Len(log[k]) \in Nat
      BY <3>1, LogLength
    <3> HIDE DEF d
    <3>4. CASE d = c
      <4>1. k = n /\ Head(reqs[d]) = m
        BY <1>4, <3>2, <3>4 DEF n, first
      <4>2. Head(reqs[d]).seq # Len(log[k]) + 1
        BY <1>5, <1>8, <4>1
      <4>3. reqs[d] \in Seq(Msg) /\ reqs[d] # <<>>
        BY <1>1, <1>2, <3>2, <3>4
      <4>4. Len(log[k]) <= Len(log[k])
        BY <3>3
      <4>5. Coming(Tail(reqs[d]), Len(log[k]), Len(log[i]))
        BY <2>2, <3>3, <4>2, <4>3, <4>4, ComingRead, Zenon DEF d
      <4> QED BY <1>6, <1>8, <3>4, <4>5, Zenon DEF d
    <3>5. CASE d # c
      BY <1>6, <1>8, <2>2, <3>2, <3>5, Zenon DEF d
    <3> QED BY <3>4, <3>5
  <2>3. LinksCarry'
    <3>1. /\ failed' = failed /\ mgr' = mgr /\ next_' = next_ /\ ends' = ends /\ open' = open
      BY <1>1
    <3>2. \A i, k : /\ Adjacent(i, k)' <=> Adjacent(i, k)
                    /\ Repairing(i)' <=> Repairing(i)
                    /\ Connected(i, k)' <=> Connected(i, k)
      BY <3>1, Zenon DEF Adjacent, Repairing, Connected
    <3>3. LinksCarry
      BY DEF RepairInv
    <3> QED BY <2>1, <2>2, <3>1, <3>2, <3>3, Zenon DEF LinksCarry
  <2>4. LastCompletes'
    BY <1>1, <1>8, <2>1, Zenon DEF RepairInv, LastCompletes, IsLast, Repairing, is_tail
  <2>5. \A i \in Nodes : Len(log'[i]) \in Nat /\ Len(log[i]) <= Len(log'[i])
    BY <1>8, LogLength
  <2>6. RepairGoesOn'
    BY <1>1, <2>5, GoesOn, Zenon DEF RepairInv
  <2> QED BY <1>1, <2>1, <2>3, <2>4, <2>6, Zenon DEF RepairInv
<1> QED BY <1>1, <1>7, <1>8

\* The acks only take commands out of the pending tables.
LEMMA AckRepair ==
  ASSUME TypeOK, RepairInv, NEW n \in Nodes, NEW m, NEW ch, NEW threw, Ack(n, m, ch, threw),
         UNCHANGED <<failed, alive, mgr, next_, ends, open, role_, log, reqs, completed>>
  PROVE  RepairInv'
<1>1. pending_ \in [Nodes -> SUBSET Msg]
  BY Zenon DEF TypeOK
<1>2. pending_' = [pending_ EXCEPT ![n] = {p \in pending_[n] : p.seq # m.seq}]
  BY Zenon DEF Ack
<1>3. \A i \in Nodes : pending_'[i] \subseteq pending_[i]
  BY <1>1, <1>2
<1> QED BY <1>3, QuietRepair, Zenon

\* A replica that exits closes only its own connections.
LEMMA CrashRepair ==
  ASSUME TypeOK, ChainInv, RepairInv, NEW f \in Nodes, Crash(f)
  PROVE  RepairInv'
<1>1. /\ f \in failed /\ alive' = alive \ {f}
      /\ open' = {c \in open : f \notin {ends[c].src, ends[c].dst}}
      /\ UNCHANGED <<failed, mgr, next_, ends, role_, log, pending_, completed>>
  BY Zenon DEF Crash, nodeVars, envVars
<1>2. Members' = Members /\ f \notin Members
  BY <1>1 DEF Members
<1>3. ASSUME NEW i \in Members, NEW k \in Members, Connected(i, k)
      PROVE  Connected(i, k)' /\ reqs'[next_[i]] = reqs[next_[i]]
  <2>1. i \in Nodes /\ k \in Nodes /\ f # i /\ f # k
    BY <1>2 DEF Members
  <2>2. /\ next_[i] \in open /\ next_[i] \in Conns
        /\ ends[next_[i]].src = i /\ ends[next_[i]].dst = k
    BY <1>3, <2>1, OwnLink, Zenon DEF Connected
  <2>3. next_[i] # next_[f]
    BY <2>1, <2>2, OwnLink
  <2>4. PICK q : reqs' = [c \in Conns |-> IF ends[c].dst = f THEN <<>>
                                          ELSE IF c = next_[f] THEN q ELSE reqs[c]]
    BY Zenon DEF Crash
  <2>5. reqs'[next_[i]] = reqs[next_[i]]
    BY <2>1, <2>2, <2>3, <2>4
  <2>6. next_[i] \in open'
    BY <1>1, <2>1, <2>2
  <2> QED BY <1>1, <2>2, <2>5, <2>6, Zenon DEF Connected
<1>4. LinksCarry'
  BY <1>1, <1>2, <1>3, Zenon DEF RepairInv, LinksCarry, Adjacent, Repairing
<1>5. LastCompletes'
  BY <1>1, <1>2, Zenon DEF RepairInv, LastCompletes, IsLast, Repairing, is_tail
<1>6. ASSUME mgr.node \in Members, RepairsLink PROVE RepairsLink'
  <2>1. Connected(mgr.node, mgr.next) => Connected(mgr.node, mgr.next)'
    BY <1>1, <1>3, <1>6, Zenon DEF RepairsLink
  <2> QED BY <1>1, <1>2, <1>6, <2>1, Zenon DEF RepairsLink, Adjacent
<1>7. RepairsLast => RepairsLast'
  BY <1>1, <1>2, Zenon DEF RepairsLast, IsLast, is_tail
<1>8. RepairGoesOn'
  BY <1>1, <1>2, <1>6, <1>7, Zenon DEF RepairInv, RepairGoesOn
<1>9. Members' \subseteq alive'
  BY <1>1, <1>2 DEF RepairInv
<1> QED BY <1>4, <1>5, <1>8, <1>9, Zenon DEF RepairInv

\* The manager sets about the repair of the link that failed.
LEMMA FailNodeRepair ==
  ASSUME TypeOK, ChainInv, RepairInv, NEW f \in Nodes, FailNode(f), OneFailure'
  PROVE  RepairInv'
<1>1. /\ mgr.step = "idle" /\ f \in Members /\ failed' = failed \cup {f}
      /\ mgr' = RepairPlan(f)
      /\ UNCHANGED <<alive, next_, ends, open, role_, log, reqs, pending_, completed>>
  BY Zenon DEF FailNode, nodeVars, netVars, envVars
<1>2. failed = {} /\ f # 1
  BY <1>1, Zenon DEF OneFailure, Members
<1>3. failed' = {f} /\ f > 1
  BY <1>1, <1>2 DEF Nodes
<1>4. Members = Nodes /\ Members' = Nodes \ {f}
  BY <1>2, <1>3 DEF Members
<1>5. mgr' = [step |-> "setup_chain", node |-> f - 1,
              role |-> IF N = 2 THEN "singleton" ELSE IF f = 2 THEN "head"
                       ELSE IF f = N THEN "tail" ELSE "mid",
              next |-> IF f = N THEN 0 ELSE f + 1, seq |-> -1,
              then |-> IF f = N THEN "resend_pending" ELSE "fetch_seq"]
  BY <1>1, <1>3, Zenon DEF RepairPlan
<1>6. ASSUME NEW i \in Members', NEW k \in Members', Adjacent(i, k)', ~Adjacent(i, k)
      PROVE  i = f - 1
  <2>1. i \in Nodes /\ k \in Nodes /\ i # f /\ k # f
    BY <1>4
  <2>2. i < k /\ \A j \in Nodes : i < j /\ j < k => j = f
    BY <1>3, <1>6 DEF Adjacent
  <2>3. PICK j \in Nodes : i < j /\ j < k
    BY <1>6, <2>2, Zenon DEF Adjacent
  <2>4. j = f
    BY <2>2, <2>3
  <2>5. f - 1 \in Nodes
    BY <1>3, ChainAssumption DEF Nodes
  <2>6. ~(i < f - 1 /\ f - 1 < k)
    BY <2>2, <2>5 DEF Nodes
  <2> QED BY <2>1, <2>3, <2>4, <2>6 DEF Nodes
<1>11. Repairing(f - 1)'
  BY <1>5 DEF Repairing
<1>7. LinksCarry'
  <2> SUFFICES ASSUME NEW i \in Members', NEW k \in Members', Adjacent(i, k)', i # f - 1
               PROVE  /\ Connected(i, k)
                      /\ Coming(reqs[next_[i]], Len(log[k]), Len(log[i]))
    <3>1. \A i, k : Connected(i, k)' <=> Connected(i, k)
      BY <1>1, Zenon DEF Connected
    <3>2. reqs' = reqs /\ log' = log /\ next_' = next_
      BY <1>1
    <3> QED BY <1>11, <3>1, <3>2, Zenon DEF LinksCarry
  <2>1. Adjacent(i, k) /\ i \in Members /\ k \in Members
    BY <1>4, <1>6
  <2> QED BY <1>1, <2>1, Zenon DEF RepairInv, LinksCarry, Repairing
<1>8. LastCompletes'
  <2> SUFFICES ASSUME NEW t \in Members', IsLast(t)', t # f - 1
               PROVE  is_tail(t) /\ pending_[t] \subseteq completed[t]
    <3>1. \A t : is_tail(t)' <=> is_tail(t)
      BY <1>1, Zenon DEF is_tail
    <3>2. pending_' = pending_ /\ completed' = completed
      BY <1>1
    <3> QED BY <1>11, <3>1, <3>2, Zenon DEF LastCompletes
  <2>1. f # N
    <3>1. ASSUME f = N PROVE FALSE
      <4>1. N - 1 \in Nodes \ {f}
        BY <3>1, ChainAssumption DEF Nodes
      <4>2. N - 1 <= t
        BY <1>4, <4>1 DEF IsLast
      <4> QED BY <1>4, <3>1, <4>2, ChainAssumption DEF Nodes
    <3> QED BY <3>1
  <2>2. N \in Members'
    BY <1>4, <2>1, ChainAssumption DEF Nodes
  <2>3. N <= t
    BY <2>2 DEF IsLast
  <2>4. t \in Members /\ IsLast(t)
    BY <1>4, <2>3, ChainAssumption DEF IsLast, Nodes
  <2> QED BY <1>1, <2>4, Zenon DEF RepairInv, LastCompletes, Repairing
<1>9. RepairGoesOn'
  <2>1. f - 1 \in Members'
    BY <1>3, <1>4, ChainAssumption DEF Nodes
  <2>2. CASE f = N
    <3>1. \A j \in Members' : j <= f - 1
      BY <1>4, <2>2, ChainAssumption DEF Nodes
    <3>2. (IF N = 2 THEN "singleton" ELSE IF f = 2 THEN "head"
                       ELSE IF f = N THEN "tail" ELSE "mid") \in {"tail", "singleton"}
      BY <2>2
    <3>3. RepairsLast'
      BY <1>5, <2>2, <3>1, <3>2 DEF RepairsLast, IsLast
    <3> QED BY <1>5, <2>1, <3>3 DEF RepairGoesOn
  <2>3. CASE f # N
    <3>1. f + 1 \in Members'
      BY <1>4, <2>3, ChainAssumption DEF Nodes
    <3>2. Adjacent(f - 1, f + 1)'
      BY <1>3 DEF Adjacent, Nodes
    <3>3. RepairsLink'
      BY <1>5, <2>3, <3>1, <3>2 DEF RepairsLink
    <3> QED BY <1>5, <2>1, <3>3 DEF RepairGoesOn
  <2> QED BY <2>2, <2>3
<1>10. Members' \subseteq alive'
  BY <1>1, <1>4 DEF RepairInv
<1> QED BY <1>7, <1>8, <1>9, <1>10, Zenon DEF RepairInv

\* setup closes the connection of the replica that is repaired, and no other.
LEMMA SetupChainRepair ==
  ASSUME TypeOK, ChainInv, RepairInv, SetupChain
  PROVE  RepairInv'
<1>0. PICK n, c, d : n = mgr.node /\ c = numConns + 1 /\ d = next_[n]
  BY Zenon
<1>1. /\ mgr.step = "setup_chain"
      /\ UNCHANGED <<failed, alive, log, pending_, completed>>
      /\ role_' = [role_ EXCEPT ![n] = mgr.role]
  BY <1>0, Zenon DEF SetupChain, envVars
<1>2. PICK q : reqs' = [k \in Conns |-> IF k = d THEN q ELSE reqs[k]]
  BY <1>0, Zenon DEF SetupChain
<1>3. \/ /\ mgr.next \in alive /\ c \in Conns
         /\ ends' = [ends EXCEPT ![c] = [src |-> n, dst |-> mgr.next]]
         /\ open' = (open \ {d}) \cup {c} /\ next_' = [next_ EXCEPT ![n] = c]
      \/ /\ mgr.next \notin alive /\ ends' = ends
         /\ open' = open \ {d} /\ next_' = [next_ EXCEPT ![n] = 0]
  BY <1>0, Zenon DEF SetupChain
<1>4. mgr' = IF mgr.next \notin alive \cup {0} THEN Aborted ELSE [mgr EXCEPT !.step = mgr.then]
  BY Zenon DEF SetupChain
<1>5. /\ n \in Members /\ n \in Nodes /\ (RepairsLast \/ RepairsLink)
      /\ Members \subseteq alive /\ alive \subseteq Nodes /\ mgr \in Plans
  BY <1>0, <1>1 DEF RepairInv, RepairGoesOn, Members, TypeOK
<1>6. mgr.next \notin alive => mgr.next = 0
  BY <1>5 DEF RepairsLast, RepairsLink
<1>7. mgr' = [mgr EXCEPT !.step = mgr.then]
  BY <1>4, <1>6
<1>8. /\ mgr'.step = mgr.then /\ mgr'.node = n /\ mgr'.next = mgr.next
      /\ mgr'.seq = mgr.seq /\ mgr'.role = mgr.role /\ mgr'.then = mgr.then
  BY <1>0, <1>5, <1>7 DEF Plans
<1>9. Members' = Members
  BY <1>1 DEF Members
<1>10. mgr.then \in {"fetch_seq", "resend_pending"}
  BY <1>5 DEF RepairsLast, RepairsLink
<1>11. Repairing(n)' /\ \A i \in Members : i # n => ~Repairing(i)
  BY <1>0, <1>8, <1>10 DEF Repairing
<1>12. ASSUME NEW i \in Members, NEW k, i # n, Connected(i, k)
       PROVE  Connected(i, k)' /\ next_'[i] = next_[i] /\ reqs'[next_[i]] = reqs[next_[i]]
  <2>1. i \in Nodes /\ next_[i] \in open /\ ends[next_[i]].dst = k
    BY <1>12 DEF Members, Connected
  <2>2. next_[i] \in Conns /\ next_[i] <= numConns /\ ends[next_[i]].src = i
    BY <2>1, OwnLink
  <2>3. ASSUME next_[i] = d PROVE FALSE
    <3>1. next_[n] \in open /\ next_[n] = next_[i]
      BY <1>0, <2>1, <2>3
    <3>2. ends[next_[n]].src = n
      BY <1>5, <3>1, OwnLink, Zenon
    <3> QED BY <1>12, <2>2, <3>1, <3>2
  <2>4. next_[i] # c
    <3>1. numConns \in 0..MaxConns
      BY Zenon DEF TypeOK
    <3>2. next_[i] \in Int /\ numConns \in Int
      BY <2>2, <3>1, ChainAssumption DEF Conns
    <3> QED BY <1>0, <2>2, <3>2
  <2>5. next_ \in [Nodes -> 0..MaxConns] /\ ends \in [Conns -> [src : Nodes, dst : Nodes]]
    BY Zenon DEF TypeOK
  <2>6. next_'[i] = next_[i]
    BY <1>3, <1>12, <2>1, <2>5
  <2>7. ends'[next_[i]] = ends[next_[i]]
    BY <1>3, <2>2, <2>4, <2>5
  <2>8. next_[i] \in open'
    BY <1>3, <2>1, <2>3, Zenon
  <2>9. reqs'[next_[i]] = reqs[next_[i]]
    BY <1>2, <2>2, <2>3
  <2> QED BY <2>1, <2>6, <2>7, <2>8, <2>9, Zenon DEF Connected
<1>13. LinksCarry'
  <2> SUFFICES ASSUME NEW i \in Members, NEW k \in Members, Adjacent(i, k), i # n
               PROVE  /\ Connected(i, k)'
                      /\ Coming(reqs'[next_'[i]], Len(log[k]), Len(log[i]))
    <3>1. \A i, k : Adjacent(i, k)' <=> Adjacent(i, k)
      BY <1>1, Zenon DEF Adjacent
    <3>2. log' = log
      BY <1>1
    <3> QED BY <1>9, <1>11, <3>1, <3>2, Zenon DEF LinksCarry
  <2>1. Connected(i, k) /\ Coming(reqs[next_[i]], Len(log[k]), Len(log[i]))
    BY <1>11, Zenon DEF RepairInv, LinksCarry
  <2> QED BY <1>12, <2>1
<1>14. LastCompletes'
  <2> SUFFICES ASSUME NEW t \in Members, IsLast(t), t # n
               PROVE  is_tail(t)' /\ pending_[t] \subseteq completed[t]
    <3>1. \A t : IsLast(t)' <=> IsLast(t)
      BY <1>9, Zenon DEF IsLast
    <3>2. pending_' = pending_ /\ completed' = completed
      BY <1>1
    <3> QED BY <1>9, <1>11, <3>1, <3>2, Zenon DEF LastCompletes
  <2>1. is_tail(t) /\ pending_[t] \subseteq completed[t]
    BY <1>11, Zenon DEF RepairInv, LastCompletes
  <2>2. t \in Nodes /\ role_ \in [Nodes -> Roles]
    BY Zenon DEF TypeOK, Members
  <2>3. role_'[t] = role_[t]
    BY <1>1, <2>2
  <2> QED BY <2>1, <2>3, Zenon DEF is_tail
<1>15. ASSUME RepairsLast PROVE RepairsLast'
  <2>1. role_ \in [Nodes -> Roles]
    BY Zenon DEF TypeOK
  <2>2. role_'[n] = mgr.role
    BY <1>1, <1>5, <2>1
  <2>3. is_tail(mgr.node)'
    BY <1>8, <1>15, <2>2 DEF is_tail, RepairsLast
  <2>4. IsLast(mgr.node)'
    BY <1>0, <1>8, <1>9, <1>15 DEF IsLast, RepairsLast
  <2> QED BY <1>8, <1>15, <2>3, <2>4 DEF RepairsLast
<1>16. ASSUME RepairsLink PROVE RepairsLink'
  <2>1. mgr.next \in alive
    BY <1>5, <1>16, Zenon DEF RepairsLink
  <2>2. /\ c \in Conns /\ ends' = [ends EXCEPT ![c] = [src |-> n, dst |-> mgr.next]]
        /\ open' = (open \ {d}) \cup {c} /\ next_' = [next_ EXCEPT ![n] = c]
    BY <1>3, <2>1
  <2>3. next_ \in [Nodes -> 0..MaxConns] /\ ends \in [Conns -> [src : Nodes, dst : Nodes]]
    BY Zenon DEF TypeOK
  <2>4. next_'[n] = c /\ ends'[c].dst = mgr.next /\ c \in open'
    BY <1>5, <2>2, <2>3
  <2>5. Connected(mgr.node, mgr.next)'
    BY <1>8, <2>4, Zenon DEF Connected
  <2>6. mgr.then = "fetch_seq" /\ mgr.next \in Members' /\ Adjacent(mgr.node, mgr.next)'
    BY <1>0, <1>1, <1>8, <1>9, <1>16, Zenon DEF RepairsLink, Adjacent
  <2> QED BY <1>8, <2>5, <2>6 DEF RepairsLink
<1>17. RepairGoesOn'
  BY <1>5, <1>8, <1>9, <1>15, <1>16, Zenon DEF RepairGoesOn
<1>18. Members' \subseteq alive'
  BY <1>1, <1>5, <1>9
<1> QED BY <1>13, <1>14, <1>17, <1>18, Zenon DEF RepairInv

\* A survivor has one survivor next behind it.
LEMMA NextSurvivor ==
  ASSUME NEW i \in Nodes, NEW j \in Members, NEW k \in Members, Adjacent(i, j), Adjacent(i, k)
  PROVE  j = k
<1>1. j \in Nodes /\ k \in Nodes /\ j \notin failed /\ k \notin failed
  BY DEF Members
<1>2. ~(j < k) /\ ~(k < j)
  BY <1>1, Zenon DEF Adjacent
<1> QED BY <1>1, <1>2 DEF Nodes

\* resend_pending sends all that the successor lacks, behind whatever was sent
\* before; a new tail completes all that is pending.
LEMMA ResendPendingRepair ==
  ASSUME TypeOK, ChainInv, RepairInv, ResendPending
  PROVE  RepairInv'
<1>0. PICK n, ops : n = mgr.node /\ ops = Unseen(n, mgr.seq)
  BY Zenon
<1>1. /\ mgr.step = "resend_pending" /\ mgr' = Idle
      /\ UNCHANGED <<failed, alive, next_, ends, open, role_, log, pending_>>
  BY Zenon DEF ResendPending, nodeVars
<1>2. \/ /\ is_tail(n) /\ reqs' = reqs
         /\ completed' = [completed EXCEPT ![n] = completed[n] \cup ops]
      \/ /\ ~is_tail(n) /\ completed' = completed
         /\ \E op_list \in Sorted(ops) : reqs' = Request(n, op_list, reqs)
  BY <1>0, Zenon DEF ResendPending, ReplicationComplete
<1>3. /\ n \in Members /\ n \in Nodes /\ (RepairsLast \/ RepairsLink)
      /\ Members \subseteq alive
  BY <1>0, <1>1 DEF RepairInv, RepairGoesOn, Members
<1>4. Members' = Members
  BY <1>1 DEF Members
<1>5. \A i \in Members : i # n => ~Repairing(i)
  BY <1>0 DEF Repairing
<1>6. /\ completed \in [Nodes -> SUBSET Msg] /\ pending_ \in [Nodes -> SUBSET Msg]
      /\ reqs \in [Conns -> Seq(Msg)] /\ mgr.seq \in Int
  BY DEF TypeOK, Plans
<1>7. ops = {m \in pending_[n] : m.seq > mgr.seq} /\ ops \in SUBSET Msg
  <2>1. ops = {m \in pending_[n] : m.seq > mgr.seq}
    BY <1>0, Zenon DEF Unseen
  <2> QED BY <1>3, <1>6, <2>1
<1>8. ASSUME NEW i \in Members, NEW k \in Members, Adjacent(i, k)
      PROVE  Connected(i, k) /\ Coming(reqs'[next_[i]], Len(log[k]), Len(log[i]))
  <2>1. i \in Nodes /\ k \in Nodes /\ i < k
    BY <1>8 DEF Members, Adjacent
  <2>2. CASE i # n
    <3>1. Connected(i, k) /\ Coming(reqs[next_[i]], Len(log[k]), Len(log[i]))
      BY <1>5, <1>8, <2>2, Zenon DEF RepairInv, LinksCarry
    <3>2. next_[i] \in Conns /\ ends[next_[i]].src = i
      BY <2>1, <3>1, OwnLink DEF Connected
    <3>3. next_[n] \in open => next_[i] # next_[n]
      BY <1>3, <2>2, <3>2, OwnLink
    <3>4. \/ reqs' = reqs
          \/ \E l : next_[n] \in open /\ reqs' = [reqs EXCEPT ![next_[n]] = reqs[next_[n]] \o l]
      BY <1>2, Zenon DEF Request
    <3>5. reqs'[next_[i]] = reqs[next_[i]]
      BY <1>6, <3>2, <3>3, <3>4
    <3> QED BY <3>1, <3>5
  <2>3. CASE i = n
    <3>1. ~is_tail(n)
      BY <1>8, <2>1, <2>3, TailIsLast
    <3>2. RepairsLink
      BY <1>0, <1>1, <1>3, <3>1 DEF RepairsLast
    <3>3. mgr.next = k
      BY <1>0, <1>8, <2>1, <2>3, <3>2, NextSurvivor, Zenon DEF RepairsLink
    <3>4. Connected(i, k) /\ mgr.seq <= Len(log[k])
      BY <1>0, <1>1, <2>3, <3>2, <3>3 DEF RepairsLink
    <3>5. next_[n] \in open /\ next_[n] \in Conns
      BY <1>3, <2>3, <3>4, OwnLink DEF Connected
    <3>6. PICK l \in Sorted(ops) : reqs' = [reqs EXCEPT ![next_[n]] = reqs[next_[n]] \o l]
      BY <1>2, <3>1, <3>5, Zenon DEF Request
    <3>7. reqs[next_[n]] \in Seq(Msg) /\ reqs'[next_[n]] = reqs[next_[n]] \o l
      BY <1>6, <3>5, <3>6
    <3>8. /\ Len(log[k]) \in Nat /\ Len(log[i]) \in Nat
          /\ log[k] \in Seq(Ops) /\ log[i] \in Seq(Ops)
      BY <2>1, LogLength
    <3>9. ASSUME NEW s \in (Len(log[k]) + 1)..Len(log[i])
          PROVE  \E m \in ops : m.seq = s
      <4>1. s \in 1..Len(log[i]) /\ s > Len(log[k]) /\ s > mgr.seq
        BY <1>6, <3>4, <3>8
      <4>2. [seq |-> s, op |-> log[i][s]] \in pending_[i]
        BY <2>1, <4>1, Zenon DEF ChainInv, PendingCovers
      <4>3. [seq |-> s, op |-> log[i][s]] \in ops
        BY <1>7, <2>3, <4>1, <4>2
      <4> QED BY <4>3
    <3>10. Coming(reqs[next_[n]] \o l, Len(log[k]), Len(log[i]))
      BY <1>7, <3>6, <3>7, <3>8, <3>9, ComingSorted, Zenon
    <3> QED BY <2>3, <3>4, <3>7, <3>10, Zenon
  <2> QED BY <2>2, <2>3
<1>9. LinksCarry'
  <2>1. \A i, k : /\ Adjacent(i, k)' <=> Adjacent(i, k)
                  /\ Connected(i, k)' <=> Connected(i, k)
    BY <1>1, Zenon DEF Adjacent, Connected
  <2>2. log' = log /\ next_' = next_
    BY <1>1
  <2> QED BY <1>4, <1>8, <2>1, <2>2, Zenon DEF LinksCarry
<1>10. ASSUME NEW t \in Members, IsLast(t)
       PROVE  is_tail(t) /\ pending_[t] \subseteq completed'[t]
  <2>1. t \in Nodes
    BY DEF Members
  <2>2. CASE t # n
    <3>1. is_tail(t) /\ pending_[t] \subseteq completed[t]
      BY <1>5, <1>10, <2>2, Zenon DEF RepairInv, LastCompletes
    <3>2. completed'[t] = completed[t]
      BY <1>2, <1>6, <2>1, <2>2
    <3> QED BY <3>1, <3>2
  <2>3. CASE t = n
    <3>1. ~RepairsLink
      <4>1. ASSUME RepairsLink PROVE FALSE
        <5>1. mgr.next \in Members /\ n < mgr.next
          BY <1>0, <4>1 DEF RepairsLink, Adjacent
        <5>2. mgr.next <= n
          BY <1>10, <2>3, <5>1, Zenon DEF IsLast
        <5> QED BY <1>3, <5>1, <5>2 DEF Members, Nodes
      <4> QED BY <4>1
    <3>2. RepairsLast
      BY <1>3, <3>1
    <3>3. is_tail(n) /\ mgr.seq = -1
      BY <1>0, <1>1, <3>2 DEF RepairsLast
    <3>4. completed'[n] = completed[n] \cup ops
      BY <1>2, <1>3, <1>6, <3>3
    <3>5. pending_[n] \subseteq ops
      BY <1>3, <1>6, <1>7, <3>3 DEF Msg
    <3> QED BY <2>3, <3>3, <3>4, <3>5
  <2> QED BY <2>2, <2>3
<1>11. LastCompletes'
  <2>1. \A t : (IsLast(t)' <=> IsLast(t)) /\ (is_tail(t)' <=> is_tail(t))
    BY <1>1, <1>4, Zenon DEF IsLast, is_tail
  <2>2. pending_' = pending_
    BY <1>1
  <2> QED BY <1>4, <1>10, <2>1, <2>2, Zenon DEF LastCompletes
<1>12. RepairGoesOn'
  BY <1>1 DEF RepairGoesOn, Idle
<1> QED BY <1>1, <1>3, <1>4, <1>9, <1>11, <1>12, Zenon DEF RepairInv

\* The successor's sequence number is the length of its log.
LEMMA FetchSeqRepair ==
  ASSUME TypeOK, ChainInv, RepairInv, FetchSeq
  PROVE  RepairInv'
<1>1. /\ mgr.step = "fetch_seq"
      /\ mgr' = [mgr EXCEPT !.step = "resend_pending", !.seq = chain_seq_no_[mgr.next]]
      /\ UNCHANGED <<failed, alive, next_, ends, open, role_, log, reqs, pending_, completed>>
  BY Zenon DEF FetchSeq, nodeVars, netVars, envVars
<1>2. mgr \in Plans
  BY Zenon DEF TypeOK
<1>3. /\ mgr'.step = "resend_pending" /\ mgr'.seq = chain_seq_no_[mgr.next]
      /\ mgr'.node = mgr.node /\ mgr'.next = mgr.next /\ mgr'.then = mgr.then
  BY <1>1, <1>2 DEF Plans
<1>4. Members' = Members
  BY <1>1 DEF Members
<1>5. \A i, k : /\ Adjacent(i, k)' <=> Adjacent(i, k)
                /\ Repairing(i)' <=> Repairing(i)
                /\ Connected(i, k)' <=> Connected(i, k)
                /\ IsLast(i)' <=> IsLast(i)
                /\ is_tail(i)' <=> is_tail(i)
  BY <1>1, <1>3, <1>4 DEF Adjacent, Repairing, Connected, IsLast, is_tail
<1>6. mgr.node \in Members /\ RepairsLink
  BY <1>1 DEF RepairInv, RepairGoesOn, RepairsLast
<1>7. mgr'.seq <= Len(log[mgr.next])
  <2>1. mgr.next \in Nodes
    BY <1>6 DEF RepairsLink, Members
  <2>2. chain_seq_no_[mgr.next] = Len(log[mgr.next])
    BY <2>1, Zenon DEF ChainInv, SeqIsLength
  <2>3. mgr'.seq = Len(log[mgr.next])
    BY <1>3, <2>2, Zenon
  <2>4. Len(log[mgr.next]) \in Nat
    BY <2>1, LogLength, Zenon
  <2> QED BY <2>3, <2>4
<1>8. RepairsLink'
  <2>1. /\ mgr.next \in Members /\ Adjacent(mgr.node, mgr.next) /\ mgr.then = "fetch_seq"
        /\ Connected(mgr.node, mgr.next)
    BY <1>1, <1>6 DEF RepairsLink
  <2>2. UNCHANGED <<failed, next_, ends, open, log>>
    BY <1>1
  <2>3. Adjacent(mgr.node, mgr.next)' /\ Connected(mgr.node, mgr.next)'
    BY <1>3, <2>1, <2>2 DEF Adjacent, Connected
  <2> QED BY <1>3, <1>4, <1>7, <2>1, <2>2, <2>3 DEF RepairsLink
<1>9. RepairGoesOn'
  BY <1>3, <1>4, <1>6, <1>8, Zenon DEF RepairGoesOn
<1>10. LinksCarry'
  BY <1>1, <1>4, <1>5, Zenon DEF RepairInv, LinksCarry
<1>11. LastCompletes'
  BY <1>1, <1>4, <1>5, Zenon DEF RepairInv, LastCompletes
<1> QED BY <1>1, <1>4, <1>9, <1>10, <1>11, Zenon DEF RepairInv

\* A manager that gave up stays at the replica it was repairing.
LEMMA ManagerAbortsRepair ==
  ASSUME TypeOK, RepairInv, ManagerAborts
  PROVE  RepairInv'
<1>1. /\ mgr.step \in {"setup_chain", "resend_pending", "fetch_seq"} /\ mgr' = Aborted
      /\ UNCHANGED <<failed, alive, next_, ends, open, role_, log, reqs, pending_, completed>>
  BY Zenon DEF ManagerAborts, nodeVars, netVars, envVars
<1>2. mgr'.step = "aborted" /\ mgr'.node = mgr.node
  BY <1>1 DEF Aborted, TypeOK, Plans
<1>3. Members' = Members
  BY <1>1 DEF Members
<1>4. \A i, k : /\ Adjacent(i, k)' <=> Adjacent(i, k)
                /\ Repairing(i)' <=> Repairing(i)
                /\ Connected(i, k)' <=> Connected(i, k)
                /\ IsLast(i)' <=> IsLast(i)
                /\ is_tail(i)' <=> is_tail(i)
  BY <1>1, <1>2, <1>3 DEF Adjacent, Repairing, Connected, IsLast, is_tail
<1>5. LinksCarry'
  BY <1>1, <1>3, <1>4, Zenon DEF RepairInv, LinksCarry
<1>6. LastCompletes'
  BY <1>1, <1>3, <1>4, Zenon DEF RepairInv, LastCompletes
<1>7. RepairGoesOn'
  BY <1>2 DEF RepairGoesOn
<1> QED BY <1>1, <1>3, <1>5, <1>6, <1>7, Zenon DEF RepairInv

\* In the chain that init_proxy sets up, every replica is connected to the next.
LEMMA RepairInit == Init => RepairInv
<1> SUFFICES ASSUME Init PROVE RepairInv
  OBVIOUS
<1>1. Members = Nodes /\ alive = Nodes
  BY DEF Init, Members
<1>2. ASSUME NEW i \in Nodes, NEW k \in Nodes, Adjacent(i, k)
      PROVE  Connected(i, k) /\ Coming(reqs[next_[i]], Len(log[k]), Len(log[i]))
  <2>1. k = i + 1 /\ i \in 1..(N - 1) /\ i # N
    <3>1. i < k /\ \A j \in Nodes : ~(i < j /\ j < k)
      BY <1>2 DEF Init, Adjacent
    <3>2. i + 1 \in Nodes
      BY <3>1, ChainAssumption DEF Nodes
    <3>3. ~(i < i + 1 /\ i + 1 < k)
      BY <3>1, <3>2, Zenon
    <3> QED BY <3>1, <3>3, ChainAssumption DEF Nodes
  <2>2. next_[i] = i /\ i \in Conns /\ i < N
    <3>1. i \in Conns /\ i < N
      BY <2>1, ChainAssumption DEF Conns
    <3>2. next_ = [n \in Nodes |-> IF n = N THEN 0 ELSE n]
      BY Zenon DEF Init
    <3>3. next_[i] = i
      BY <2>1, <3>2
    <3> QED BY <3>1, <3>3
  <2>3. ends[i].dst = i + 1
    BY <2>2 DEF Init
  <2>4. log[i] = <<>> /\ log[k] = <<>>
    BY DEF Init
  <2>5. Coming(reqs[i], Len(log[k]), Len(log[i]))
    BY <2>4, ComingNothing
  <2> QED BY <2>1, <2>2, <2>3, <2>5 DEF Connected, Init
<1>3. LinksCarry
  BY <1>1, <1>2, Zenon DEF LinksCarry
<1>4. LastCompletes
  <2> SUFFICES ASSUME NEW t \in Nodes, IsLast(t)
               PROVE  is_tail(t) /\ pending_[t] \subseteq completed[t]
    BY <1>1, Zenon DEF LastCompletes
  <2>1. t = N
    BY <1>1, ChainAssumption DEF IsLast, Nodes
  <2>2. /\ role_ = [n \in Nodes |-> IF n = 1 THEN "head" ELSE IF n = N THEN "tail" ELSE "mid"]
        /\ pending_ = [n \in Nodes |-> {}]
    BY Zenon DEF Init
  <2>3. N # 1
    BY ChainAssumption
  <2>4. role_[t] = "tail" /\ pending_[t] = {}
    BY <2>1, <2>2, <2>3
  <2> QED BY <2>4 DEF is_tail
<1>5. RepairGoesOn
  BY DEF Init, Idle, RepairGoesOn
<1> QED BY <1>1, <1>3, <1>4, <1>5, Zenon DEF RepairInv

\* A failure is never taken back.
LEMMA FailedGrows ==
  ASSUME [Next]_vars
  PROVE  failed \subseteq failed'
<1>1. UNCHANGED failed \/ \E f \in Nodes : FailNode(f)
  BY Zenon DEF Next, Manager, Submit, ChainRequest, ExternalAck, ChainAck, Crash, SetupChain,
     FetchSeq, ResendPending, UpdateConnections, ManagerAborts, vars, mgrVars
<1> QED BY <1>1, Zenon DEF FailNode

\* Every step keeps the invariant as long as there is one failure.
LEMMA RepairNext ==
  ASSUME TypeOK, ChainInv, OneFailure => RepairInv, [Next]_vars, OneFailure'
  PROVE  RepairInv'
<1>0. OneFailure /\ RepairInv
  BY FailedGrows, Zenon DEF OneFailure
<1>1. ASSUME NEW op \in Ops, Submit(op) PROVE RepairInv'
  BY <1>0, <1>1, SubmitRepair
<1>2. ASSUME NEW c \in Conns, ChainRequest(c) PROVE RepairInv'
  BY <1>0, <1>2, ChainRequestRepair
<1>3. ASSUME NEW m \in unacked, NEW again \in BOOLEAN, ExternalAck(m, again) PROVE RepairInv'
  <2>1. N \in Nodes
    BY ChainAssumption DEF Nodes
  <2>2. PICK threw \in BOOLEAN : Ack(N, m, acks, threw)
    BY <1>3, Zenon DEF ExternalAck
  <2>3. UNCHANGED <<failed, alive, mgr, next_, ends, open, role_, log, reqs, completed>>
    BY <1>3, Zenon DEF ExternalAck, mgrVars
  <2> QED BY <1>0, <2>1, <2>2, <2>3, AckRepair
<1>4. ASSUME NEW n \in Nodes, ChainAck(n) PROVE RepairInv'
  <2>1. \E threw, ch : Ack(n, Head(acks[next_[n]]), ch, threw)
    BY <1>4, Zenon DEF ChainAck
  <2>2. UNCHANGED <<failed, alive, mgr, next_, ends, open, role_, log, reqs, completed>>
    BY <1>4, Zenon DEF ChainAck, mgrVars
  <2> QED BY <1>0, <2>1, <2>2, AckRepair, Zenon
<1>5. ASSUME NEW f \in Nodes, FailNode(f) PROVE RepairInv'
  BY <1>0, <1>5, FailNodeRepair
<1>6. ASSUME NEW f \in Nodes, Crash(f) PROVE RepairInv'
  BY <1>0, <1>6, CrashRepair
<1>7. CASE SetupChain
  BY <1>0, <1>7, SetupChainRepair
<1>8. CASE ResendPending
  BY <1>0, <1>8, ResendPendingRepair
<1>9. CASE FetchSeq
  BY <1>0, <1>9, FetchSeqRepair
<1>10. CASE UpdateConnections
  BY <1>0, <1>10 DEF UpdateConnections, RepairInv, RepairGoesOn, RepairsLast, RepairsLink
<1>11. CASE ManagerAborts
  BY <1>0, <1>11, ManagerAbortsRepair
<1>12. CASE UNCHANGED vars
  <2>1. UNCHANGED <<failed, alive, mgr, next_, ends, open, role_, log, reqs, completed, pending_>>
    BY <1>12, Zenon DEF vars, nodeVars, netVars, envVars, mgrVars
  <2>2. \A n \in Nodes : pending_'[n] \subseteq pending_[n]
    BY <2>1
  <2> QED BY <1>0, <2>1, <2>2, QuietRepair
<1> QED
  BY <1>1, <1>2, <1>3, <1>4, <1>5, <1>6, <1>7, <1>8, <1>9, <1>10, <1>11, <1>12
  DEF Next, Manager

-----------------------------------------------------------------------------
(***************************************************************************)
(* What the invariant says of a repaired chain                             *)
(***************************************************************************)

\* A non-empty set of replicas has a first one.
LEMMA FirstOf ==
  ASSUME NEW S \in SUBSET Nodes, S # {}
  PROVE  \E x \in S : \A y \in S : x <= y
<1> DEFINE R == OpToRel(<, Nat)
<1>1. IsWellFoundedOn(R, Nat)
  BY NatLessThanWellFounded
<1>2. S \subseteq Nat
  BY ChainAssumption DEF Nodes
<1>3. PICK x \in S : \A y \in S : ~(<<y, x>> \in R)
  <2> HIDE DEF R
  <2> QED BY <1>1, <1>2, WFMin, Zenon
<1>4. \A y \in S : ~(y < x)
  BY <1>2, <1>3 DEF OpToRel
<1>5. ASSUME NEW y \in S PROVE x <= y
  <2>1. x \in Nat /\ y \in Nat /\ ~(y < x)
    BY <1>2, <1>3, <1>4
  <2> QED BY <2>1
<1> QED BY <1>3, <1>5

\* A set of at most one element
LEMMA AtMostOne ==
  ASSUME NEW S, IsFiniteSet(S), Cardinality(S) <= 1, NEW a \in S, NEW b \in S
  PROVE  a = b
<1>1. Cardinality(S) \in Nat /\ Cardinality(S) # 0
  BY FS_CardinalityType, FS_EmptySet, Zenon
<1>2. Cardinality(S) = 1
  BY <1>1
<1>3. PICK x : S = {x}
  BY <1>2, FS_Singleton, Zenon
<1> QED BY <1>3

\* What SettledAgree assumes of the failures
LEMMA OneFailed ==
  ASSUME TypeOK, 1 \notin failed, Cardinality(failed) <= 1
  PROVE  OneFailure
<1>1. failed \subseteq Nodes
  BY Zenon DEF TypeOK
<1>2. IsFiniteSet(Nodes)
  BY ChainAssumption, FS_Interval DEF Nodes
<1>3. IsFiniteSet(failed)
  BY <1>1, <1>2, FS_Subset, Zenon
<1> QED BY <1>3, AtMostOne, Zenon DEF OneFailure

\* With nothing in flight and the manager done, nothing is missing anywhere.
LEMMA RepairAgrees ==
  ASSUME TypeOK, ChainInv, OneFailure, RepairInv, Settled
  PROVE  SurvivorsAgree
<1>1. mgr.step = "idle" /\ \A c \in Conns : ~InFlight(c)
  BY DEF Settled
<1>2. ASSUME NEW i \in Members, NEW k \in Members, Adjacent(i, k)
      PROVE  log[i] = log[k]
  <2>1. i \in Nodes /\ k \in Nodes /\ i < k /\ k \in alive
    BY <1>2, Zenon DEF Members, Adjacent, RepairInv
  <2>2. Connected(i, k) /\ Coming(reqs[next_[i]], Len(log[k]), Len(log[i]))
    BY <1>1, <1>2, Zenon DEF RepairInv, LinksCarry, Repairing
  <2>3. next_[i] \in Conns /\ ends[next_[i]].dst = k
    BY <2>1, <2>2, OwnLink, Zenon DEF Connected
  <2>4. reqs[next_[i]] = <<>>
    BY <1>1, <2>1, <2>3, Zenon DEF InFlight
  <2>5. /\ log[i] \in Seq(Ops) /\ log[k] \in Seq(Ops)
        /\ Len(log[i]) \in Nat /\ Len(log[k]) \in Nat
    BY <2>1, LogLength
  <2>6. Len(log[i]) <= Len(log[k])
    BY <2>2, <2>4, <2>5, ComingEmpty
  <2>7. Leads(log[i], log[k])
    BY <2>1, Zenon DEF ChainInv, LogOrder
  <2> QED BY <2>5, <2>6, <2>7 DEF Leads
<1>3. ASSUME NEW j \in Members PROVE log[j] = log[1]
  <2> DEFINE S == {x \in Members : log[x] # log[1]}
  <2> SUFFICES ASSUME S # {} PROVE FALSE
    OBVIOUS
  <2>1. S \in SUBSET Nodes
    BY DEF Members
  <2>2. PICK x \in S : \A y \in S : x <= y
    <3> HIDE DEF S
    <3> QED BY <2>1, FirstOf
  <2>3. x \in Members /\ x \in Nodes /\ x # 1 /\ log[x] # log[1]
    BY DEF Members
  <2>4. ASSUME NEW p \in Nodes, p \notin failed, p < x, Adjacent(p, x) PROVE FALSE
    <3>1. p \in Members /\ log[p] = log[x]
      BY <1>2, <2>3, <2>4 DEF Members
    <3>2. p \in S
      BY <2>3, <3>1
    <3>3. x <= p
      BY <2>2, <3>2
    <3> HIDE DEF S
    <3> QED BY <2>3, <2>4, <3>3 DEF Nodes
  <2> HIDE DEF S
  <2>5. x - 1 \in Nodes /\ x - 1 < x
    BY <2>3, ChainAssumption DEF Nodes
  <2>6. CASE x - 1 \notin failed
    <3>1. Adjacent(x - 1, x)
      BY <2>3 DEF Adjacent, Nodes
    <3> QED BY <2>4, <2>5, <2>6, <3>1
  <2>7. CASE x - 1 \in failed
    <3>1. x - 1 # 1
      BY <2>7 DEF OneFailure
    <3>2. x - 2 \in Nodes /\ x - 2 < x /\ x - 2 # x - 1
      BY <2>3, <2>5, <3>1, ChainAssumption DEF Nodes
    <3>3. x - 2 \notin failed
      BY <2>7, <3>2 DEF OneFailure
    <3>4. \A i \in Nodes : x - 2 < i /\ i < x => i = x - 1
      BY <2>3 DEF Nodes
    <3>5. Adjacent(x - 2, x)
      BY <2>7, <3>2, <3>4 DEF Adjacent
    <3> QED BY <2>4, <3>2, <3>3, <3>5
  <2> QED BY <2>6, <2>7
<1>4. \A t \in Members : IsLast(t) => pending_[t] \subseteq completed[t]
  BY <1>1, Zenon DEF RepairInv, LastCompletes, Repairing
<1>5. \A i, j \in Members : log[i] = log[j]
  BY <1>3, Zenon
<1> QED BY <1>4, <1>5, Zenon DEF SurvivorsAgree, IsLast

\* chain_module::setup, resend_pending and fail_node: when one replica other than
\* the head has failed, the repair is done and no request is in flight, the
\* survivors have run the same commands, and the last one has passed on all it has
\* pending.
THEOREM ChainSettledAgree == Spec => []SettledAgree
<1> DEFINE Inv == TypeOK /\ ChainInv /\ (OneFailure => RepairInv)
<1>1. Init => Inv
  BY TypeInit, ChainInvInit, RepairInit
<1>2. Inv /\ [Next]_vars => Inv'
  <2> SUFFICES ASSUME Inv, [Next]_vars PROVE Inv'
    OBVIOUS
  <2>1. TypeOK' /\ ChainInv'
    BY TypeNext, ChainInvNext
  <2>2. OneFailure' => RepairInv'
    BY RepairNext
  <2> QED BY <2>1, <2>2
<1>3. Inv => SettledAgree
  <2> SUFFICES ASSUME Inv, 1 \notin failed, Cardinality(failed) <= 1
               PROVE  SurvivorsAgree
    BY Zenon DEF SettledAgree
  <2>1. OneFailure
    BY OneFailed, Zenon
  <2>2. Settled => SurvivorsAgree
    BY <2>1, RepairAgrees, Zenon
  <2>3. ~Settled => SurvivorsAgree
    BY Zenon DEF SurvivorsAgree
  <2> QED BY <2>2, <2>3, Zenon
<1> QED BY <1>1, <1>2, <1>3, PTL DEF Spec
=============================================================================
