--------------------------- MODULE StorageStepProofs ---------------------------
(***************************************************************************)
(* The inductive invariant of StoragePath with the update cache, and the   *)
(* steps of the L2 workers and of the pipeline of an L3 server up to the   *)
(* MSET that preserve it, and that are steps of Register or leave it as it *)
(* is; for any keys, replicas, workers, servers, requests, hash functions  *)
(* and batch sizes.                                                        *)
(*                                                                         *)
(* The operations on a label travel in line, and each carries the newest   *)
(* value its key had when it was forwarded, so along the line from the     *)
(* store back to the L2 tail the values get newer.                         *)
(***************************************************************************)
EXTENDS StoragePath, TLAPS

-----------------------------------------------------------------------------
(***************************************************************************)
(* The inductive invariant                                                 *)
(***************************************************************************)
L2Op == [req : Requests, label : Labels, seq : Nat]
L3Op == [req : Requests, label : Labels, seq : Nat,
         value : Puts \cup {NoVal}, plaintext : Values \cup {NoVal}]
Cell == [op : L3Op, kv_response : [cipher : Values]]

\* What the variables hold.
L2Type ==
    /\ config \in Configs
    /\ chain_seq_no_ \in [Workers -> Nat]
    /\ chain \in [Workers -> Seq(L2Op)]
    /\ running \in [Workers -> Seq(L2Op)] /\ \A w \in Workers : Len(running[w]) <= 1
    /\ cache \in [Keys -> Puts \cup {NoVal}]
L3Type ==
    /\ l3request \in [Workers -> [Servers -> Seq(L3Op)]]
    /\ get_queue \in [Servers -> Seq(L3Op)]
    /\ mgets \in [Servers -> Seq(Seq(L3Op))]
    /\ crypto_queue_ \in [Servers -> Seq(Seq(Cell))]
    /\ msets \in [Servers -> Seq(Seq(L3Op))]
DoneType ==
    /\ msetReplies \in [Servers -> Seq(Seq(L3Op))]
    /\ respond_queue_ \in [Servers -> Seq(L3Op)]
    /\ ack_queues_ \in [Servers -> [Workers -> Seq(L3Op)]]
    /\ acked \in [Workers -> SUBSET Requests]
    /\ kv \in [Labels -> [cipher : Values]]
HistType ==
    /\ label \in [Requests -> Labels]
    /\ progress \in [Requests -> {"idle", "submitted", "run", "forwarded", "answered"}]
    /\ seen \in [Requests -> Values \cup {NoVal}]
    /\ result \in [Requests -> Values \cup {NoVal}]
    /\ order \in [Keys -> Seq(Puts)]
TypeInv == L2Type /\ L3Type /\ DoneType /\ HistType

\* The age of value v of a key whose puts were o, the value that operation op
\* will write, and its age (ord: the puts of every key).
AgeIn(o, v)    == IF v = InitVal THEN 0 ELSE CHOOSE i \in DOMAIN o : o[i] = v
Writes(op)     == IF op.value = NoVal THEN InitVal ELSE op.value
AgeOf(ord, op) == AgeIn(ord[op.label[1]], Writes(op))
Known(o)       == {InitVal} \cup Range(o)

\* Operations in line: of two on one label the one ahead has no newer value.
NoNewer(ord, y, x) == y.label = x.label => AgeOf(ord, y) <= AgeOf(ord, x)
Before(ord, S, T)  == \A y \in S, x \in T : NoNewer(ord, y, x)
InLine(ord, q)     == \A i, j \in DOMAIN q : i < j => NoNewer(ord, q[i], q[j])
BatchesInLine(ord, q) ==
    /\ \A i \in DOMAIN q : InLine(ord, q[i])
    /\ \A i, j \in DOMAIN q : i < j => Before(ord, Range(q[i]), Range(q[j]))
All(q) == UNION {Range(q[i]) : i \in DOMAIN q}

\* The line to a server: its connections c, the queue g of async_get, the
\* MGETs m, the operations k in crypto_queue_ and the MSETs p.
Conn(c) == UNION {Range(c[w]) : w \in Workers}
Line(ord, c, g, m, k, p) ==
    /\ \A w \in Workers : InLine(ord, c[w])
    /\ InLine(ord, g)
    /\ BatchesInLine(ord, m) /\ BatchesInLine(ord, k) /\ BatchesInLine(ord, p)
    /\ Before(ord, Range(g) \cup All(m) \cup All(k) \cup All(p), Conn(c))
    /\ Before(ord, All(m) \cup All(k) \cup All(p), Range(g))
    /\ Before(ord, All(k) \cup All(p), All(m))
    /\ Before(ord, All(p), All(k))

OpsOf(batch)   == [j \in DOMAIN batch |-> batch[j].op]
CryptoOps(q)   == [i \in DOMAIN q |-> OpsOf(q[i])]
Connections(s) == [w \in Workers |-> l3request[w][s]]
LineInv ==
    \A s \in Servers :
        Line(order, Connections(s), get_queue[s], mgets[s], CryptoOps(crypto_queue_[s]), msets[s])

\* The operations that server s has read but not executed, and those executed.
Taken(s)    == Range(get_queue[s]) \cup All(mgets[s]) \cup All(CryptoOps(crypto_queue_[s]))
                 \cup All(msets[s])
Executed(s) == All(msetReplies[s]) \cup Range(respond_queue_[s]) \cup Conn(ack_queues_[s])

\* What forward_request gave an operation: the newest value of its key, which
\* is no older than the put it stands for.
StoreAge(l) == AgeIn(order[l[1]], decrypt(kv[l]))
Forwarded(op) ==
    /\ op.req \in Requests /\ op.label = label[op.req]
    /\ Writes(op) \in Known(order[op.label[1]])
    /\ op.req \in Puts => /\ op.req \in Range(order[op.label[1]])
                          /\ AgeIn(order[op.label[1]], op.req) <= AgeOf(order, op)
    /\ op.req \in Gets => seen[op.req] = Writes(op)
    /\ progress[op.req] \in {"forwarded", "answered"}

\* Before it is executed it is at the server of its label and no older than the
\* store ...
Ahead(s, op) ==
    Forwarded(op) /\ ServerOf[op.label] = s /\ StoreAge(op.label) <= AgeOf(order, op)
PipeInv ==
    \A s \in Servers :
        /\ \A w \in Workers : \A op \in Range(l3request[w][s]) :
              Ahead(s, op) /\ WorkerOf[op.label] = w
        /\ \A op \in Taken(s) : Ahead(s, op)

\* ... and afterwards no newer.
Behind(op) ==
    Forwarded(op) /\ op.plaintext = Writes(op) /\ AgeOf(order, op) <= StoreAge(op.label)
ExecutedInv == \A s \in Servers : \A op \in Executed(s) : Behind(op)

\* crypto_thread computes the value an operation writes: if none came with
\* the operation, it has read the first one.
ReadInv ==
    \A s \in Servers :
        /\ \A c \in All(crypto_queue_[s]) :
              c.op.value = NoVal => c.kv_response = encrypt(InitVal)
        /\ \A op \in All(msets[s]) : op.plaintext = Writes(op)

\* The cache holds the last put of a key; the store holds values of the key.
CacheInv ==
    /\ \A k \in Keys :
          /\ \A i, j \in DOMAIN order[k] : order[k][i] = order[k][j] => i = j
          /\ cache[k] = IF order[k] = <<>> THEN NoVal ELSE order[k][Len(order[k])]
          /\ \A p \in Range(order[k]) : progress[p] \notin {"idle", "submitted"}
    /\ \A l \in Labels : decrypt(kv[l]) \in Known(order[l[1]])

\* Every request is at most once on its way to forward_request.  (q: a chain or
\* the operation a worker runs; lab, prog, ord: label, progress and order.)
OnChain(q, lab, prog, w) ==
    \A i \in DOMAIN q :
        /\ q[i].label = lab[q[i].req] /\ WorkerOf[q[i].label] = w /\ prog[q[i].req] = "submitted"
        /\ \A j \in DOMAIN q : q[i].req = q[j].req => i = j
IsRunning(q, lab, prog, ord, w) ==
    \A i \in DOMAIN q :
        /\ q[i].label = lab[q[i].req] /\ WorkerOf[q[i].label] = w /\ prog[q[i].req] = "run"
        /\ q[i].req \in Puts => q[i].req \in Range(ord[q[i].label[1]])
ChainInv ==
    \A w \in Workers : /\ OnChain(chain[w], label, progress, w)
                       /\ IsRunning(running[w], label, progress, order, w)

\* What the clients and L2 were told.
AnswerInv ==
    /\ \A p \in Puts :
          progress[p] = "answered" \/ (\E w \in Workers : p \in acked[w])
              => /\ p \in Range(order[label[p][1]])
                 /\ AgeIn(order[label[p][1]], p) <= StoreAge(label[p])
    /\ \A g \in Gets : progress[g] = "answered" => result[g] = seen[g]

IInv == /\ TypeInv /\ LineInv /\ PipeInv /\ ExecutedInv /\ ReadInv
        /\ CacheInv /\ ChainInv /\ AnswerInv

-----------------------------------------------------------------------------
(***************************************************************************)
(* Sequences, and sequences of batches                                     *)
(***************************************************************************)

LEMMA InConn ==
    \A c, x : x \in Conn(c) <=> \E v \in Workers : x \in Range(c[v])
  BY Zenon DEF Conn

\* The first element of a queue and the others.
LEMMA RangeTail ==
    ASSUME NEW S, NEW q \in Seq(S), q # <<>>
    PROVE  /\ Head(q) \in S /\ Tail(q) \in Seq(S)
           /\ 1 \in DOMAIN q /\ Head(q) = q[1] /\ Head(q) \in Range(q)
           /\ \A i \in DOMAIN Tail(q) : /\ i + 1 \in DOMAIN q /\ Tail(q)[i] = q[i + 1]
                                        /\ i \in Nat /\ 1 < i + 1
           /\ Range(Tail(q)) \subseteq Range(q)
<1>1. /\ Head(q) \in S /\ Tail(q) \in Seq(S)
      /\ 1 \in DOMAIN q /\ Head(q) = q[1]
      /\ \A i \in DOMAIN Tail(q) : /\ i + 1 \in DOMAIN q /\ Tail(q)[i] = q[i + 1]
                                   /\ i \in Nat /\ 1 < i + 1
  OBVIOUS
<1> QED  BY <1>1 DEF Range

\* Appending to a queue.
LEMMA RangeAppend ==
    ASSUME NEW S, NEW q \in Seq(S), NEW x \in S
    PROVE  /\ Append(q, x) \in Seq(S)
           /\ \A i \in DOMAIN Append(q, x) :
                 \/ i \in DOMAIN q /\ Append(q, x)[i] = q[i]
                 \/ i = Len(q) + 1 /\ Append(q, x)[i] = x
           /\ \A i \in DOMAIN q : i \in DOMAIN Append(q, x) /\ Append(q, x)[i] = q[i]
           /\ Len(q) + 1 \in DOMAIN Append(q, x) /\ Append(q, x)[Len(q) + 1] = x
           /\ Range(Append(q, x)) = Range(q) \cup {x}
<1>1. /\ Append(q, x) \in Seq(S)
      /\ \A i \in DOMAIN Append(q, x) :
            \/ i \in DOMAIN q /\ Append(q, x)[i] = q[i]
            \/ i = Len(q) + 1 /\ Append(q, x)[i] = x
      /\ \A i \in DOMAIN q : i \in DOMAIN Append(q, x) /\ Append(q, x)[i] = q[i]
      /\ Len(q) + 1 \in DOMAIN Append(q, x) /\ Append(q, x)[Len(q) + 1] = x
  OBVIOUS
<1>2. Range(Append(q, x)) \subseteq Range(q) \cup {x}
  BY <1>1, Zenon DEF Range
<1>3. Range(q) \cup {x} \subseteq Range(Append(q, x))
  BY <1>1, Zenon DEF Range
<1> QED  BY <1>1, <1>2, <1>3, Zenon

\* A sequence is given by its length and its elements.
LEMMA LenIs ==
    ASSUME NEW S, NEW q \in Seq(S), NEW n \in Nat, DOMAIN q = 1..n
    PROVE  Len(q) = n
<1>1. Len(q) \in Nat /\ DOMAIN q = 1..Len(q)
  OBVIOUS
<1>2. \A i : i \in 1..Len(q) <=> i \in 1..n
  BY <1>1, Zenon
<1>3. CASE Len(q) < n
  <2>1. n \in 1..n /\ n \notin 1..Len(q)
    BY <1>1, <1>3
  <2> QED  BY <1>2, <2>1, Zenon
<1>4. CASE n < Len(q)
  <2>1. Len(q) \notin 1..n /\ Len(q) \in 1..Len(q)
    BY <1>1, <1>4
  <2> QED  BY <1>2, <2>1, Zenon
<1> QED  BY <1>1, <1>3, <1>4

LEMMA IsSeq ==
    ASSUME NEW S, NEW n \in Nat, NEW f, f = [i \in 1..n |-> f[i]], \A i \in 1..n : f[i] \in S
    PROVE  f \in Seq(S) /\ Len(f) = n
<1>1. [i \in 1..n |-> f[i]] \in Seq(S)
  OBVIOUS
<1>2. DOMAIN f = 1..n
  BY Zenon
<1> QED  BY <1>1, <1>2, LenIs, Zenon

LEMMA SameSeq ==
    ASSUME NEW S, NEW q \in Seq(S), NEW r \in Seq(S), Len(q) = Len(r),
           \A i \in 1..Len(q) : q[i] = r[i]
    PROVE  q = r
<1>1. q = [i \in 1..Len(q) |-> q[i]] /\ r = [i \in 1..Len(r) |-> r[i]]
  OBVIOUS
<1> QED  BY <1>1, Zenon

\* The elements of a sequence, and of a sequence of batches.
LEMMA RangeType ==
    ASSUME NEW S
    PROVE  /\ \A q \in Seq(S) : Range(q) \subseteq S
           /\ \A q \in Seq(Seq(S)) : All(q) \subseteq S
           /\ Range(<<>>) = {} /\ All(<<>>) = {}
<1>1. \A q \in Seq(S) : \A i \in DOMAIN q : q[i] \in S
  OBVIOUS
<1>2. \A q \in Seq(Seq(S)) : \A i \in DOMAIN q : q[i] \in Seq(S)
  OBVIOUS
<1>3. \A q \in Seq(S) : Range(q) \subseteq S
  BY <1>1, Zenon DEF Range
<1>4. \A q \in Seq(Seq(S)) : All(q) \subseteq S
  BY <1>2, <1>3, Zenon DEF All
<1>5. Range(<<>>) = {} /\ All(<<>>) = {}
  BY DEF Range, All
<1> QED  BY <1>3, <1>4, <1>5, Zenon

LEMMA AllTail ==
    ASSUME NEW S, NEW q \in Seq(Seq(S)), q # <<>>
    PROVE  /\ Head(q) \in Seq(S) /\ Tail(q) \in Seq(Seq(S))
           /\ Range(Head(q)) \subseteq All(q) /\ All(Tail(q)) \subseteq All(q)
<1>1. Range(Head(q)) \subseteq All(q)
  BY RangeTail DEF All
<1>2. All(Tail(q)) \subseteq All(q)
  BY RangeTail DEF All
<1> QED  BY <1>1, <1>2, RangeTail, Zenon

LEMMA AllAppend ==
    ASSUME NEW S, NEW q \in Seq(Seq(S)), NEW b \in Seq(S)
    PROVE  Append(q, b) \in Seq(Seq(S)) /\ All(Append(q, b)) = All(q) \cup Range(b)
<1>1. All(Append(q, b)) \subseteq All(q) \cup Range(b)
  BY RangeAppend DEF All
<1>2. All(q) \subseteq All(Append(q, b))
  BY RangeAppend DEF All
<1>3. Range(b) \subseteq All(Append(q, b))
  <2>1. Len(q) + 1 \in DOMAIN Append(q, b) /\ Append(q, b)[Len(q) + 1] = b
    BY RangeAppend
  <2> QED  BY <2>1, Zenon DEF All
<1> QED  BY <1>1, <1>2, <1>3, RangeAppend, Zenon

-----------------------------------------------------------------------------
(***************************************************************************)
(* Operations that stay in line                                            *)
(***************************************************************************)

LEMMA InLineTail ==
    ASSUME NEW ord, NEW S, NEW q \in Seq(S), q # <<>>, InLine(ord, q)
    PROVE  InLine(ord, Tail(q)) /\ Before(ord, {Head(q)}, Range(Tail(q)))
<1>1. ASSUME NEW i \in DOMAIN Tail(q), NEW j \in DOMAIN Tail(q), i < j
      PROVE  NoNewer(ord, Tail(q)[i], Tail(q)[j])
  <2>1. i + 1 < j + 1
    BY <1>1, RangeTail
  <2> QED  BY <2>1, RangeTail, Zenon DEF InLine
<1>2. \A j \in DOMAIN Tail(q) : NoNewer(ord, Head(q), Tail(q)[j])
  BY RangeTail, Zenon DEF InLine
<1> QED  BY <1>1, <1>2, Zenon DEF InLine, Before, Range

LEMMA InLineAppend ==
    ASSUME NEW ord, NEW S, NEW q \in Seq(S), NEW x \in S, InLine(ord, q),
           Before(ord, Range(q), {x})
    PROVE  InLine(ord, Append(q, x))
<1> SUFFICES ASSUME NEW i \in DOMAIN Append(q, x), NEW j \in DOMAIN Append(q, x), i < j
             PROVE  NoNewer(ord, Append(q, x)[i], Append(q, x)[j])
  BY Zenon DEF InLine
<1>1. i \in DOMAIN q /\ (j \in DOMAIN q \/ j = Len(q) + 1)
  OBVIOUS
<1>2. CASE j \in DOMAIN q
  BY <1>1, <1>2, RangeAppend, Zenon DEF InLine
<1>3. CASE j = Len(q) + 1
  <2>1. q[i] \in Range(q)
    BY <1>1, Zenon DEF Range
  <2> QED  BY <1>1, <1>3, <2>1, RangeAppend DEF Before
<1> QED  BY <1>1, <1>2, <1>3, Zenon

LEMMA BatchesTail ==
    ASSUME NEW ord, NEW S, NEW q \in Seq(Seq(S)), q # <<>>, BatchesInLine(ord, q)
    PROVE  /\ BatchesInLine(ord, Tail(q)) /\ InLine(ord, Head(q))
           /\ Before(ord, Range(Head(q)), All(Tail(q)))
<1>1. \A i \in DOMAIN Tail(q) : InLine(ord, Tail(q)[i])
  BY RangeTail, Zenon DEF BatchesInLine
<1>2. ASSUME NEW i \in DOMAIN Tail(q), NEW j \in DOMAIN Tail(q), i < j
      PROVE  Before(ord, Range(Tail(q)[i]), Range(Tail(q)[j]))
  <2>1. i + 1 < j + 1
    BY <1>2, RangeTail
  <2> QED  BY <2>1, RangeTail, Zenon DEF BatchesInLine
<1>3. InLine(ord, Head(q))
  BY RangeTail, Zenon DEF BatchesInLine
<1>4. \A j \in DOMAIN Tail(q) : Before(ord, Range(Head(q)), Range(Tail(q)[j]))
  BY RangeTail, Zenon DEF BatchesInLine
<1>5. Before(ord, Range(Head(q)), All(Tail(q)))
  BY <1>4, Zenon DEF Before, All
<1>6. BatchesInLine(ord, Tail(q))
  BY <1>1, <1>2, Zenon DEF BatchesInLine
<1> QED  BY <1>3, <1>5, <1>6, Zenon

LEMMA BatchesAppend ==
    ASSUME NEW ord, NEW S, NEW q \in Seq(Seq(S)), NEW b \in Seq(S),
           BatchesInLine(ord, q), InLine(ord, b), Before(ord, All(q), Range(b))
    PROVE  BatchesInLine(ord, Append(q, b))
<1>1. \A i \in DOMAIN Append(q, b) : InLine(ord, Append(q, b)[i])
  BY RangeAppend DEF BatchesInLine
<1>2. ASSUME NEW i \in DOMAIN Append(q, b), NEW j \in DOMAIN Append(q, b), i < j
      PROVE  Before(ord, Range(Append(q, b)[i]), Range(Append(q, b)[j]))
  <2>1. i \in DOMAIN q /\ (j \in DOMAIN q \/ j = Len(q) + 1)
    BY <1>2
  <2>2. CASE j \in DOMAIN q
    BY <1>2, <2>1, <2>2, RangeAppend DEF BatchesInLine
  <2>3. CASE j = Len(q) + 1
    <3>1. Range(q[i]) \subseteq All(q)
      BY <2>1, Zenon DEF All
    <3> QED  BY <2>1, <2>3, <3>1, RangeAppend, Zenon DEF Before
  <2> QED  BY <2>1, <2>2, <2>3, Zenon
<1> QED  BY <1>1, <1>2, Zenon DEF BatchesInLine

\* AsyncOperation reads the first operation of a connection.  Those behind it
\* on other connections have other labels.
LEMMA LineRead ==
    ASSUME NEW ord, NEW S, NEW c \in [Workers -> Seq(S)], NEW w \in Workers, c[w] # <<>>,
           NEW g, NEW m, NEW k, NEW p, Line(ord, c, g, m, k, p),
           \A v \in Workers : \A op \in Range(c[v]) : WorkerOf[op.label] = v
    PROVE  /\ Line(ord, [c EXCEPT ![w] = Tail(@)], g, m, k, p)
           /\ Head(c[w]) \in Conn(c)
           /\ Before(ord, {Head(c[w])}, Conn([c EXCEPT ![w] = Tail(@)]))
<1> DEFINE d == [c EXCEPT ![w] = Tail(@)]
<1>1. d[w] = Tail(c[w]) /\ \A v \in Workers \ {w} : d[v] = c[v]
  OBVIOUS
<1>2. \A v \in Workers : c[v] \in Seq(S)
  OBVIOUS
<1> HIDE DEF d
<1>3. /\ InLine(ord, d[w]) /\ Before(ord, {Head(c[w])}, Range(d[w]))
      /\ Range(d[w]) \subseteq Range(c[w]) /\ Head(c[w]) \in Range(c[w])
  <2>1. InLine(ord, c[w])
    BY Zenon DEF Line
  <2>2. InLine(ord, Tail(c[w])) /\ Before(ord, {Head(c[w])}, Range(Tail(c[w])))
    BY <1>2, <2>1, InLineTail, Zenon
  <2>3. Range(Tail(c[w])) \subseteq Range(c[w]) /\ Head(c[w]) \in Range(c[w])
    BY <1>2, RangeTail, Zenon
  <2> QED  BY <1>1, <2>2, <2>3, Zenon
<1>4. \A v \in Workers : InLine(ord, d[v]) /\ Range(d[v]) \subseteq Range(c[v])
  <2>1. \A v \in Workers \ {w} : InLine(ord, c[v])
    BY Zenon DEF Line
  <2> QED  BY <1>1, <1>3, <2>1, Zenon
<1>5. Conn(d) \subseteq Conn(c) /\ Head(c[w]) \in Conn(c)
  <2>1. Conn(d) \subseteq Conn(c)
    <3> SUFFICES ASSUME NEW v \in Workers, NEW x \in Range(d[v])
                 PROVE  x \in Conn(c)
      BY Zenon DEF Conn
    <3>1. x \in Range(c[v])
      BY <1>4, Zenon
    <3> QED  BY <3>1, Zenon DEF Conn
  <2>2. Head(c[w]) \in Conn(c)
    BY <1>3, Zenon DEF Conn
  <2> QED  BY <2>1, <2>2, Zenon
<1>6. Before(ord, {Head(c[w])}, Conn(d))
  <2> SUFFICES ASSUME NEW x \in Conn(d)
               PROVE  NoNewer(ord, Head(c[w]), x)
    BY Zenon DEF Before
  <2>0. PICK v \in Workers : x \in Range(d[v])
    BY InConn, Zenon
  <2>1. CASE v = w
    BY <1>3, <2>0, <2>1, Zenon DEF Before
  <2>2. CASE v # w
    <3>1. WorkerOf[x.label] = v /\ WorkerOf[Head(c[w]).label] = w
      BY <1>3, <1>4, <2>0, Zenon
    <3> QED  BY <2>2, <3>1, Zenon DEF NoNewer
  <2> QED  BY <2>1, <2>2, Zenon
<1>7. Before(ord, Range(g) \cup All(m) \cup All(k) \cup All(p), Conn(d))
  BY <1>5, Zenon DEF Line, Before
<1>8. Line(ord, d, g, m, k, p)
  BY <1>4, <1>7, Zenon DEF Line
<1> QED  BY <1>5, <1>6, <1>8, Zenon DEF d

\* async_get queues an operation that was read.
LEMMA LineQueue ==
    ASSUME NEW ord, NEW S, NEW c, NEW g \in Seq(S), NEW m, NEW k, NEW p, NEW x \in S,
           Line(ord, c, g, m, k, p), Before(ord, {x}, Conn(c)),
           Before(ord, Range(g) \cup All(m) \cup All(k) \cup All(p), {x})
    PROVE  Line(ord, c, Append(g, x), m, k, p)
<1>1. Range(Append(g, x)) = Range(g) \cup {x}
  BY RangeAppend, Zenon
<1>2. Before(ord, Range(g), {x})
  BY Zenon DEF Before
<1>3. InLine(ord, Append(g, x))
  BY <1>2, InLineAppend, Zenon DEF Line
<1>4. Before(ord, Range(Append(g, x)) \cup All(m) \cup All(k) \cup All(p), Conn(c))
  BY <1>1, Zenon DEF Line, Before
<1>5. Before(ord, All(m) \cup All(k) \cup All(p), Range(Append(g, x)))
  BY <1>1, Zenon DEF Line, Before
<1> QED  BY <1>3, <1>4, <1>5, Zenon DEF Line

\* It flushes the queue as one MGET.
LEMMA LineFlush ==
    ASSUME NEW ord, NEW S, NEW c, NEW g \in Seq(S), NEW m \in Seq(Seq(S)), NEW k, NEW p,
           Line(ord, c, g, m, k, p)
    PROVE  Line(ord, c, <<>>, Append(m, g), k, p)
<1>1. All(Append(m, g)) = All(m) \cup Range(g) /\ Range(<<>>) = {}
  BY AllAppend, RangeType
<1>2. Before(ord, All(m), Range(g))
  BY Zenon DEF Line, Before
<1>3. BatchesInLine(ord, Append(m, g))
  BY <1>2, BatchesAppend, Zenon DEF Line
<1>4. InLine(ord, <<>>)
  BY DEF InLine
<1>5. Before(ord, Range(<<>>) \cup All(Append(m, g)) \cup All(k) \cup All(p), Conn(c))
  BY <1>1, Zenon DEF Line, Before
<1>6. Before(ord, All(Append(m, g)) \cup All(k) \cup All(p), Range(<<>>))
  BY <1>1, Zenon DEF Before
<1>7. Before(ord, All(k) \cup All(p), All(Append(m, g)))
  BY <1>1, Zenon DEF Line, Before
<1> QED  BY <1>3, <1>4, <1>5, <1>6, <1>7, Zenon DEF Line

\* The first MGET is answered.
LEMMA LineGet ==
    ASSUME NEW ord, NEW S, NEW c, NEW g, NEW m \in Seq(Seq(S)), NEW k \in Seq(Seq(S)), NEW p,
           m # <<>>, Line(ord, c, g, m, k, p)
    PROVE  Line(ord, c, g, Tail(m), Append(k, Head(m)), p)
<1>1. /\ Head(m) \in Seq(S) /\ Range(Head(m)) \subseteq All(m) /\ All(Tail(m)) \subseteq All(m)
      /\ BatchesInLine(ord, Tail(m)) /\ InLine(ord, Head(m))
      /\ Before(ord, Range(Head(m)), All(Tail(m)))
  <2>1. BatchesInLine(ord, m)
    BY Zenon DEF Line
  <2> QED  BY <2>1, AllTail, BatchesTail, Zenon
<1>2. All(Append(k, Head(m))) = All(k) \cup Range(Head(m))
  BY <1>1, AllAppend, Zenon
<1>3. Before(ord, All(k), Range(Head(m)))
  BY <1>1, Zenon DEF Line, Before
<1>4. BatchesInLine(ord, Append(k, Head(m)))
  BY <1>1, <1>3, BatchesAppend, Zenon DEF Line
<1>5. Before(ord, Range(g) \cup All(Tail(m)) \cup All(Append(k, Head(m))) \cup All(p), Conn(c))
  BY <1>1, <1>2, Zenon DEF Line, Before
<1>6. Before(ord, All(Tail(m)) \cup All(Append(k, Head(m))) \cup All(p), Range(g))
  BY <1>1, <1>2, Zenon DEF Line, Before
<1>7. Before(ord, All(Append(k, Head(m))) \cup All(p), All(Tail(m)))
  BY <1>1, <1>2, Zenon DEF Line, Before
<1>8. Before(ord, All(p), All(Append(k, Head(m))))
  BY <1>1, <1>2, Zenon DEF Line, Before
<1> QED  BY <1>1, <1>4, <1>5, <1>6, <1>7, <1>8, Zenon DEF Line

\* crypto_thread takes the first batch and sets plaintexts only (b).
LEMMA LineCrypt ==
    ASSUME NEW ord, NEW S, NEW c, NEW g, NEW m, NEW k \in Seq(Seq(S)), NEW p \in Seq(Seq(S)),
           k # <<>>, Line(ord, c, g, m, k, p), NEW b \in Seq(S), DOMAIN b = DOMAIN Head(k),
           \A i \in DOMAIN b : b[i].label = Head(k)[i].label /\ b[i].value = Head(k)[i].value
    PROVE  Line(ord, c, g, m, Tail(k), Append(p, b))
<1> DEFINE h == Head(k)
<1>1. /\ Range(h) \subseteq All(k) /\ All(Tail(k)) \subseteq All(k)
      /\ BatchesInLine(ord, Tail(k)) /\ InLine(ord, h)
      /\ Before(ord, Range(h), All(Tail(k)))
  <2>1. BatchesInLine(ord, k)
    BY Zenon DEF Line
  <2> QED  BY <2>1, AllTail, BatchesTail, Zenon
<1> HIDE DEF h
<1>2. All(Append(p, b)) = All(p) \cup Range(b)
  BY AllAppend, Zenon
<1>3. \A i \in DOMAIN b : i \in DOMAIN h /\ b[i].label = h[i].label /\ b[i].value = h[i].value
  BY Zenon DEF h
<1>4. \A i, j \in DOMAIN b : NoNewer(ord, h[i], h[j]) => NoNewer(ord, b[i], b[j])
  BY <1>3, Zenon DEF NoNewer, AgeOf, Writes
<1>5. \A i \in DOMAIN b : \A x :
          /\ NoNewer(ord, h[i], x) => NoNewer(ord, b[i], x)
          /\ NoNewer(ord, x, h[i]) => NoNewer(ord, x, b[i])
  BY <1>3, Zenon DEF NoNewer, AgeOf, Writes
<1>6. InLine(ord, b)
  BY <1>1, <1>3, <1>4, Zenon DEF InLine
<1>7. \A i \in DOMAIN b : h[i] \in Range(h)
  BY <1>3, Zenon DEF Range
<1>8. /\ \A T : Before(ord, Range(h), T) => Before(ord, Range(b), T)
      /\ \A T : Before(ord, T, Range(h)) => Before(ord, T, Range(b))
  <2>1. \A y \in Range(b) : \E i \in DOMAIN b : y = b[i]
    BY Zenon DEF Range
  <2>2. \A T : Before(ord, Range(h), T) => Before(ord, Range(b), T)
    <3> SUFFICES ASSUME NEW T, Before(ord, Range(h), T), NEW y \in Range(b), NEW x \in T
                 PROVE  NoNewer(ord, y, x)
      BY Zenon DEF Before
    <3>1. PICK i \in DOMAIN b : y = b[i]
      BY <2>1, Zenon
    <3>2. NoNewer(ord, h[i], x)
      BY <1>7, Zenon DEF Before
    <3> QED  BY <1>5, <3>1, <3>2, Zenon
  <2>3. \A T : Before(ord, T, Range(h)) => Before(ord, T, Range(b))
    <3> SUFFICES ASSUME NEW T, Before(ord, T, Range(h)), NEW y \in Range(b), NEW x \in T
                 PROVE  NoNewer(ord, x, y)
      BY Zenon DEF Before
    <3>1. PICK i \in DOMAIN b : y = b[i]
      BY <2>1, Zenon
    <3>2. NoNewer(ord, x, h[i])
      BY <1>7, Zenon DEF Before
    <3> QED  BY <1>5, <3>1, <3>2, Zenon
  <2> QED  BY <2>2, <2>3, Zenon
<1>9. /\ Before(ord, Range(b), Conn(c)) /\ Before(ord, Range(b), Range(g))
      /\ Before(ord, Range(b), All(m)) /\ Before(ord, Range(b), All(Tail(k)))
      /\ Before(ord, All(p), Range(b))
  <2>1. /\ Before(ord, Range(h), Conn(c)) /\ Before(ord, Range(h), Range(g))
        /\ Before(ord, Range(h), All(m)) /\ Before(ord, All(p), Range(h))
    <3>1. Before(ord, Range(h), Conn(c)) /\ Before(ord, Range(h), Range(g))
      BY <1>1, Zenon DEF Line, Before
    <3>2. Before(ord, Range(h), All(m)) /\ Before(ord, All(p), Range(h))
      BY <1>1, Zenon DEF Line, Before
    <3> QED  BY <3>1, <3>2, Zenon
  <2> QED  BY <1>1, <1>8, <2>1, Zenon
<1>10. BatchesInLine(ord, Append(p, b))
  BY <1>6, <1>9, BatchesAppend, Zenon DEF Line
<1>11. Before(ord, Range(g) \cup All(m) \cup All(Tail(k)) \cup All(Append(p, b)), Conn(c))
  BY <1>1, <1>2, <1>9, Zenon DEF Line, Before
<1>12. Before(ord, All(m) \cup All(Tail(k)) \cup All(Append(p, b)), Range(g))
  BY <1>1, <1>2, <1>9, Zenon DEF Line, Before
<1>13. Before(ord, All(Tail(k)) \cup All(Append(p, b)), All(m))
  BY <1>1, <1>2, <1>9, Zenon DEF Line, Before
<1>14. Before(ord, All(Append(p, b)), All(Tail(k)))
  BY <1>1, <1>2, <1>9, Zenon DEF Line, Before
<1> QED  BY <1>1, <1>10, <1>11, <1>12, <1>13, <1>14, Zenon DEF Line

\* The store executes the first MSET: it is ahead of all others.
LEMMA LineSet ==
    ASSUME NEW ord, NEW S, NEW c, NEW g, NEW m, NEW k, NEW p \in Seq(Seq(S)),
           p # <<>>, Line(ord, c, g, m, k, p)
    PROVE  /\ Line(ord, c, g, m, k, Tail(p))
           /\ InLine(ord, Head(p))
           /\ Before(ord, Range(Head(p)),
                     Conn(c) \cup Range(g) \cup All(m) \cup All(k) \cup All(Tail(p)))
<1>1. /\ Range(Head(p)) \subseteq All(p) /\ All(Tail(p)) \subseteq All(p)
      /\ BatchesInLine(ord, Tail(p)) /\ InLine(ord, Head(p))
      /\ Before(ord, Range(Head(p)), All(Tail(p)))
  <2>1. BatchesInLine(ord, p)
    BY Zenon DEF Line
  <2> QED  BY <2>1, AllTail, BatchesTail, Zenon
<1>2. /\ Before(ord, Range(g) \cup All(m) \cup All(k) \cup All(Tail(p)), Conn(c))
      /\ Before(ord, All(m) \cup All(k) \cup All(Tail(p)), Range(g))
  BY <1>1, Zenon DEF Line, Before
<1>3. /\ Before(ord, All(k) \cup All(Tail(p)), All(m))
      /\ Before(ord, All(Tail(p)), All(k))
  BY <1>1, Zenon DEF Line, Before
<1>4. Line(ord, c, g, m, k, Tail(p))
  BY <1>1, <1>2, <1>3, Zenon DEF Line
<1>5. Before(ord, Range(Head(p)), Conn(c) \cup Range(g))
  BY <1>1, Zenon DEF Line, Before
<1>6. Before(ord, Range(Head(p)), All(m) \cup All(k))
  BY <1>1, Zenon DEF Line, Before
<1>7. Before(ord, Range(Head(p)),
             Conn(c) \cup Range(g) \cup All(m) \cup All(k) \cup All(Tail(p)))
  BY <1>1, <1>5, <1>6, Zenon DEF Before
<1> QED  BY <1>1, <1>4, <1>7, Zenon

\* forward_request sends an operation no older than all that are on their way.
LEMMA LineForward ==
    ASSUME NEW ord, NEW S, NEW c \in [Workers -> Seq(S)], NEW w \in Workers, NEW x \in S,
           NEW g, NEW m, NEW k, NEW p, Line(ord, c, g, m, k, p),
           Before(ord, Conn(c), {x}),
           Before(ord, Range(g) \cup All(m) \cup All(k) \cup All(p), {x})
    PROVE  Line(ord, [c EXCEPT ![w] = Append(@, x)], g, m, k, p)
<1> DEFINE d == [c EXCEPT ![w] = Append(@, x)]
<1>1. d[w] = Append(c[w], x) /\ \A v \in Workers \ {w} : d[v] = c[v]
  OBVIOUS
<1>2. c[w] \in Seq(S)
  OBVIOUS
<1> HIDE DEF d
<1>3. Range(d[w]) = Range(c[w]) \cup {x} /\ InLine(ord, d[w])
  <2>1. Before(ord, Range(c[w]), {x})
    BY Zenon DEF Before, Conn
  <2>2. InLine(ord, Append(c[w], x))
    BY <1>2, <2>1, InLineAppend, Zenon DEF Line
  <2>3. Range(Append(c[w], x)) = Range(c[w]) \cup {x}
    BY <1>2, RangeAppend, Zenon
  <2> QED  BY <1>1, <2>2, <2>3, Zenon
<1>4. \A v \in Workers : InLine(ord, d[v]) /\ Range(d[v]) \subseteq Range(c[v]) \cup {x}
  <2>1. \A v \in Workers \ {w} : InLine(ord, c[v])
    BY Zenon DEF Line
  <2> QED  BY <1>1, <1>3, <2>1, Zenon
<1>5. Conn(d) \subseteq Conn(c) \cup {x}
  BY <1>4, Zenon DEF Conn
<1>6. Before(ord, Range(g) \cup All(m) \cup All(k) \cup All(p), Conn(d))
  BY <1>5, Zenon DEF Line, Before
<1> QED  BY <1>4, <1>6, Zenon DEF Line, d

-----------------------------------------------------------------------------
(***************************************************************************)
(* Ages                                                                    *)
(***************************************************************************)

\* The age of a value is its position among the puts of its key.
LEMMA AgeIs ==
    ASSUME NEW o \in Seq(Puts),
           \A i, j \in DOMAIN o : o[i] = o[j] => i = j
    PROVE  /\ AgeIn(o, InitVal) = 0
           /\ \A i \in DOMAIN o : AgeIn(o, o[i]) = i
           /\ \A v \in Known(o) : AgeIn(o, v) \in 0..Len(o)
           /\ \A v \in Known(o) : AgeIn(o, v) = 0 => v = InitVal
<1>1. AgeIn(o, InitVal) = 0
  BY DEF AgeIn
<1>2. ASSUME NEW i \in DOMAIN o
      PROVE  AgeIn(o, o[i]) = i /\ i \in 1..Len(o)
  <2>1. o[i] \in Puts /\ o[i] # InitVal /\ i \in 1..Len(o)
    BY StorageAssumption
  <2>2. \A j \in DOMAIN o : o[j] = o[i] <=> j = i
    BY Zenon
  <2>3. (CHOOSE j \in DOMAIN o : o[j] = o[i]) = i
    BY <2>2
  <2> QED  BY <2>1, <2>3 DEF AgeIn
<1>3. ASSUME NEW v \in Known(o)
      PROVE  AgeIn(o, v) \in 0..Len(o) /\ (AgeIn(o, v) = 0 => v = InitVal)
  <2>1. CASE v = InitVal
    BY <1>1, <2>1
  <2>2. CASE v # InitVal
    <3>1. PICK i \in DOMAIN o : v = o[i]
      BY <2>2, Zenon DEF Known, Range
    <3> QED  BY <1>2, <3>1
  <2> QED  BY <2>1, <2>2, Zenon
<1> QED  BY <1>1, <1>2, <1>3, Zenon

\* The last put of a key is its newest value.
LEMMA AgeLast ==
    ASSUME NEW o \in Seq(Puts), o # <<>>,
           \A i, j \in DOMAIN o : o[i] = o[j] => i = j
    PROVE  \A v \in Known(o) : AgeIn(o, v) <= AgeIn(o, o[Len(o)])
<1>1. Len(o) \in DOMAIN o
  OBVIOUS
<1>2. AgeIn(o, o[Len(o)]) = Len(o)
  BY <1>1, AgeIs, Zenon
<1>3. \A v \in Known(o) : AgeIn(o, v) \in 0..Len(o)
  BY AgeIs, Zenon
<1> QED  BY <1>2, <1>3

\* A put that is entered in the cache leaves the other ages as they were.
LEMMA AgeAppend ==
    ASSUME NEW o \in Seq(Puts), NEW x \in Puts, x \notin Range(o),
           \A i, j \in DOMAIN o : o[i] = o[j] => i = j
    PROVE  /\ \A i, j \in DOMAIN Append(o, x) : Append(o, x)[i] = Append(o, x)[j] => i = j
           /\ \A v \in Known(o) : AgeIn(Append(o, x), v) = AgeIn(o, v)
           /\ Known(o) \subseteq Known(Append(o, x))
           /\ Append(o, x)[Len(Append(o, x))] = x /\ Append(o, x) # <<>>
<1> DEFINE p == Append(o, x)
<1>1. /\ p \in Seq(Puts) /\ Len(p) = Len(o) + 1 /\ p[Len(p)] = x /\ p # <<>>
      /\ \A i \in DOMAIN p : (i \in DOMAIN o /\ p[i] = o[i]) \/ (i = Len(p) /\ p[i] = x)
      /\ \A i \in DOMAIN o : i \in DOMAIN p /\ p[i] = o[i]
  OBVIOUS
<1> HIDE DEF p
<1>2. \A i \in DOMAIN o : o[i] # x
  BY Zenon DEF Range
<1>3. \A i, j \in DOMAIN p : p[i] = p[j] => i = j
  BY <1>1, <1>2, Zenon
<1>4. ASSUME NEW v \in Known(o)
      PROVE  AgeIn(p, v) = AgeIn(o, v) /\ v \in Known(p)
  <2>1. CASE v = InitVal
    BY <2>1, Zenon DEF AgeIn, Known
  <2>2. CASE v # InitVal
    <3>1. PICK i \in DOMAIN o : v = o[i]
      BY <2>2, Zenon DEF Known, Range
    <3>2. i \in DOMAIN p /\ v = p[i]
      BY <1>1, <3>1, Zenon
    <3>3. AgeIn(o, v) = i
      BY <3>1, AgeIs, Zenon
    <3>4. AgeIn(p, v) = i
      BY <1>1, <1>3, <3>2, AgeIs, Zenon
    <3>5. v \in Known(p)
      BY <3>2, Zenon DEF Known, Range
    <3> QED  BY <3>3, <3>4, <3>5, Zenon
  <2> QED  BY <2>1, <2>2, Zenon
<1> QED  BY <1>1, <1>3, <1>4, Zenon DEF p

-----------------------------------------------------------------------------
(***************************************************************************)
(* The steps of L2                                                         *)
(***************************************************************************)

\* What is forwarded stays so while the orders and the store are left alone.
LEMMA ForwardedStays ==
    ASSUME UNCHANGED <<config, kv, label, order>>,
           \A r \in Requests : progress[r] \in {"forwarded", "answered"}
               => progress'[r] \in {"forwarded", "answered"} /\ seen'[r] = seen[r]
    PROVE  /\ \A op : Forwarded(op) => Forwarded(op)'
           /\ \A s, op : Ahead(s, op) => Ahead(s, op)'
           /\ \A op : Behind(op) => Behind(op)'
<1>1. \A op : Forwarded(op) => Forwarded(op)'
  BY Zenon DEF Forwarded
<1>2. \A l : StoreAge(l)' = StoreAge(l)
  BY Zenon DEF StoreAge
<1>3. \A op : AgeOf(order, op)' = AgeOf(order, op)
  BY Zenon
<1>4. \A s, op : Ahead(s, op) => Ahead(s, op)'
  BY <1>1, <1>2, <1>3, Zenon DEF Ahead, ServerOf
<1>5. \A op : Behind(op) => Behind(op)'
  BY <1>1, <1>2, <1>3, Zenon DEF Behind
<1> QED  BY <1>1, <1>4, <1>5, Zenon

\* The operations of L2 stand for requests.
LEMMA L2OpReq ==
    ASSUME NEW q \in Seq(L2Op), NEW i \in DOMAIN q
    PROVE  q[i] \in L2Op /\ q[i].req \in Requests /\ q[i].label \in Labels
<1>1. q[i] \in L2Op
  OBVIOUS
<1> QED  BY <1>1 DEF L2Op

\* Progress elsewhere does not matter to a chain.
LEMMA OnChainStays ==
    ASSUME NEW q, NEW lab, NEW prog, NEW prog2, NEW w, OnChain(q, lab, prog, w),
           \A i \in DOMAIN q : prog2[q[i].req] = prog[q[i].req]
    PROVE  OnChain(q, lab, prog2, w)
  BY Zenon DEF OnChain

\* A request that is not yet on a chain joins it.
LEMMA OnChainAppend ==
    ASSUME NEW q \in Seq(L2Op), NEW x \in L2Op, NEW lab, NEW prog, NEW w,
           OnChain(q, lab, prog, w), \A i \in DOMAIN q : q[i].req # x.req,
           x.label = lab[x.req], WorkerOf[x.label] = w, prog[x.req] = "submitted"
    PROVE  OnChain(Append(q, x), lab, prog, w)
<1> DEFINE r == Append(q, x)
           ok(y) == y.label = lab[y.req] /\ WorkerOf[y.label] = w /\ prog[y.req] = "submitted"
<1>1. \A i \in DOMAIN r : (i \in DOMAIN q /\ r[i] = q[i]) \/ (i = Len(q) + 1 /\ r[i] = x)
  BY RangeAppend, Zenon
<1> HIDE DEF r
<1>2. (\A i \in DOMAIN q : ok(q[i])) /\ ok(x)
  BY Zenon DEF OnChain
<1> HIDE DEF ok
<1>3. \A i \in DOMAIN r : ok(r[i])
  BY <1>1, <1>2
<1>4. ASSUME NEW i \in DOMAIN r, NEW j \in DOMAIN r, r[i].req = r[j].req
      PROVE  i = j
  <2>1. \A m, n \in DOMAIN q : q[m].req = q[n].req => m = n
    BY Zenon DEF OnChain
  <2>2. CASE i \in DOMAIN q /\ r[i] = q[i]
    BY <1>1, <1>4, <2>1, <2>2
  <2>3. CASE i = Len(q) + 1 /\ r[i] = x
    BY <1>1, <1>4, <2>3
  <2> QED  BY <1>1, <2>2, <2>3, Zenon
<1> QED  BY <1>3, <1>4, Zenon DEF OnChain, ok, r

\* Submit: the request is new on its chain.
LEMMA SubmitStep ==
    ASSUME IInv, NEW o \in Requests, Submit(o), UNCHANGED config
    PROVE  IInv'
<1> DEFINE w == WorkerOf[label[o]]
           n == chain_seq_no_[w] + 1
           x == [req |-> o, label |-> label[o], seq |-> n]
<1>1. /\ progress[o] = "idle" /\ progress' = [progress EXCEPT ![o] = "submitted"]
      /\ chain_seq_no_' = [chain_seq_no_ EXCEPT ![w] = n]
      /\ chain' = [chain EXCEPT ![w] = Append(@, x)]
  BY Zenon DEF Submit
<1>2. /\ UNCHANGED <<running, cache, l3request, get_queue, mgets, crypto_queue_, msets>>
      /\ UNCHANGED <<msetReplies, respond_queue_, ack_queues_, acked, kv, label, seen, result, order>>
  BY Zenon DEF Submit, l3Vars
<1>3. L2Type /\ L3Type /\ DoneType /\ HistType
  BY Zenon DEF IInv, TypeInv
<1>4. w \in Workers /\ n \in Nat /\ x \in L2Op /\ label[o] \in Labels
  BY <1>3, StorageAssumption DEF L2Type, HistType, L2Op
<1>5. \A r \in Requests : progress'[r] = IF r = o THEN "submitted" ELSE progress[r]
  BY <1>1, <1>3, Zenon DEF HistType
<1> HIDE DEF w, n
<1>6. TypeInv'
  <2>1. L2Type'
    BY <1>1, <1>2, <1>3, <1>4 DEF L2Type
  <2>2. L3Type' /\ DoneType'
    BY <1>2, <1>3, Zenon DEF L3Type, DoneType
  <2>3. HistType'
    BY <1>1, <1>2, <1>3, Zenon DEF HistType
  <2> QED  BY <2>1, <2>2, <2>3, Zenon DEF TypeInv
<1>7. LineInv' /\ ReadInv'
  <2>1. LineInv'
    BY <1>2, Zenon DEF IInv, LineInv, Connections
  <2>2. ReadInv'
    BY <1>2, Zenon DEF IInv, ReadInv
  <2> QED  BY <2>1, <2>2, Zenon
<1>8. PipeInv' /\ ExecutedInv'
  <2>1. \A r \in Requests : progress[r] \in {"forwarded", "answered"}
            => progress'[r] \in {"forwarded", "answered"} /\ seen'[r] = seen[r]
    BY <1>1, <1>2, <1>5
  <2>2. /\ \A s, op : Ahead(s, op) => Ahead(s, op)'
        /\ \A op : Behind(op) => Behind(op)'
    BY <1>2, <2>1, ForwardedStays, Zenon
  <2>3. PipeInv'
    BY <1>2, <2>2, Zenon DEF IInv, PipeInv, Taken
  <2>4. ExecutedInv'
    BY <1>2, <2>2, Zenon DEF IInv, ExecutedInv, Executed
  <2> QED  BY <2>3, <2>4, Zenon
<1>9. CacheInv'
  <2>1. \A k \in Keys : \A p \in Range(order[k]) : p \in Requests
    <3>1. \A k \in Keys : order[k] \in Seq(Puts)
      BY <1>3, Zenon DEF HistType
    <3>2. \A k \in Keys : Range(order[k]) \subseteq Puts
      BY <3>1, RangeType, Zenon
    <3> QED  BY <3>2, Zenon DEF Requests
  <2>2. \A k \in Keys : \A p \in Range(order[k]) : progress'[p] \notin {"idle", "submitted"}
    BY <1>1, <1>5, <2>1, Zenon DEF IInv, CacheInv
  <2> QED  BY <1>2, <2>2, Zenon DEF IInv, CacheInv
<1>10. ChainInv'
  <2> SUFFICES ASSUME NEW v \in Workers
               PROVE  /\ OnChain(chain'[v], label, progress', v)
                      /\ IsRunning(running[v], label, progress', order, v)
    BY <1>2, Zenon DEF ChainInv
  <2>1. /\ OnChain(chain[v], label, progress, v)
        /\ IsRunning(running[v], label, progress, order, v)
    BY Zenon DEF IInv, ChainInv
  <2>2. chain[v] \in Seq(L2Op) /\ running[v] \in Seq(L2Op)
    BY <1>3, Zenon DEF L2Type
  <2>3. /\ \A i \in DOMAIN chain[v] : chain[v][i].req \in Requests
        /\ \A i \in DOMAIN running[v] : running[v][i].req \in Requests
    BY <2>2, L2OpReq, Zenon
  <2>4. /\ \A i \in DOMAIN chain[v] : progress[chain[v][i].req] = "submitted"
        /\ \A i \in DOMAIN running[v] : progress[running[v][i].req] = "run"
    BY <2>1, Zenon DEF OnChain, IsRunning
  <2>5. /\ \A i \in DOMAIN chain[v] :
              chain[v][i].req # o /\ progress'[chain[v][i].req] = progress[chain[v][i].req]
        /\ \A i \in DOMAIN running[v] :
              progress'[running[v][i].req] = progress[running[v][i].req]
    BY <1>1, <1>5, <2>3, <2>4
  <2>6. IsRunning(running[v], label, progress', order, v)
    BY <2>1, <2>5, Zenon DEF IsRunning
  <2>7. OnChain(chain[v], label, progress', v)
    BY <2>1, <2>5, OnChainStays, Zenon
  <2>8. CASE v # w
    <3>1. chain'[v] = chain[v]
      BY <1>1, <1>3, <2>8, Zenon DEF L2Type
    <3> QED  BY <2>6, <2>7, <3>1, Zenon
  <2>9. CASE v = w
    <3>1. chain'[v] = Append(chain[v], x)
      BY <1>1, <1>3, <2>9, Zenon DEF L2Type
    <3>2. x.req = o /\ x.label = label[o] /\ WorkerOf[x.label] = v /\ progress'[o] = "submitted"
      BY <1>5, <2>9 DEF w
    <3> HIDE DEF x
    <3>3. OnChain(Append(chain[v], x), label, progress', v)
      BY <1>4, <2>2, <2>5, <2>7, <3>2, OnChainAppend, Zenon
    <3> QED  BY <2>6, <3>1, <3>3, Zenon
  <2> QED  BY <2>8, <2>9, Zenon
<1>11. AnswerInv'
  <2>1. \A r \in Puts \cup Gets : progress'[r] = "answered" => progress[r] = "answered"
    BY <1>5 DEF Requests
  <2> QED  BY <1>2, <2>1, Zenon DEF IInv, AnswerInv, StoreAge
<1> QED  BY <1>6, <1>7, <1>8, <1>9, <1>10, <1>11, Zenon DEF IInv

\* The first request leaves the chain.
LEMMA OnChainTail ==
    ASSUME NEW q \in Seq(L2Op), q # <<>>, NEW lab, NEW prog, NEW w, OnChain(q, lab, prog, w)
    PROVE  /\ OnChain(Tail(q), lab, prog, w)
           /\ \A i \in DOMAIN Tail(q) : Tail(q)[i].req # Head(q).req
           /\ Head(q).label = lab[Head(q).req] /\ WorkerOf[Head(q).label] = w
           /\ prog[Head(q).req] = "submitted"
<1> DEFINE t == Tail(q)
           ok(y) == y.label = lab[y.req] /\ WorkerOf[y.label] = w /\ prog[y.req] = "submitted"
<1>1. /\ 1 \in DOMAIN q /\ Head(q) = q[1]
      /\ \A i \in DOMAIN t : /\ i + 1 \in DOMAIN q /\ t[i] = q[i + 1]
                             /\ i \in Nat /\ 1 < i + 1
  BY RangeTail, Zenon
<1> HIDE DEF t
<1>2. \A i \in DOMAIN q : ok(q[i])
  BY Zenon DEF OnChain
<1>3. \A m, n \in DOMAIN q : q[m].req = q[n].req => m = n
  BY Zenon DEF OnChain
<1> HIDE DEF ok
<1>4. ok(Head(q)) /\ \A i \in DOMAIN t : ok(t[i])
  BY <1>1, <1>2
<1>5. \A i \in DOMAIN t : t[i].req # Head(q).req
  <2>1. \A i \in DOMAIN t : i + 1 # 1
    BY <1>1
  <2> QED  BY <1>1, <1>3, <2>1, Zenon
<1>6. \A i, j \in DOMAIN t : t[i].req = t[j].req => i = j
  BY <1>1, <1>3
<1>7. OnChain(t, lab, prog, w)
  BY <1>4, <1>6, Zenon DEF OnChain, ok
<1> QED  BY <1>4, <1>5, <1>7, Zenon DEF ok, t

\* Operations whose age does not change stay in line.
LEMMA LineGrows ==
    ASSUME NEW ord, NEW ord2, NEW c, NEW g, NEW m, NEW k, NEW p, Line(ord, c, g, m, k, p),
           \A op \in Conn(c) \cup Range(g) \cup All(m) \cup All(k) \cup All(p) :
               AgeOf(ord2, op) = AgeOf(ord, op)
    PROVE  Line(ord2, c, g, m, k, p)
<1> DEFINE U == Conn(c) \cup Range(g) \cup All(m) \cup All(k) \cup All(p)
<1>1. \A x, y \in U : NoNewer(ord, x, y) => NoNewer(ord2, x, y)
  BY Zenon DEF NoNewer
<1>2. \A S, T \in SUBSET U : Before(ord, S, T) => Before(ord2, S, T)
  BY <1>1, Zenon DEF Before
<1>3. \A q : Range(q) \subseteq U /\ InLine(ord, q) => InLine(ord2, q)
  BY <1>1, Zenon DEF InLine, Range
<1>4. \A q : All(q) \subseteq U => \A i \in DOMAIN q : Range(q[i]) \subseteq U
  BY Zenon DEF All
<1>5. \A q : All(q) \subseteq U /\ BatchesInLine(ord, q) => BatchesInLine(ord2, q)
  BY <1>2, <1>3, <1>4, Zenon DEF BatchesInLine
<1>6. /\ Conn(c) \subseteq U /\ Range(g) \subseteq U /\ All(m) \subseteq U
      /\ All(k) \subseteq U /\ All(p) \subseteq U
  BY Zenon
<1>7. \A w \in Workers : Range(c[w]) \subseteq U
  BY <1>6, Zenon DEF Conn
<1> HIDE DEF U
<1>8. /\ \A w \in Workers : InLine(ord2, c[w])
      /\ InLine(ord2, g)
  BY <1>3, <1>6, <1>7, Zenon DEF Line
<1>9. BatchesInLine(ord2, m) /\ BatchesInLine(ord2, k) /\ BatchesInLine(ord2, p)
  BY <1>5, <1>6, Zenon DEF Line
<1>10. /\ Before(ord2, Range(g) \cup All(m) \cup All(k) \cup All(p), Conn(c))
       /\ Before(ord2, All(m) \cup All(k) \cup All(p), Range(g))
  <2>1. /\ Range(g) \cup All(m) \cup All(k) \cup All(p) \subseteq U
        /\ All(m) \cup All(k) \cup All(p) \subseteq U
    BY <1>6, Zenon
  <2> QED  BY <1>2, <1>6, <2>1, Zenon DEF Line
<1>11. /\ Before(ord2, All(k) \cup All(p), All(m))
       /\ Before(ord2, All(p), All(k))
  <2>1. All(k) \cup All(p) \subseteq U
    BY <1>6, Zenon
  <2> QED  BY <1>2, <1>6, <2>1, Zenon DEF Line
<1> QED  BY <1>8, <1>9, <1>10, <1>11, Zenon DEF Line

\* What was forwarded stays so when a key gets a new value.
LEMMA OrderGrows ==
    ASSUME UNCHANGED <<config, kv, label, seen>>, label \in [Requests -> Labels],
           \A r \in Requests : progress[r] \in {"forwarded", "answered"}
               => progress'[r] \in {"forwarded", "answered"},
           \A k \in Keys : /\ Range(order[k]) \subseteq Range(order'[k])
                           /\ \A v \in Known(order[k]) : AgeIn(order'[k], v) = AgeIn(order[k], v),
           \A l \in Labels : decrypt(kv[l]) \in Known(order[l[1]])
    PROVE  /\ \A l \in Labels : StoreAge(l)' = StoreAge(l)
           /\ \A op : Forwarded(op) => Forwarded(op)' /\ AgeOf(order', op) = AgeOf(order, op)
           /\ \A s, op : Ahead(s, op) => Ahead(s, op)'
           /\ \A op : Behind(op) => Behind(op)'
<1>1. \A l \in Labels : l[1] \in Keys
  BY DEF Labels
<1>2. \A l \in Labels : StoreAge(l)' = StoreAge(l)
  BY <1>1, Zenon DEF StoreAge
<1>3. \A k \in Keys : \A v \in Range(order[k]) : v \in Known(order[k])
  BY Zenon DEF Known
<1>4. \A k \in Keys : \A v \in Known(order[k]) : v \in Known(order'[k])
  BY Zenon DEF Known
<1>5. ASSUME NEW op, Forwarded(op)
      PROVE  Forwarded(op)' /\ AgeOf(order', op) = AgeOf(order, op) /\ op.label \in Labels
  <2>1. op.label \in Labels /\ op.label[1] \in Keys /\ op.req \in Requests
    BY <1>1, <1>5, Zenon DEF Forwarded
  <2>2. Writes(op) \in Known(order[op.label[1]])
    BY <1>5, Zenon DEF Forwarded
  <2>3. AgeOf(order', op) = AgeOf(order, op) /\ Writes(op) \in Known(order'[op.label[1]])
    BY <1>4, <2>1, <2>2, Zenon DEF AgeOf
  <2>4. ASSUME op.req \in Puts
        PROVE  /\ op.req \in Range(order'[op.label[1]])
               /\ AgeIn(order'[op.label[1]], op.req) <= AgeOf(order', op)
    <3>1. /\ op.req \in Range(order[op.label[1]])
          /\ AgeIn(order[op.label[1]], op.req) <= AgeOf(order, op)
      BY <1>5, <2>4, Zenon DEF Forwarded
    <3>2. AgeIn(order'[op.label[1]], op.req) = AgeIn(order[op.label[1]], op.req)
      BY <1>3, <2>1, <3>1, Zenon
    <3> QED  BY <2>1, <2>3, <3>1, <3>2, Zenon
  <2>5. Forwarded(op)'
    BY <1>5, <2>1, <2>3, <2>4, Zenon DEF Forwarded
  <2> QED  BY <2>1, <2>3, <2>5, Zenon
<1>6. \A s, op : Ahead(s, op) => Ahead(s, op)'
  BY <1>2, <1>5, Zenon DEF Ahead, ServerOf
<1>7. \A op : Behind(op) => Behind(op)'
  BY <1>2, <1>5, Zenon DEF Behind
<1> QED  BY <1>2, <1>5, <1>6, <1>7, Zenon

\* What the tail runs next.
LEMMA ChainHead ==
    ASSUME IInv, NEW w \in Workers, chain[w] # <<>>
    PROVE  LET op == Head(chain[w])
           IN  /\ OnChain(Tail(chain[w]), label, progress, w) /\ Tail(chain[w]) \in Seq(L2Op)
               /\ \A i \in DOMAIN Tail(chain[w]) : Tail(chain[w])[i].req # op.req
               /\ op \in L2Op /\ op.label = label[op.req] /\ WorkerOf[op.label] = w
               /\ progress[op.req] = "submitted"
               /\ op.req \in Requests /\ op.label \in Labels /\ op.label[1] \in Keys
<1> DEFINE op == Head(chain[w])
<1>1. chain[w] \in Seq(L2Op) /\ OnChain(chain[w], label, progress, w)
  BY Zenon DEF IInv, TypeInv, L2Type, ChainInv
<1>2. Tail(chain[w]) \in Seq(L2Op) /\ op \in L2Op
  BY <1>1, RangeTail, Zenon
<1>3. op.req \in Requests /\ op.label \in Labels /\ op.label[1] \in Keys
  BY <1>2 DEF L2Op, Labels
<1>4. /\ OnChain(Tail(chain[w]), label, progress, w)
      /\ \A i \in DOMAIN Tail(chain[w]) : Tail(chain[w])[i].req # op.req
      /\ op.label = label[op.req] /\ WorkerOf[op.label] = w
      /\ progress[op.req] = "submitted"
  BY <1>1, OnChainTail, Zenon
<1> QED  BY <1>2, <1>3, <1>4, Zenon

\* RunCommand: a put becomes the newest value of its key; the store keeps its age.
LEMMA RunCommandStep ==
    ASSUME UpdateCacheEnabled, IInv, NEW w \in Workers, RunCommand(w), UNCHANGED config
    PROVE  IInv' /\ \A l \in Labels : StoreAge(l)' = StoreAge(l)
<1> DEFINE op == Head(chain[w])
           k == op.label[1]
<1>1. /\ running[w] = <<>> /\ chain[w] # <<>>
      /\ chain' = [chain EXCEPT ![w] = Tail(@)]
      /\ running' = [running EXCEPT ![w] = <<op>>]
      /\ progress' = [progress EXCEPT ![op.req] = "run"]
      /\ IF op.req \in Puts
         THEN /\ cache' = [cache EXCEPT ![k] = op.req]
              /\ order' = [order EXCEPT ![k] = Append(@, op.req)]
         ELSE UNCHANGED <<cache, order>>
  BY Zenon DEF RunCommand
<1>2. /\ UNCHANGED <<chain_seq_no_, l3request, get_queue, mgets, crypto_queue_, msets>>
      /\ UNCHANGED <<msetReplies, respond_queue_, ack_queues_, acked, kv, label, seen, result>>
  BY Zenon DEF RunCommand, l3Vars
<1>3. L2Type /\ L3Type /\ DoneType /\ HistType
  BY Zenon DEF IInv, TypeInv
<1>4. chain[w] # <<>>
  BY <1>1, Zenon
<1>5. /\ OnChain(Tail(chain[w]), label, progress, w) /\ Tail(chain[w]) \in Seq(L2Op)
      /\ \A i \in DOMAIN Tail(chain[w]) : Tail(chain[w])[i].req # op.req
      /\ op \in L2Op /\ op.label = label[op.req] /\ WorkerOf[op.label] = w
      /\ progress[op.req] = "submitted"
  BY <1>4, ChainHead, Zenon
<1>6. op.req \in Requests /\ op.label \in Labels /\ k \in Keys
  BY <1>4, ChainHead, Zenon
<1> HIDE DEF op
<1>7. \A r \in Requests : progress'[r] = IF r = op.req THEN "run" ELSE progress[r]
  BY <1>1, <1>3, Zenon DEF HistType
<1>8. /\ \A j \in Keys : order[j] \in Seq(Puts) /\ Range(order[j]) \subseteq Puts
      /\ \A j \in Keys : \A m, n \in DOMAIN order[j] : order[j][m] = order[j][n] => m = n
      /\ \A j \in Keys : \A p \in Range(order[j]) : progress[p] \notin {"idle", "submitted"}
  <2>1. \A j \in Keys : order[j] \in Seq(Puts)
    BY <1>3, Zenon DEF HistType
  <2>2. \A j \in Keys : Range(order[j]) \subseteq Puts
    BY <2>1, RangeType, Zenon
  <2> QED  BY <2>1, <2>2, Zenon DEF IInv, CacheInv
\* The other values keep their ages.
<1>9. ASSUME op.req \in Puts
      PROVE  LET o == Append(order[k], op.req)
             IN  /\ order'[k] = o /\ (\A j \in Keys \ {k} : order'[j] = order[j])
                 /\ cache'[k] = op.req /\ (\A j \in Keys \ {k} : cache'[j] = cache[j])
                 /\ (\A m, n \in DOMAIN o : o[m] = o[n] => m = n)
                 /\ (\A v \in Known(order[k]) : AgeIn(o, v) = AgeIn(order[k], v))
                 /\ Range(o) = Range(order[k]) \cup {op.req}
                 /\ o[Len(o)] = op.req /\ o # <<>>
  <2>1. /\ order'[k] = Append(order[k], op.req) /\ (\A j \in Keys \ {k} : order'[j] = order[j])
        /\ cache'[k] = op.req /\ (\A j \in Keys \ {k} : cache'[j] = cache[j])
    BY <1>1, <1>3, <1>6, <1>9, Zenon DEF HistType, L2Type
  <2>2. op.req \notin Range(order[k])
    BY <1>5, <1>6, <1>8
  <2> HIDE DEF k
  <2>3. order[k] \in Seq(Puts) /\ \A m, n \in DOMAIN order[k] : order[k][m] = order[k][n] => m = n
    BY <1>6, <1>8, Zenon
  <2> DEFINE h == order[k]
             r == op.req
             o == Append(h, r)
  <2>4. h \in Seq(Puts) /\ r \in Puts /\ r \notin Range(h)
    BY <1>9, <2>2, <2>3, Zenon
  <2>5. \A m, n \in DOMAIN h : h[m] = h[n] => m = n
    BY <2>3, Zenon
  <2> HIDE DEF h, r
  <2>6. Range(o) = Range(h) \cup {r}
    BY <2>4, RangeAppend, Zenon
  <2>7. /\ \A m, n \in DOMAIN o : o[m] = o[n] => m = n
        /\ \A v \in Known(h) : AgeIn(o, v) = AgeIn(h, v)
        /\ o[Len(o)] = r /\ o # <<>>
    BY <2>4, <2>5, AgeAppend, Zenon
  <2> QED  BY <2>1, <2>6, <2>7, Zenon DEF o, h, r
<1> HIDE DEF k
<1>10. \A j \in Keys :
          /\ Range(order[j]) \subseteq Range(order'[j])
          /\ \A v \in Known(order[j]) : AgeIn(order'[j], v) = AgeIn(order[j], v)
  <2>1. CASE op.req \in Puts
    BY <1>9, <2>1, Zenon
  <2>2. CASE op.req \notin Puts
    BY <1>1, <2>2, Zenon
  <2> QED  BY <2>1, <2>2, Zenon
<1>11. /\ \A l \in Labels : StoreAge(l)' = StoreAge(l)
       /\ \A x : Forwarded(x) => Forwarded(x)' /\ AgeOf(order', x) = AgeOf(order, x)
       /\ \A s, x : Ahead(s, x) => Ahead(s, x)'
       /\ \A x : Behind(x) => Behind(x)'
  <2>1. \A r \in Requests : progress[r] \in {"forwarded", "answered"}
            => progress'[r] \in {"forwarded", "answered"}
    BY <1>5, <1>7
  <2>2. label \in [Requests -> Labels] /\ \A l \in Labels : decrypt(kv[l]) \in Known(order[l[1]])
    BY <1>3, Zenon DEF HistType, IInv, CacheInv
  <2>3. UNCHANGED <<config, kv, label, seen>>
    BY <1>2, Zenon
  <2> QED  BY <1>10, <2>1, <2>2, <2>3, OrderGrows, Zenon
<1>12. TypeInv'
  <2>1. L2Type'
    <3>1. <<op>> \in Seq(L2Op) /\ Len(<<op>>) = 1
      BY <1>5
    <3>2. chain' \in [Workers -> Seq(L2Op)] /\ running' \in [Workers -> Seq(L2Op)]
      BY <1>1, <1>3, <1>5, <3>1, Zenon DEF L2Type
    <3>3. \A v \in Workers : Len(running'[v]) <= 1
      <4>1. \A v \in Workers : running'[v] = IF v = w THEN <<op>> ELSE running[v]
        BY <1>1, <1>3, Zenon DEF L2Type
      <4>2. \A v \in Workers : Len(running[v]) <= 1
        BY <1>3, Zenon DEF L2Type
      <4> SUFFICES ASSUME NEW v \in Workers PROVE Len(running'[v]) <= 1
        BY Zenon
      <4>3. CASE v = w
        <5>1. running'[v] = <<op>>
          BY <4>1, <4>3, Zenon
        <5>2. 1 <= 1
          OBVIOUS
        <5> QED  BY <3>1, <5>1, <5>2, Zenon
      <4>4. CASE v # w
        <5>1. running'[v] = running[v]
          BY <4>1, <4>4, Zenon
        <5> QED  BY <4>2, <5>1, Zenon
      <4> QED  BY <4>3, <4>4, Zenon
    <3>4. cache' \in [Keys -> Puts \cup {NoVal}]
      BY <1>1, <1>3, <1>6, Zenon DEF L2Type
    <3> QED  BY <1>2, <1>3, <3>2, <3>3, <3>4, Zenon DEF L2Type
  <2>2. L3Type' /\ DoneType'
    BY <1>2, <1>3, Zenon DEF L3Type, DoneType
  <2>3. HistType'
    <3>1. progress' \in [Requests -> {"idle", "submitted", "run", "forwarded", "answered"}]
      BY <1>1, <1>3, Zenon DEF HistType
    <3>2. order' \in [Keys -> Seq(Puts)]
      <4>1. CASE op.req \in Puts
        <5>1. Append(order[k], op.req) \in Seq(Puts)
          BY <1>6, <1>8, <4>1, RangeAppend, Zenon
        <5> QED  BY <1>1, <1>3, <1>6, <4>1, <5>1, Zenon DEF HistType, k
      <4>2. CASE op.req \notin Puts
        BY <1>1, <1>3, <4>2, Zenon DEF HistType
      <4> QED  BY <4>1, <4>2, Zenon
    <3> QED  BY <1>2, <1>3, <3>1, <3>2, Zenon DEF HistType
  <2> QED  BY <2>1, <2>2, <2>3, Zenon DEF TypeInv
<1>13. PipeInv' /\ ExecutedInv' /\ ReadInv'
  <2>1. PipeInv'
    BY <1>2, <1>11, Zenon DEF IInv, PipeInv, Taken
  <2>2. ExecutedInv'
    BY <1>2, <1>11, Zenon DEF IInv, ExecutedInv, Executed
  <2>3. ReadInv'
    BY <1>2, Zenon DEF IInv, ReadInv
  <2> QED  BY <2>1, <2>2, <2>3, Zenon
<1>14. LineInv'
  <2> SUFFICES ASSUME NEW s \in Servers
               PROVE  Line(order', Connections(s), get_queue[s], mgets[s],
                           CryptoOps(crypto_queue_[s]), msets[s])
    BY <1>2, Zenon DEF LineInv, Connections
  <2>1. \A x \in Conn(Connections(s)) : Ahead(s, x)
    <3> SUFFICES ASSUME NEW x \in Conn(Connections(s)) PROVE Ahead(s, x)
      BY Zenon
    <3>1. PICK v \in Workers : x \in Range(Connections(s)[v])
      BY InConn, Zenon
    <3>2. x \in Range(l3request[v][s])
      BY <3>1, Zenon DEF Connections
    <3> QED  BY <3>2, Zenon DEF IInv, PipeInv
  <2>2. \A x \in Taken(s) : Ahead(s, x)
    BY Zenon DEF IInv, PipeInv
  <2>3. \A x \in Conn(Connections(s)) \cup Range(get_queue[s]) \cup All(mgets[s])
                 \cup All(CryptoOps(crypto_queue_[s])) \cup All(msets[s]) :
            AgeOf(order', x) = AgeOf(order, x)
    BY <1>11, <2>1, <2>2, Zenon DEF Ahead, Taken
  <2>4. Line(order, Connections(s), get_queue[s], mgets[s], CryptoOps(crypto_queue_[s]), msets[s])
    BY Zenon DEF IInv, LineInv
  <2> QED  BY <2>3, <2>4, LineGrows, Zenon
<1>15. CacheInv'
  <2>1. \A j \in Keys : \A m, n \in DOMAIN order'[j] : order'[j][m] = order'[j][n] => m = n
    <3> SUFFICES ASSUME NEW j \in Keys, NEW m \in DOMAIN order'[j], NEW n \in DOMAIN order'[j],
                        order'[j][m] = order'[j][n]
                 PROVE  m = n
      BY Zenon
    <3>1. CASE op.req \in Puts /\ j = k
      BY <1>9, <3>1, Zenon
    <3>2. CASE op.req \in Puts /\ j # k
      BY <1>8, <1>9, <3>2, Zenon
    <3>3. CASE op.req \notin Puts
      BY <1>1, <1>8, <3>3, Zenon
    <3> QED  BY <3>1, <3>2, <3>3, Zenon
  <2>2. \A j \in Keys :
            cache'[j] = IF order'[j] = <<>> THEN NoVal ELSE order'[j][Len(order'[j])]
    <3>0. \A j \in Keys :
              cache[j] = IF order[j] = <<>> THEN NoVal ELSE order[j][Len(order[j])]
      BY Zenon DEF IInv, CacheInv
    <3>1. CASE op.req \in Puts
      BY <1>9, <3>0, <3>1
    <3>2. CASE op.req \notin Puts
      BY <1>1, <3>0, <3>2, Zenon
    <3> QED  BY <3>1, <3>2, Zenon
  <2>3. \A j \in Keys : \A p \in Range(order'[j]) : progress'[p] \notin {"idle", "submitted"}
    <3> SUFFICES ASSUME NEW j \in Keys, NEW p \in Range(order'[j])
                 PROVE  progress'[p] \notin {"idle", "submitted"}
      BY Zenon
    <3>1. p = op.req \/ p \in Range(order[j])
      <4>1. CASE op.req \in Puts /\ j = k
        BY <1>9, <4>1, Zenon
      <4>2. CASE op.req \in Puts /\ j # k
        BY <1>9, <4>2, Zenon
      <4>3. CASE op.req \notin Puts
        BY <1>1, <4>3, Zenon
      <4> QED  BY <4>1, <4>2, <4>3, Zenon
    <3>2. p \in Range(order[j]) => p \in Requests
      BY <1>8, Zenon DEF Requests
    <3> QED  BY <1>6, <1>7, <1>8, <3>1, <3>2
  <2>4. \A l \in Labels : decrypt(kv[l]) \in Known(order'[l[1]])
    <3>1. \A l \in Labels : l[1] \in Keys
      BY DEF Labels
    <3> QED  BY <1>10, <3>1, Zenon DEF IInv, CacheInv, Known
  <2> QED  BY <1>2, <2>1, <2>2, <2>3, <2>4, Zenon DEF CacheInv
<1>16. ChainInv'
  <2> SUFFICES ASSUME NEW v \in Workers
               PROVE  /\ OnChain(chain'[v], label, progress', v)
                      /\ IsRunning(running'[v], label, progress', order', v)
    BY <1>2, Zenon DEF ChainInv
  <2>1. CASE v = w
    <3>1. chain'[v] = Tail(chain[w]) /\ running'[v] = <<op>>
      BY <1>1, <1>3, <2>1, Zenon DEF L2Type
    <3>2. \A i \in DOMAIN Tail(chain[w]) :
              progress'[Tail(chain[w])[i].req] = progress[Tail(chain[w])[i].req]
      BY <1>5, <1>7, L2OpReq, Zenon
    <3>3. OnChain(Tail(chain[w]), label, progress', w)
      <4> DEFINE q == Tail(chain[w])
      <4>1. OnChain(q, label, progress, w)
        BY <1>5, Zenon
      <4>2. \A i \in DOMAIN q : progress'[q[i].req] = progress[q[i].req]
        BY <3>2, Zenon
      <4> HIDE DEF q
      <4>3. OnChain(q, label, progress', w)
        BY <4>1, <4>2, Zenon DEF OnChain
      <4> QED  BY <4>3, Zenon DEF q
    <3>4. \A i \in DOMAIN <<op>> : <<op>>[i] = op
      OBVIOUS
    <3>5. op.req \in Puts => op.req \in Range(order'[op.label[1]])
      BY <1>9, Zenon DEF k
    <3>6. progress'[op.req] = "run"
      BY <1>6, <1>7, Zenon
    <3>7. IsRunning(<<op>>, label, progress', order', w)
      BY <1>5, <3>4, <3>5, <3>6, Zenon DEF IsRunning
    <3> QED  BY <2>1, <3>1, <3>3, <3>7, Zenon
  <2>2. CASE v # w
    <3>1. chain'[v] = chain[v] /\ running'[v] = running[v]
      BY <1>1, <1>3, <2>2, Zenon DEF L2Type
    <3>2. /\ OnChain(chain[v], label, progress, v)
          /\ IsRunning(running[v], label, progress, order, v)
          /\ chain[v] \in Seq(L2Op) /\ running[v] \in Seq(L2Op)
      BY <1>3, Zenon DEF IInv, ChainInv, L2Type
    <3>3. \A i \in DOMAIN chain[v] :
              chain[v][i].req \in Requests /\ WorkerOf[label[chain[v][i].req]] = v
      BY <3>2, L2OpReq, Zenon DEF OnChain
    <3>4. \A i \in DOMAIN running[v] :
              /\ running[v][i].req \in Requests /\ WorkerOf[label[running[v][i].req]] = v
              /\ running[v][i].label[1] \in Keys
      <4>1. \A l \in Labels : l[1] \in Keys
        BY DEF Labels
      <4> QED  BY <3>2, <4>1, L2OpReq, Zenon DEF IsRunning
    <3>5. WorkerOf[label[op.req]] # v
      BY <1>5, <2>2, Zenon
    <3>6. /\ \A i \in DOMAIN chain[v] : progress'[chain[v][i].req] = progress[chain[v][i].req]
          /\ \A i \in DOMAIN running[v] :
                progress'[running[v][i].req] = progress[running[v][i].req]
      <4>1. \A r \in Requests : WorkerOf[label[r]] = v => progress'[r] = progress[r]
        BY <1>7, <3>5, Zenon
      <4>2. \A i \in DOMAIN chain[v] : progress'[chain[v][i].req] = progress[chain[v][i].req]
        BY <3>3, <4>1, Zenon
      <4>3. \A i \in DOMAIN running[v] :
               progress'[running[v][i].req] = progress[running[v][i].req]
        BY <3>4, <4>1, Zenon
      <4> QED  BY <4>2, <4>3, Zenon
    <3>7. OnChain(chain[v], label, progress', v)
      BY <3>2, <3>6, OnChainStays, Zenon
    <3>8. \A i \in DOMAIN running[v] : running[v][i].req \in Puts
              => running[v][i].req \in Range(order'[running[v][i].label[1]])
      BY <1>10, <3>2, <3>4, Zenon DEF IsRunning
    <3>9. IsRunning(running[v], label, progress', order', v)
      BY <3>2, <3>6, <3>8, Zenon DEF IsRunning
    <3> QED  BY <3>1, <3>7, <3>9, Zenon
  <2> QED  BY <2>1, <2>2, Zenon
<1>17. AnswerInv'
  <2>1. \A r \in Puts \cup Gets : progress'[r] = "answered" => progress[r] = "answered"
    BY <1>7 DEF Requests
  <2> SUFFICES ASSUME NEW p \in Puts,
                      progress[p] = "answered" \/ \E v \in Workers : p \in acked[v]
               PROVE  /\ p \in Range(order'[label[p][1]])
                      /\ AgeIn(order'[label[p][1]], p) <= StoreAge(label[p])
    <3>1. \A p \in Puts : label[p] \in Labels
      BY <1>3 DEF HistType, Requests
    <3>2. \A p \in Puts : StoreAge(label[p])' = StoreAge(label[p])
      BY <1>2, <1>11, <3>1, Zenon DEF StoreAge
    <3>3. \A g \in Gets : progress'[g] = "answered" => result'[g] = seen'[g]
      BY <1>2, <2>1, Zenon DEF IInv, AnswerInv
    <3> QED  BY <1>2, <2>1, <3>2, <3>3, Zenon DEF AnswerInv
  <2>2. label[p][1] \in Keys
    BY <1>3 DEF HistType, Requests, Labels
  <2>3. /\ p \in Range(order[label[p][1]])
        /\ AgeIn(order[label[p][1]], p) <= StoreAge(label[p])
    BY Zenon DEF IInv, AnswerInv
  <2>4. p \in Known(order[label[p][1]])
    BY <2>3, Zenon DEF Known
  <2>5. AgeIn(order'[label[p][1]], p) = AgeIn(order[label[p][1]], p)
    BY <1>10, <2>2, <2>4, Zenon
  <2> QED  BY <1>10, <2>2, <2>3, <2>5, Zenon
<1> QED  BY <1>11, <1>12, <1>13, <1>14, <1>15, <1>16, <1>17, Zenon DEF IInv

\* The cache gives the newest value of a key.
LEMMA CacheIsNewest ==
    ASSUME IInv, NEW k \in Keys
    PROVE  LET v == IF cache[k] = NoVal THEN InitVal ELSE cache[k]
           IN  v \in Known(order[k]) /\ \A u \in Known(order[k]) : AgeIn(order[k], u) <= AgeIn(order[k], v)
<1> DEFINE o == order[k]
           v == IF cache[k] = NoVal THEN InitVal ELSE cache[k]
<1>1. o \in Seq(Puts) /\ (\A i, j \in DOMAIN o : o[i] = o[j] => i = j)
  BY Zenon DEF IInv, TypeInv, HistType, CacheInv
<1>2. cache[k] = IF o = <<>> THEN NoVal ELSE o[Len(o)]
  BY Zenon DEF IInv, CacheInv
<1> HIDE DEF o
<1>3. CASE o = <<>>
  <2>1. Known(o) = {InitVal}
    BY <1>3 DEF Known, Range
  <2>2. v = InitVal /\ AgeIn(o, InitVal) = 0
    BY <1>1, <1>2, <1>3, AgeIs, Zenon
  <2> QED  BY <2>1, <2>2 DEF o
<1>4. CASE o # <<>>
  <2>1. Len(o) \in DOMAIN o /\ o[Len(o)] \in Puts
    BY <1>1, <1>4
  <2>2. v = o[Len(o)]
    BY <1>2, <1>4, <2>1, StorageAssumption, Zenon DEF Values
  <2>3. v \in Known(o)
    BY <2>1, <2>2, Zenon DEF Known, Range
  <2>4. \A u \in Known(o) : AgeIn(o, u) <= AgeIn(o, o[Len(o)])
    BY <1>1, <1>4, AgeLast, Zenon
  <2> QED  BY <2>2, <2>3, <2>4, Zenon DEF o
<1> QED  BY <1>3, <1>4, Zenon

\* What a worker forwards.
LEMMA RunningHead ==
    ASSUME IInv, NEW w \in Workers, running[w] # <<>>
    PROVE  LET op == Head(running[w])
           IN  /\ op \in L2Op /\ op.req \in Requests /\ op.label \in Labels /\ op.label[1] \in Keys
               /\ op.seq \in Nat
               /\ op.label = label[op.req] /\ WorkerOf[op.label] = w /\ progress[op.req] = "run"
               /\ op.req \in Puts => op.req \in Range(order[op.label[1]])
<1> DEFINE op == Head(running[w])
<1>1. running[w] \in Seq(L2Op) /\ IsRunning(running[w], label, progress, order, w)
  BY Zenon DEF IInv, TypeInv, L2Type, ChainInv
<1>2. 1 \in DOMAIN running[w] /\ op = running[w][1] /\ op \in L2Op
  BY <1>1, RangeTail, Zenon
<1> HIDE DEF op
<1>3. /\ op.label = label[op.req] /\ WorkerOf[op.label] = w /\ progress[op.req] = "run"
      /\ op.req \in Puts => op.req \in Range(order[op.label[1]])
  BY <1>1, <1>2, Zenon DEF IsRunning
<1>4. op.req \in Requests /\ op.label \in Labels /\ op.label[1] \in Keys /\ op.seq \in Nat
  BY <1>2 DEF L2Op, Labels
<1> QED  BY <1>2, <1>3, <1>4, Zenon DEF op

\* ForwardRequest: an operation with the newest value of its key joins the line.
LEMMA ForwardRequestStep ==
    ASSUME UpdateCacheEnabled, IInv, NEW w \in Workers, ForwardRequest(w), UNCHANGED config
    PROVE  IInv'
<1>0. PICK op, s, c : op = Head(running[w]) /\ s = ServerOf[op.label] /\ c = cache[op.label[1]]
  BY Zenon
<1> DEFINE k == op.label[1]
           v == IF c = NoVal THEN InitVal ELSE c
           x == [req |-> op.req, label |-> op.label, seq |-> op.seq, value |-> c,
                 plaintext |-> NoVal]
<1>1. /\ running[w] # <<>> /\ running' = [running EXCEPT ![w] = <<>>]
      /\ l3request' = [l3request EXCEPT ![w][s] = Append(@, x)]
      /\ progress' = [progress EXCEPT ![op.req] = "forwarded"]
      /\ seen' = [seen EXCEPT ![op.req] = v]
  BY <1>0, Zenon DEF ForwardRequest, Update
<1>2. /\ UNCHANGED <<chain_seq_no_, chain, cache, get_queue, mgets, crypto_queue_, msets>>
      /\ UNCHANGED <<msetReplies, respond_queue_, ack_queues_, acked, kv, label, result, order>>
  BY Zenon DEF ForwardRequest, l3Vars
<1>3. L2Type /\ L3Type /\ DoneType /\ HistType
  BY Zenon DEF IInv, TypeInv
<1>4. /\ op \in L2Op /\ op.req \in Requests /\ op.label \in Labels /\ k \in Keys /\ op.seq \in Nat
      /\ op.label = label[op.req] /\ WorkerOf[op.label] = w /\ progress[op.req] = "run"
      /\ op.req \in Puts => op.req \in Range(order[k])
  <2>1. LET h == Head(running[w])
        IN  /\ h \in L2Op /\ h.req \in Requests /\ h.label \in Labels /\ h.label[1] \in Keys
            /\ h.seq \in Nat
            /\ h.label = label[h.req] /\ WorkerOf[h.label] = w /\ progress[h.req] = "run"
            /\ h.req \in Puts => h.req \in Range(order[h.label[1]])
    BY <1>1, RunningHead, Zenon
  <2>2. op = Head(running[w])
    BY <1>0, Zenon
  <2> QED  BY <2>1, <2>2
<1>5. s \in Servers /\ x \in L3Op /\ v \in Values
  <2>1. config \in Configs /\ c \in Puts \cup {NoVal}
    BY <1>0, <1>3, <1>4, Zenon DEF L2Type
  <2>2. config.ServerOf \in [Labels -> Servers]
    BY <2>1, StorageAssumption
  <2>3. s \in Servers
    BY <1>0, <1>4, <2>2, Zenon DEF ServerOf
  <2>4. x \in L3Op
    BY <1>4, <2>1 DEF L3Op
  <2> QED  BY <2>1, <2>3, <2>4, Zenon DEF Values
<1>6. v \in Known(order[k]) /\ \A u \in Known(order[k]) : AgeIn(order[k], u) <= AgeIn(order[k], v)
  BY <1>0, <1>4, CacheIsNewest, Zenon
<1>7. /\ x.req = op.req /\ x.label = op.label /\ Writes(x) = v /\ AgeOf(order, x) = AgeIn(order[k], v)
  BY DEF Writes, AgeOf
<1>8. /\ \A r \in Requests : progress'[r] = IF r = op.req THEN "forwarded" ELSE progress[r]
      /\ \A r \in Requests : seen'[r] = IF r = op.req THEN v ELSE seen[r]
  BY <1>1, <1>3, Zenon DEF HistType
<1> HIDE DEF k, v, x
<1>9. TypeInv'
  <2>1. L2Type'
    <3>1. \A u \in Workers : running'[u] = IF u = w THEN <<>> ELSE running[u]
      BY <1>1, <1>3, Zenon DEF L2Type
    <3>2. \A u \in Workers : Len(running[u]) <= 1 /\ running[u] \in Seq(L2Op)
      BY <1>3, Zenon DEF L2Type
    <3>3. Len(<<>>) <= 1 /\ <<>> \in Seq(L2Op)
      OBVIOUS
    <3>4. \A u \in Workers : Len(running'[u]) <= 1 /\ running'[u] \in Seq(L2Op)
      BY <3>1, <3>2, <3>3, Zenon
    <3>5. running' \in [Workers -> Seq(L2Op)]
      BY <1>1, <1>3, <3>3, Zenon DEF L2Type
    <3> QED  BY <1>2, <1>3, <3>4, <3>5, Zenon DEF L2Type
  <2>2. L3Type'
    <3>1. Append(l3request[w][s], x) \in Seq(L3Op)
      <4>1. l3request[w][s] \in Seq(L3Op)
        BY <1>3, <1>5, Zenon DEF L3Type
      <4> QED  BY <1>5, <4>1, RangeAppend, Zenon
    <3>2. l3request' \in [Workers -> [Servers -> Seq(L3Op)]]
      BY <1>1, <1>3, <1>5, <3>1, Zenon DEF L3Type
    <3> QED  BY <1>2, <1>3, <3>2, Zenon DEF L3Type
  <2>3. DoneType'
    BY <1>2, <1>3, Zenon DEF DoneType
  <2>4. HistType'
    <3>1. /\ progress' \in [Requests -> {"idle", "submitted", "run", "forwarded", "answered"}]
          /\ seen' \in [Requests -> Values \cup {NoVal}]
      BY <1>1, <1>3, <1>5, Zenon DEF HistType
    <3> QED  BY <1>2, <1>3, <3>1, Zenon DEF HistType
  <2> QED  BY <2>1, <2>2, <2>3, <2>4, Zenon DEF TypeInv
<1>10. /\ \A t, y : Ahead(t, y) => Ahead(t, y)'
       /\ \A y : Behind(y) => Behind(y)'
  <2>1. \A r \in Requests : progress[r] \in {"forwarded", "answered"}
            => progress'[r] \in {"forwarded", "answered"} /\ seen'[r] = seen[r]
    BY <1>4, <1>8
  <2> QED  BY <1>2, <2>1, ForwardedStays, Zenon
<1>11. Ahead(s, x)'
  <2>1. StoreAge(x.label) <= AgeOf(order, x)
    <3>1. decrypt(kv[x.label]) \in Known(order[k])
      BY <1>4, <1>7, Zenon DEF IInv, CacheInv, k
    <3> QED  BY <1>6, <1>7, <3>1, Zenon DEF StoreAge, k
  <2>2. x.req \in Puts => /\ x.req \in Range(order[x.label[1]])
                          /\ AgeIn(order[x.label[1]], x.req) <= AgeOf(order, x)
    BY <1>4, <1>6, <1>7, Zenon DEF Known, k
  <2>3. seen'[x.req] = Writes(x) /\ progress'[x.req] \in {"forwarded", "answered"}
    BY <1>4, <1>7, <1>8
  <2>4. Writes(x) \in Known(order[x.label[1]])
    BY <1>6, <1>7, Zenon DEF k
  <2>5. Forwarded(x)'
    BY <1>2, <1>4, <1>7, <2>2, <2>3, <2>4, Zenon DEF Forwarded
  <2>6. StoreAge(x.label)' = StoreAge(x.label)
    BY <1>2, Zenon DEF StoreAge
  <2> QED  BY <1>0, <1>2, <1>7, <2>1, <2>5, <2>6, Zenon DEF Ahead, ServerOf
<1>12. /\ l3request'[w][s] = Append(l3request[w][s], x)
       /\ \A u \in Workers, t \in Servers : u # w \/ t # s => l3request'[u][t] = l3request[u][t]
       /\ l3request[w][s] \in Seq(L3Op)
  BY <1>1, <1>3, <1>5, Zenon DEF L3Type
<1>13. PipeInv'
  <2>1. Range(l3request'[w][s]) = Range(l3request[w][s]) \cup {x}
    BY <1>5, <1>12, RangeAppend
  <2>2. ASSUME NEW t \in Servers, NEW u \in Workers, NEW y \in Range(l3request'[u][t])
        PROVE  Ahead(t, y)' /\ WorkerOf[y.label] = u
    <3>1. CASE y \in Range(l3request[u][t])
      BY <1>10, <3>1, Zenon DEF IInv, PipeInv
    <3>2. CASE y = x /\ u = w /\ t = s
      BY <1>4, <1>7, <1>11, <3>2, Zenon
    <3> QED  BY <1>12, <2>1, <2>2, <3>1, <3>2, Zenon
  <2>3. \A t \in Servers : \A y \in Taken(t)' : Ahead(t, y)'
    BY <1>2, <1>10, Zenon DEF IInv, PipeInv, Taken
  <2> QED  BY <2>2, <2>3, Zenon DEF PipeInv
<1>14. LineInv'
  <2> SUFFICES ASSUME NEW t \in Servers
               PROVE  Line(order, Connections(t)', get_queue[t], mgets[t],
                           CryptoOps(crypto_queue_[t]), msets[t])
    BY <1>2, Zenon DEF LineInv
  <2>1. Line(order, Connections(t), get_queue[t], mgets[t], CryptoOps(crypto_queue_[t]), msets[t])
    BY Zenon DEF IInv, LineInv
  <2>2. CASE t # s
    <3>1. Connections(t)' = Connections(t)
      BY <1>12, <2>2, Zenon DEF Connections
    <3> QED  BY <2>1, <3>1, Zenon
  <2>3. CASE t = s
    <3>1. Connections(t)' = [Connections(t) EXCEPT ![w] = Append(@, x)]
      BY <1>12, <2>3, Zenon DEF Connections
    <3>2. \A y : Ahead(t, y) => NoNewer(order, y, x)
      <4> SUFFICES ASSUME NEW y, Ahead(t, y), y.label = x.label
                   PROVE  AgeOf(order, y) <= AgeOf(order, x)
        BY Zenon DEF NoNewer
      <4>1. Writes(y) \in Known(order[k]) /\ AgeOf(order, y) = AgeIn(order[k], Writes(y))
        BY <1>7, Zenon DEF Ahead, Forwarded, AgeOf, k
      <4> QED  BY <1>6, <1>7, <4>1, Zenon
    <3>3. \A y \in Taken(t) : Ahead(t, y)
      BY Zenon DEF IInv, PipeInv
    <3>4. \A y \in Conn(Connections(t)) : Ahead(t, y)
      <4> SUFFICES ASSUME NEW y \in Conn(Connections(t)) PROVE Ahead(t, y)
        BY Zenon
      <4>1. PICK u \in Workers : y \in Range(Connections(t)[u])
        BY InConn, Zenon
      <4>2. y \in Range(l3request[u][t])
        BY <4>1, Zenon DEF Connections
      <4> QED  BY <4>2, Zenon DEF IInv, PipeInv
    <3>5. Before(order, Conn(Connections(t)), {x})
      BY <3>2, <3>4, Zenon DEF Before
    <3>6. Before(order, Range(get_queue[t]) \cup All(mgets[t])
                          \cup All(CryptoOps(crypto_queue_[t])) \cup All(msets[t]), {x})
      BY <3>2, <3>3, Zenon DEF Before, Taken
    <3>7. Connections(t) \in [Workers -> Seq(L3Op)]
      BY <1>3 DEF L3Type, Connections
    <3>8. Line(order, [Connections(t) EXCEPT ![w] = Append(@, x)], get_queue[t], mgets[t],
               CryptoOps(crypto_queue_[t]), msets[t])
      BY <1>5, <2>1, <3>5, <3>6, <3>7, LineForward, Zenon
    <3> QED  BY <3>1, <3>8, Zenon
  <2> QED  BY <2>2, <2>3, Zenon
<1>15. ExecutedInv' /\ ReadInv'
  <2>1. ExecutedInv'
    BY <1>2, <1>10, Zenon DEF IInv, ExecutedInv, Executed
  <2>2. ReadInv'
    BY <1>2, Zenon DEF IInv, ReadInv
  <2> QED  BY <2>1, <2>2, Zenon
<1>16. CacheInv'
  <2>1. \A j \in Keys : \A p \in Range(order[j]) : p \in Requests
    <3>1. \A j \in Keys : order[j] \in Seq(Puts)
      BY <1>3, Zenon DEF HistType
    <3>2. \A j \in Keys : Range(order[j]) \subseteq Puts
      BY <3>1, RangeType, Zenon
    <3> QED  BY <3>2, Zenon DEF Requests
  <2>2. \A j \in Keys : \A p \in Range(order[j]) : progress[p] \notin {"idle", "submitted"}
    BY Zenon DEF IInv, CacheInv
  <2>3. \A j \in Keys : \A p \in Range(order[j]) : progress'[p] \notin {"idle", "submitted"}
    BY <1>8, <2>1, <2>2
  <2> QED  BY <1>2, <2>3, Zenon DEF IInv, CacheInv
<1>17. ChainInv'
  <2> SUFFICES ASSUME NEW u \in Workers
               PROVE  /\ OnChain(chain[u], label, progress', u)
                      /\ IsRunning(running'[u], label, progress', order, u)
    BY <1>2, Zenon DEF ChainInv
  <2>1. /\ OnChain(chain[u], label, progress, u)
        /\ IsRunning(running[u], label, progress, order, u)
        /\ chain[u] \in Seq(L2Op) /\ running[u] \in Seq(L2Op)
    BY <1>3, Zenon DEF IInv, ChainInv, L2Type
  <2>2. \A i \in DOMAIN chain[u] :
            chain[u][i].req \in Requests /\ progress[chain[u][i].req] = "submitted"
    BY <2>1, L2OpReq, Zenon DEF OnChain
  <2>3. \A i \in DOMAIN chain[u] : progress'[chain[u][i].req] = progress[chain[u][i].req]
    BY <1>4, <1>8, <2>2
  <2>4. OnChain(chain[u], label, progress', u)
    BY <2>1, <2>3, OnChainStays, Zenon
  <2>5. CASE u = w
    <3>1. running'[u] = <<>>
      BY <1>1, <1>3, <2>5, Zenon DEF L2Type
    <3>2. IsRunning(<<>>, label, progress', order, u)
      BY DEF IsRunning
    <3> QED  BY <2>4, <3>1, <3>2, Zenon
  <2>6. CASE u # w
    <3>1. running'[u] = running[u]
      BY <1>1, <1>3, <2>6, Zenon DEF L2Type
    <3>2. \A i \in DOMAIN running[u] :
              running[u][i].req \in Requests /\ WorkerOf[label[running[u][i].req]] = u
      BY <2>1, L2OpReq, Zenon DEF IsRunning
    <3>3. \A i \in DOMAIN running[u] : progress'[running[u][i].req] = progress[running[u][i].req]
      <4>1. WorkerOf[label[op.req]] # u
        BY <1>4, <2>6, Zenon
      <4> QED  BY <1>8, <3>2, <4>1, Zenon
    <3>4. IsRunning(running[u], label, progress', order, u)
      BY <2>1, <3>3, Zenon DEF IsRunning
    <3> QED  BY <2>4, <3>1, <3>4, Zenon
  <2> QED  BY <2>5, <2>6, Zenon
<1>18. AnswerInv'
  <2>1. \A r \in Puts \cup Gets : progress'[r] = "answered"
            => progress[r] = "answered" /\ seen'[r] = seen[r]
    BY <1>8 DEF Requests
  <2>2. \A l : StoreAge(l)' = StoreAge(l)
    BY <1>2, Zenon DEF StoreAge
  <2> QED  BY <1>2, <2>1, <2>2, Zenon DEF IInv, AnswerInv, StoreAge
<1> QED  BY <1>9, <1>13, <1>14, <1>15, <1>16, <1>17, <1>18, Zenon DEF IInv

-----------------------------------------------------------------------------
(***************************************************************************)
(* The steps of L3                                                         *)
(***************************************************************************)

\* What the steps of L3 leave alone.
LEMMA L3Frame ==
    ASSUME IInv, UNCHANGED <<config, l2Vars, histVars>>
    PROVE  L2Type' /\ HistType' /\ ChainInv'
<1>1. UNCHANGED <<chain_seq_no_, chain, running, cache, label, progress, seen, result, order>>
  BY Zenon DEF l2Vars, histVars
<1>2. L2Type'
  BY <1>1, Zenon DEF IInv, TypeInv, L2Type
<1>3. HistType'
  BY <1>1, Zenon DEF IInv, TypeInv, HistType
<1>4. ChainInv'
  BY <1>1, Zenon DEF IInv, ChainInv
<1> QED  BY <1>2, <1>3, <1>4, Zenon

LEMMA StoreFrame ==
    ASSUME IInv, UNCHANGED <<config, kv, l2Vars, histVars>>
    PROVE  /\ CacheInv'
           /\ acked' = acked => AnswerInv'
           /\ \A l : StoreAge(l)' = StoreAge(l)
           /\ \A t, x : Ahead(t, x) => Ahead(t, x)'
           /\ \A x : Behind(x) => Behind(x)'
<1>1. UNCHANGED <<cache, label, progress, seen, result, order>>
  BY Zenon DEF l2Vars, histVars
<1>2. CacheInv'
  BY <1>1, Zenon DEF IInv, CacheInv
<1>3. \A l : StoreAge(l)' = StoreAge(l)
  BY <1>1, Zenon DEF StoreAge
<1>4. acked' = acked => AnswerInv'
  BY <1>1, <1>3, Zenon DEF IInv, AnswerInv, StoreAge
<1>5. /\ \A t, x : Ahead(t, x) => Ahead(t, x)'
      /\ \A x : Behind(x) => Behind(x)'
  BY <1>1, ForwardedStays, Zenon
<1> QED  BY <1>2, <1>3, <1>4, <1>5, Zenon

\* The line to server s.
LEMMA ServerLine ==
    ASSUME IInv, NEW s \in Servers
    PROVE  /\ Line(order, Connections(s), get_queue[s], mgets[s], CryptoOps(crypto_queue_[s]),
                   msets[s])
           /\ Connections(s) \in [Workers -> Seq(L3Op)]
           /\ \A w \in Workers : Connections(s)[w] = l3request[w][s]
           /\ get_queue[s] \in Seq(L3Op) /\ mgets[s] \in Seq(Seq(L3Op))
           /\ crypto_queue_[s] \in Seq(Seq(Cell)) /\ msets[s] \in Seq(Seq(L3Op))
           /\ \A x \in Conn(Connections(s)) : Ahead(s, x)
           /\ \A x \in Taken(s) : Ahead(s, x)
<1>1. L3Type
  BY Zenon DEF IInv, TypeInv
<1>2. \A w \in Workers : Connections(s)[w] = l3request[w][s]
  BY DEF Connections
<1>3. Connections(s) \in [Workers -> Seq(L3Op)]
  BY <1>1 DEF L3Type, Connections
<1>4. /\ get_queue[s] \in Seq(L3Op) /\ mgets[s] \in Seq(Seq(L3Op))
      /\ crypto_queue_[s] \in Seq(Seq(Cell)) /\ msets[s] \in Seq(Seq(L3Op))
  BY <1>1, Zenon DEF L3Type
<1>5. \A x \in Conn(Connections(s)) : Ahead(s, x)
  BY <1>2, Zenon DEF IInv, PipeInv, Conn
<1>6. \A x \in Taken(s) : Ahead(s, x)
  BY Zenon DEF IInv, PipeInv
<1>7. Line(order, Connections(s), get_queue[s], mgets[s], CryptoOps(crypto_queue_[s]), msets[s])
  BY Zenon DEF IInv, LineInv
<1> QED  BY <1>2, <1>3, <1>4, <1>5, <1>6, <1>7, Zenon

\* AsyncOperation: the first operation of a connection is dropped, queued, or
\* queued and sent with the others.
LEMMA AsyncOperationStep ==
    ASSUME IInv, NEW s \in Servers, NEW w \in Workers, AsyncOperation(s, w), UNCHANGED config
    PROVE  IInv'
<1>0. PICK op, q : op = Head(l3request[w][s]) /\ q = Append(get_queue[s], op)
  BY Zenon
<1>1. /\ l3request[w][s] # <<>> /\ l3request' = [l3request EXCEPT ![w][s] = Tail(@)]
      /\ \/ UNCHANGED <<get_queue, mgets>>
         \/ get_queue' = [get_queue EXCEPT ![s] = q] /\ mgets' = mgets
         \/ /\ get_queue' = [get_queue EXCEPT ![s] = <<>>]
            /\ mgets' = [mgets EXCEPT ![s] = Append(@, q)]
  <2>1. /\ l3request[w][s] # <<>> /\ l3request' = [l3request EXCEPT ![w][s] = Tail(@)]
        /\ \/ UNCHANGED <<get_queue, mgets>>
           \/ /\ get_queue' = [get_queue EXCEPT ![s] = IF Full(q) THEN <<>> ELSE q]
              /\ mgets' = IF Full(q) THEN [mgets EXCEPT ![s] = Append(@, q)] ELSE mgets
    BY <1>0, Zenon DEF AsyncOperation
  <2>2. CASE Full(q)
    BY <2>1, <2>2, Zenon
  <2>3. CASE ~Full(q)
    BY <2>1, <2>3, Zenon
  <2> QED  BY <2>2, <2>3, Zenon
<1>2. /\ UNCHANGED <<l2Vars, histVars, crypto_queue_, msets, msetReplies, respond_queue_>>
      /\ UNCHANGED <<ack_queues_, acked, kv>>
  BY Zenon DEF AsyncOperation
<1>3. UNCHANGED order
  BY <1>2, Zenon DEF histVars
<1>4. L2Type' /\ HistType' /\ ChainInv'
  BY <1>2, L3Frame, Zenon
<1>5. /\ CacheInv' /\ AnswerInv'
      /\ \A t, x : Ahead(t, x) => Ahead(t, x)'
      /\ \A x : Behind(x) => Behind(x)'
  BY <1>2, StoreFrame, Zenon
<1>6. L3Type /\ DoneType
  BY Zenon DEF IInv, TypeInv
<1>7. /\ l3request[w][s] \in Seq(L3Op) /\ get_queue[s] \in Seq(L3Op) /\ mgets[s] \in Seq(Seq(L3Op))
  BY <1>6, Zenon DEF L3Type
<1>8. /\ op \in L3Op /\ Tail(l3request[w][s]) \in Seq(L3Op) /\ op \in Range(l3request[w][s])
      /\ Range(Tail(l3request[w][s])) \subseteq Range(l3request[w][s])
  BY <1>0, <1>1, <1>7, RangeTail, Zenon
<1>9. q \in Seq(L3Op) /\ Range(q) = Range(get_queue[s]) \cup {op}
  <2>1. /\ Append(get_queue[s], op) \in Seq(L3Op)
        /\ Range(Append(get_queue[s], op)) = Range(get_queue[s]) \cup {op}
    BY <1>7, <1>8, RangeAppend, Zenon
  <2> QED  BY <1>0, <2>1, Zenon
<1>10. /\ l3request'[w][s] = Tail(l3request[w][s])
       /\ \A v \in Workers, t \in Servers : v # w \/ t # s => l3request'[v][t] = l3request[v][t]
  BY <1>1, <1>6, Zenon DEF L3Type
<1>11. /\ Append(mgets[s], q) \in Seq(Seq(L3Op)) /\ <<>> \in Seq(L3Op)
       /\ All(Append(mgets[s], q)) = All(mgets[s]) \cup Range(q)
  <2>1. <<>> \in Seq(L3Op)
    OBVIOUS
  <2> QED  BY <1>7, <1>9, <2>1, AllAppend, Zenon
<1>12. TypeInv'
  <2>1. l3request' \in [Workers -> [Servers -> Seq(L3Op)]]
    BY <1>1, <1>6, <1>8, Zenon DEF L3Type
  <2>2. get_queue' \in [Servers -> Seq(L3Op)]
    BY <1>1, <1>6, <1>9, <1>11, Zenon DEF L3Type
  <2>3. mgets' \in [Servers -> Seq(Seq(L3Op))]
    BY <1>1, <1>6, <1>11, Zenon DEF L3Type
  <2>4. L3Type'
    BY <1>2, <1>6, <2>1, <2>2, <2>3, Zenon DEF L3Type
  <2>5. DoneType'
    BY <1>2, <1>6, Zenon DEF DoneType
  <2> QED  BY <1>4, <2>4, <2>5, Zenon DEF TypeInv
<1>13. /\ \A t \in Servers \ {s} : get_queue'[t] = get_queue[t] /\ mgets'[t] = mgets[t]
       /\ \/ get_queue'[s] = get_queue[s] /\ mgets'[s] = mgets[s]
          \/ get_queue'[s] = q /\ mgets'[s] = mgets[s]
          \/ get_queue'[s] = <<>> /\ mgets'[s] = Append(mgets[s], q)
  BY <1>1, <1>6, Zenon DEF L3Type
<1>14. PipeInv'
  <2>1. \A v \in Workers, t \in Servers : Range(l3request'[v][t]) \subseteq Range(l3request[v][t])
    BY <1>8, <1>10, Zenon
  <2>2. \A t \in Servers : \A v \in Workers : \A x \in Range(l3request'[v][t]) :
            Ahead(t, x)' /\ WorkerOf[x.label] = v
    BY <1>5, <2>1, Zenon DEF IInv, PipeInv
  <2>3. \A t \in Servers \ {s} : Taken(t)' = Taken(t)
    BY <1>2, <1>13, Zenon DEF Taken
  <2>4. Taken(s)' \subseteq Taken(s) \cup {op}
    <3>1. Range(<<>>) = {}
      BY RangeType, Zenon
    <3>2. Range(get_queue'[s]) \cup All(mgets'[s]) \subseteq Range(get_queue[s]) \cup All(mgets[s]) \cup {op}
      BY <1>9, <1>11, <1>13, <3>1, Zenon
    <3> QED  BY <1>2, <3>2, Zenon DEF Taken
  <2>5. Ahead(s, op)
    BY <1>8, Zenon DEF IInv, PipeInv
  <2>6. \A t \in Servers : \A x \in Taken(t)' : Ahead(t, x)'
    BY <1>5, <2>3, <2>4, <2>5, Zenon DEF IInv, PipeInv
  <2> QED  BY <2>2, <2>6, Zenon DEF PipeInv
<1>15. ExecutedInv' /\ ReadInv'
  <2>1. ExecutedInv'
    BY <1>2, <1>5, Zenon DEF IInv, ExecutedInv, Executed
  <2>2. ReadInv'
    BY <1>2, Zenon DEF IInv, ReadInv
  <2> QED  BY <2>1, <2>2, Zenon
<1>16. LineInv'
  <2> DEFINE k(t) == CryptoOps(crypto_queue_[t])
             c == Connections(s)
             d == [c EXCEPT ![w] = Tail(@)]
             g == get_queue[s]
             m == mgets[s]
             p == msets[s]
  <2> SUFFICES ASSUME NEW t \in Servers
               PROVE  Line(order, Connections(t)', get_queue'[t], mgets'[t], k(t), msets[t])
    BY <1>2, <1>3, Zenon DEF LineInv
  <2>1. CASE t # s
    <3>1. Connections(t)' = Connections(t)
      BY <1>10, <2>1, Zenon DEF Connections
    <3> QED  BY <1>13, <2>1, <3>1, ServerLine, Zenon
  <2>2. CASE t = s
    <3>1. Connections(s)' = d
      BY <1>10, Zenon DEF Connections
    <3>2. /\ Line(order, c, g, m, k(s), p)
          /\ c \in [Workers -> Seq(L3Op)] /\ c[w] = l3request[w][s]
          /\ \A v \in Workers : c[v] = l3request[v][s]
      BY ServerLine, Zenon
    <3>3. \A v \in Workers : \A x \in Range(c[v]) : WorkerOf[x.label] = v
      BY <3>2, Zenon DEF IInv, PipeInv
    <3> HIDE DEF c, d, g, m, k, p
    <3>4. Line(order, d, g, m, k(s), p) /\ op \in Conn(c) /\ Before(order, {op}, Conn(d))
      BY <1>0, <1>1, <3>2, <3>3, LineRead, Zenon DEF d
    <3>5. Before(order, Range(g) \cup All(m) \cup All(k(s)) \cup All(p), {op})
      BY <3>2, <3>4, Zenon DEF Line, Before
    <3>6. g \in Seq(L3Op) /\ m \in Seq(Seq(L3Op)) /\ q = Append(g, op)
      BY <1>0, <1>7, Zenon DEF g, m
    <3>7. Line(order, d, q, m, k(s), p)
      BY <1>8, <3>4, <3>5, <3>6, LineQueue, Zenon
    <3>8. Line(order, d, <<>>, Append(m, q), k(s), p)
      BY <1>9, <3>6, <3>7, LineFlush, Zenon
    <3> QED  BY <1>13, <2>2, <3>1, <3>4, <3>7, <3>8, Zenon DEF g, m, p
  <2> QED  BY <2>1, <2>2, Zenon
<1> QED  BY <1>4, <1>5, <1>12, <1>14, <1>15, <1>16, Zenon DEF IInv

\* The operations of the batches in crypto_queue_.
LEMMA OpsOfType ==
    ASSUME NEW b \in Seq(Cell)
    PROVE  OpsOf(b) \in Seq(L3Op) /\ DOMAIN OpsOf(b) = DOMAIN b
<1>1. \A i \in DOMAIN b : b[i].op \in L3Op
  <2>1. \A i \in DOMAIN b : b[i] \in Cell
    OBVIOUS
  <2> QED  BY <2>1 DEF Cell
<1>2. DOMAIN b = 1..Len(b) /\ Len(b) \in Nat
  OBVIOUS
<1>3. OpsOf(b) = [i \in 1..Len(b) |-> b[i].op]
  BY <1>2, Zenon DEF OpsOf
<1> QED  BY <1>1, <1>2, <1>3

LEMMA CryptoOpsType ==
    ASSUME NEW q \in Seq(Seq(Cell))
    PROVE  CryptoOps(q) \in Seq(Seq(L3Op)) /\ DOMAIN CryptoOps(q) = DOMAIN q /\ Len(CryptoOps(q)) = Len(q)
<1>1. \A i \in DOMAIN q : OpsOf(q[i]) \in Seq(L3Op)
  <2>1. \A i \in DOMAIN q : q[i] \in Seq(Cell)
    OBVIOUS
  <2> QED  BY <2>1, OpsOfType, Zenon
<1>2. DOMAIN q = 1..Len(q) /\ Len(q) \in Nat
  OBVIOUS
<1>3. CryptoOps(q) = [i \in 1..Len(q) |-> OpsOf(q[i])]
  BY <1>2, Zenon DEF CryptoOps
<1>4. DOMAIN CryptoOps(q) = 1..Len(q)
  BY <1>3, Zenon
<1>5. CryptoOps(q) \in Seq(Seq(L3Op)) /\ Len(CryptoOps(q)) = Len(q)
  <2>1. \A i \in 1..Len(q) : CryptoOps(q)[i] \in Seq(L3Op)
    BY <1>1, <1>2, <1>3, Zenon
  <2>2. CryptoOps(q) = [i \in 1..Len(q) |-> CryptoOps(q)[i]]
    BY <1>3, Zenon
  <2> QED  BY <1>2, <2>1, <2>2, IsSeq, Zenon
<1> QED  BY <1>2, <1>4, <1>5, Zenon

LEMMA CryptoAppend ==
    ASSUME NEW q \in Seq(Seq(Cell)), NEW b \in Seq(Cell)
    PROVE  CryptoOps(Append(q, b)) = Append(CryptoOps(q), OpsOf(b))
<1> DEFINE r == Append(q, b)
           x == CryptoOps(r)
           y == Append(CryptoOps(q), OpsOf(b))
<1>1. r \in Seq(Seq(Cell)) /\ Len(r) = Len(q) + 1 /\ DOMAIN r = 1..(Len(q) + 1) /\ Len(q) \in Nat
  OBVIOUS
<1>2. x \in Seq(Seq(L3Op)) /\ Len(x) = Len(r) /\ \A i \in DOMAIN r : x[i] = OpsOf(r[i])
  BY <1>1, CryptoOpsType, Zenon DEF CryptoOps
<1>3. /\ CryptoOps(q) \in Seq(Seq(L3Op)) /\ OpsOf(b) \in Seq(L3Op) /\ Len(CryptoOps(q)) = Len(q)
      /\ \A i \in DOMAIN q : CryptoOps(q)[i] = OpsOf(q[i])
  BY OpsOfType, CryptoOpsType, Zenon DEF CryptoOps
<1>4. y \in Seq(Seq(L3Op)) /\ Len(y) = Len(q) + 1
  BY <1>3
<1>5. \A i \in 1..(Len(q) + 1) : x[i] = y[i]
  <2>1. \A i \in 1..(Len(q) + 1) :
            \/ i \in DOMAIN q /\ r[i] = q[i] /\ y[i] = CryptoOps(q)[i]
            \/ i = Len(q) + 1 /\ r[i] = b /\ y[i] = OpsOf(b)
    BY <1>3
  <2> HIDE DEF r, x, y
  <2> QED  BY <1>1, <1>2, <1>3, <2>1, Zenon
<1> HIDE DEF x, y, r
<1>6. x = y
  <2>1. Len(x) = Len(y) /\ \A i \in 1..Len(x) : x[i] = y[i]
    BY <1>1, <1>2, <1>4, <1>5
  <2> QED  BY <1>2, <1>4, <2>1, SameSeq, Zenon
<1> QED  BY <1>6, Zenon DEF x, y, r

LEMMA CryptoTail ==
    ASSUME NEW q \in Seq(Seq(Cell)), q # <<>>
    PROVE  /\ CryptoOps(q) # <<>> /\ Head(CryptoOps(q)) = OpsOf(Head(q))
           /\ CryptoOps(Tail(q)) = Tail(CryptoOps(q))
<1> DEFINE r == Tail(q)
           z == CryptoOps(q)
           x == CryptoOps(r)
           y == Tail(z)
<1>1. /\ Len(q) \in Nat /\ Len(q) >= 1 /\ r \in Seq(Seq(Cell)) /\ Len(r) = Len(q) - 1
      /\ DOMAIN r = 1..(Len(q) - 1) /\ 1 \in DOMAIN q /\ Head(q) = q[1]
      /\ \A i \in 1..(Len(q) - 1) : i + 1 \in DOMAIN q /\ r[i] = q[i + 1]
  OBVIOUS
<1>2. x \in Seq(Seq(L3Op)) /\ Len(x) = Len(r) /\ \A i \in DOMAIN r : x[i] = OpsOf(r[i])
  BY <1>1, CryptoOpsType, Zenon DEF CryptoOps
<1>3. z \in Seq(Seq(L3Op)) /\ Len(z) = Len(q) /\ \A i \in DOMAIN q : z[i] = OpsOf(q[i])
  BY CryptoOpsType, Zenon DEF CryptoOps
<1> HIDE DEF r, x, z
<1>4. /\ z # <<>> /\ Head(z) = z[1] /\ y \in Seq(Seq(L3Op)) /\ Len(y) = Len(q) - 1
      /\ \A i \in 1..(Len(q) - 1) : y[i] = z[i + 1]
  BY <1>1, <1>3
<1> HIDE DEF y
<1>5. \A i \in 1..(Len(q) - 1) : x[i] = y[i]
  BY <1>1, <1>2, <1>3, <1>4, Zenon
<1>6. x = y
  <2>1. Len(x) = Len(y) /\ \A i \in 1..Len(x) : x[i] = y[i]
    BY <1>1, <1>2, <1>4, <1>5
  <2> QED  BY <1>2, <1>4, <2>1, SameSeq, Zenon
<1>7. Head(z) = OpsOf(Head(q))
  BY <1>1, <1>3, <1>4, Zenon
<1> QED  BY <1>4, <1>6, <1>7, Zenon DEF x, y, z, r

\* KvGet: an operation that came without a value reads the first one, since
\* the store is no newer than what it will write.
LEMMA KvGetStep ==
    ASSUME IInv, NEW s \in Servers, KvGet(s), UNCHANGED config
    PROVE  IInv'
<1>0. PICK ops, b : /\ ops = Head(mgets[s])
                    /\ b = [i \in DOMAIN ops |-> [op |-> ops[i], kv_response |-> kv[ops[i].label]]]
  BY Zenon
<1>1. /\ mgets[s] # <<>> /\ mgets' = [mgets EXCEPT ![s] = Tail(@)]
      /\ crypto_queue_' = [crypto_queue_ EXCEPT ![s] = Append(@, b)]
  BY <1>0, Zenon DEF KvGet
<1>2. /\ UNCHANGED <<l2Vars, histVars, l3request, get_queue, msets, msetReplies, respond_queue_>>
      /\ UNCHANGED <<ack_queues_, acked, kv>>
  BY Zenon DEF KvGet
<1>3. UNCHANGED order
  BY <1>2, Zenon DEF histVars
<1>4. L2Type' /\ HistType' /\ ChainInv'
  BY <1>2, L3Frame, Zenon
<1>5. /\ CacheInv' /\ AnswerInv'
      /\ \A t, x : Ahead(t, x) => Ahead(t, x)'
      /\ \A x : Behind(x) => Behind(x)'
  BY <1>2, StoreFrame, Zenon
<1>6. L3Type /\ DoneType
  BY Zenon DEF IInv, TypeInv
<1>7. mgets[s] \in Seq(Seq(L3Op)) /\ crypto_queue_[s] \in Seq(Seq(Cell))
  BY <1>6, Zenon DEF L3Type
<1>8. /\ ops \in Seq(L3Op) /\ Tail(mgets[s]) \in Seq(Seq(L3Op))
      /\ Range(ops) \subseteq All(mgets[s]) /\ All(Tail(mgets[s])) \subseteq All(mgets[s])
  BY <1>0, <1>1, <1>7, AllTail, Zenon
<1>9. /\ b \in Seq(Cell) /\ OpsOf(b) = ops /\ DOMAIN b = DOMAIN ops
      /\ \A i \in DOMAIN b : b[i].op = ops[i] /\ b[i].kv_response = kv[ops[i].label]
  <2>1. DOMAIN ops = 1..Len(ops) /\ Len(ops) \in Nat
    BY <1>8
  <2>2. \A i \in DOMAIN ops : ops[i] \in L3Op /\ ops[i].label \in Labels
    <3>1. \A i \in DOMAIN ops : ops[i] \in L3Op
      BY <1>8
    <3> QED  BY <3>1 DEF L3Op
  <2>3. \A i \in DOMAIN ops : kv[ops[i].label] \in [cipher : Values]
    BY <1>6, <2>2, Zenon DEF DoneType
  <2>4. /\ DOMAIN b = DOMAIN ops
        /\ \A i \in DOMAIN b : b[i].op = ops[i] /\ b[i].kv_response = kv[ops[i].label]
    BY <1>0
  <2>5. \A i \in DOMAIN ops : b[i] \in Cell
    BY <1>0, <2>2, <2>3 DEF Cell
  <2>6. b = [i \in 1..Len(ops) |-> b[i]]
    BY <1>0, <2>1, Zenon
  <2>7. b \in Seq(Cell)
    BY <2>1, <2>5, <2>6, IsSeq, Zenon
  <2>8. OpsOf(b) = ops
    <3>1. OpsOf(b) = [i \in DOMAIN ops |-> ops[i]]
      BY <2>4, Zenon DEF OpsOf
    <3>2. ops = [i \in DOMAIN ops |-> ops[i]]
      BY <1>8
    <3> QED  BY <3>1, <3>2, Zenon
  <2> QED  BY <2>4, <2>7, <2>8, Zenon
<1>10. /\ mgets'[s] = Tail(mgets[s]) /\ crypto_queue_'[s] = Append(crypto_queue_[s], b)
       /\ \A t \in Servers \ {s} : mgets'[t] = mgets[t] /\ crypto_queue_'[t] = crypto_queue_[t]
  BY <1>1, <1>6, Zenon DEF L3Type
<1>11. /\ CryptoOps(crypto_queue_'[s]) = Append(CryptoOps(crypto_queue_[s]), ops)
       /\ CryptoOps(crypto_queue_[s]) \in Seq(Seq(L3Op))
       /\ All(CryptoOps(crypto_queue_'[s])) = All(CryptoOps(crypto_queue_[s])) \cup Range(ops)
  <2>1. CryptoOps(crypto_queue_[s]) \in Seq(Seq(L3Op))
    BY <1>7, CryptoOpsType, Zenon
  <2>2. CryptoOps(crypto_queue_'[s]) = Append(CryptoOps(crypto_queue_[s]), ops)
    BY <1>7, <1>9, <1>10, CryptoAppend, Zenon
  <2> QED  BY <1>8, <2>1, <2>2, AllAppend, Zenon
<1>12. TypeInv'
  <2>1. Append(crypto_queue_[s], b) \in Seq(Seq(Cell))
    BY <1>7, <1>9, AllAppend, Zenon
  <2>2. mgets' \in [Servers -> Seq(Seq(L3Op))] /\ crypto_queue_' \in [Servers -> Seq(Seq(Cell))]
    BY <1>1, <1>6, <1>8, <2>1, Zenon DEF L3Type
  <2>3. L3Type' /\ DoneType'
    BY <1>2, <1>6, <2>2, Zenon DEF L3Type, DoneType
  <2> QED  BY <1>4, <2>3, Zenon DEF TypeInv
<1>13. PipeInv'
  <2>1. Taken(s)' \subseteq Taken(s)
    BY <1>2, <1>8, <1>10, <1>11, Zenon DEF Taken
  <2>2. \A t \in Servers \ {s} : Taken(t)' = Taken(t)
    BY <1>2, <1>10, Zenon DEF Taken
  <2>3. \A t \in Servers : \A x \in Taken(t)' : Ahead(t, x)'
    <3>1. \A t \in Servers : \A x \in Taken(t) : Ahead(t, x)
      BY Zenon DEF IInv, PipeInv
    <3>2. \A t \in Servers : Taken(t)' \subseteq Taken(t)
      BY <2>1, <2>2, Zenon
    <3> QED  BY <1>5, <3>1, <3>2, Zenon
  <2> QED  BY <1>2, <1>5, <2>3, Zenon DEF IInv, PipeInv
<1>14. ExecutedInv'
  BY <1>2, <1>5, Zenon DEF IInv, ExecutedInv, Executed
<1>15. ReadInv'
  <2>1. All(crypto_queue_'[s]) = All(crypto_queue_[s]) \cup Range(b)
    <3>1. All(Append(crypto_queue_[s], b)) = All(crypto_queue_[s]) \cup Range(b)
      BY <1>7, <1>9, AllAppend
    <3> QED  BY <1>10, <3>1, Zenon
  <2>2. ASSUME NEW i \in DOMAIN b, b[i].op.value = NoVal
        PROVE  b[i].kv_response = encrypt(InitVal)
    <3> DEFINE x == ops[i]
               o == order[x.label[1]]
               u == decrypt(kv[x.label])
    <3>1. x \in Range(ops) /\ x.value = NoVal /\ b[i].kv_response = kv[x.label] /\ x \in L3Op
      <4>1. i \in DOMAIN ops /\ x.value = NoVal /\ b[i].kv_response = kv[x.label]
        BY <1>9, <2>2, Zenon
      <4>2. x \in L3Op
        BY <1>8, <4>1
      <4> QED  BY <4>1, <4>2, Zenon DEF Range
    <3>2. Ahead(s, x)
      BY <1>8, <3>1, Zenon DEF IInv, PipeInv, Taken
    <3> HIDE DEF x
    <3>3. x.label \in Labels /\ x.label[1] \in Keys
      BY <3>1 DEF L3Op, Labels
    <3>4. Writes(x) = InitVal
      BY <3>1, Zenon DEF Writes
    <3>5. o \in Seq(Puts) /\ (\A m, n \in DOMAIN o : o[m] = o[n] => m = n) /\ u \in Known(o)
      BY <3>3, Zenon DEF IInv, TypeInv, HistType, CacheInv
    <3>6. AgeIn(o, u) <= AgeIn(o, InitVal)
      BY <3>2, <3>4, Zenon DEF Ahead, StoreAge, AgeOf
    <3>7. AgeIn(o, InitVal) = 0 /\ AgeIn(o, u) \in 0..Len(o) /\ (AgeIn(o, u) = 0 => u = InitVal)
      BY <3>5, AgeIs, Zenon
    <3>8. kv[x.label] \in [cipher : Values]
      BY <1>6, <3>3, Zenon DEF DoneType
    <3> HIDE DEF o
    <3>9. u = InitVal
      <4> HIDE DEF u
      <4> QED  BY <3>6, <3>7
    <3> QED  BY <3>1, <3>8, <3>9 DEF decrypt, encrypt
  <2>3. \A x \in Range(b) : x.op.value = NoVal => x.kv_response = encrypt(InitVal)
    BY <2>2, Zenon DEF Range
  <2>4. \A t \in Servers : \A x \in All(crypto_queue_'[t]) :
            x.op.value = NoVal => x.kv_response = encrypt(InitVal)
    BY <1>10, <2>1, <2>3, Zenon DEF IInv, ReadInv
  <2> QED  BY <1>2, <2>4, Zenon DEF IInv, ReadInv
<1>16. LineInv'
  <2> SUFFICES ASSUME NEW t \in Servers
               PROVE  Line(order, Connections(t), get_queue[t], mgets'[t],
                           CryptoOps(crypto_queue_'[t]), msets[t])
    BY <1>2, <1>3, Zenon DEF LineInv, Connections
  <2>1. Line(order, Connections(t), get_queue[t], mgets[t], CryptoOps(crypto_queue_[t]), msets[t])
    BY ServerLine, Zenon
  <2>2. CASE t # s
    BY <1>10, <2>1, <2>2, Zenon
  <2>3. CASE t = s
    <3>1. Line(order, Connections(s), get_queue[s], Tail(mgets[s]),
               Append(CryptoOps(crypto_queue_[s]), ops), msets[s])
      BY <1>0, <1>1, <1>7, <1>11, <2>1, <2>3, LineGet, Zenon
    <3> QED  BY <1>10, <1>11, <2>3, <3>1, Zenon
  <2> QED  BY <2>2, <2>3, Zenon
<1> QED  BY <1>4, <1>5, <1>12, <1>13, <1>14, <1>15, <1>16, Zenon DEF IInv

\* CryptoThread: the plaintext is the value the operation writes.
LEMMA CryptoThreadStep ==
    ASSUME IInv, NEW s \in Servers, CryptoThread(s), UNCHANGED config
    PROVE  IInv'
<1>0. PICK batch, b : /\ batch = Head(crypto_queue_[s])
                      /\ b = [i \in DOMAIN batch |->
                                [batch[i].op EXCEPT !.plaintext = Plaintext(batch[i])]]
  BY Zenon
<1>1. /\ crypto_queue_[s] # <<>> /\ crypto_queue_' = [crypto_queue_ EXCEPT ![s] = Tail(@)]
      /\ msets' = [msets EXCEPT ![s] = Append(@, b)]
  BY <1>0, Zenon DEF CryptoThread
<1>2. /\ UNCHANGED <<l2Vars, histVars, l3request, get_queue, mgets, msetReplies, respond_queue_>>
      /\ UNCHANGED <<ack_queues_, acked, kv>>
  BY Zenon DEF CryptoThread
<1>3. UNCHANGED order
  BY <1>2, Zenon DEF histVars
<1>4. L2Type' /\ HistType' /\ ChainInv'
  BY <1>2, L3Frame, Zenon
<1>5. /\ CacheInv' /\ AnswerInv'
      /\ \A t, x : Ahead(t, x) => Ahead(t, x)'
      /\ \A x : Behind(x) => Behind(x)'
  BY <1>2, StoreFrame, Zenon
<1>6. L3Type /\ DoneType
  BY Zenon DEF IInv, TypeInv
<1>7. msets[s] \in Seq(Seq(L3Op)) /\ crypto_queue_[s] \in Seq(Seq(Cell))
  BY <1>6, Zenon DEF L3Type
<1>8. /\ batch \in Seq(Cell) /\ Tail(crypto_queue_[s]) \in Seq(Seq(Cell))
      /\ Range(batch) \subseteq All(crypto_queue_[s])
      /\ All(Tail(crypto_queue_[s])) \subseteq All(crypto_queue_[s])
  BY <1>0, <1>1, <1>7, AllTail, Zenon
<1> DEFINE h == OpsOf(batch)
<1>9. /\ h \in Seq(L3Op) /\ DOMAIN h = DOMAIN batch /\ \A i \in DOMAIN batch : h[i] = batch[i].op
  BY <1>8, OpsOfType, Zenon DEF OpsOf
<1> HIDE DEF h
<1>10. ASSUME NEW i \in DOMAIN batch
       PROVE  /\ batch[i].op \in L3Op /\ Plaintext(batch[i]) = Writes(batch[i].op)
              /\ Writes(batch[i].op) \in Values
  <2>1. batch[i] \in Cell /\ batch[i] \in Range(batch)
    BY <1>8, <1>10 DEF Range
  <2>2. batch[i].op.value = NoVal => batch[i].kv_response = encrypt(InitVal)
    BY <1>8, <2>1, Zenon DEF IInv, ReadInv
  <2>3. decrypt(encrypt(InitVal)) = InitVal
    BY DEF decrypt, encrypt
  <2>4. batch[i].op \in L3Op /\ batch[i].op.value \in Puts \cup {NoVal}
    BY <2>1 DEF Cell, L3Op
  <2>5. Plaintext(batch[i]) = Writes(batch[i].op)
    BY <2>2, <2>3, Zenon DEF Plaintext, Writes
  <2>6. Writes(batch[i].op) \in Values
    BY <2>4, Zenon DEF Writes, Values
  <2> QED  BY <2>4, <2>5, <2>6, Zenon
<1>11. /\ b \in Seq(L3Op) /\ DOMAIN b = DOMAIN h
       /\ \A i \in DOMAIN b : /\ b[i].label = h[i].label /\ b[i].value = h[i].value
                              /\ b[i].req = h[i].req /\ b[i].plaintext = Writes(h[i])
  <2>1. DOMAIN batch = 1..Len(batch) /\ Len(batch) \in Nat
    BY <1>8
  <2>2. ASSUME NEW i \in DOMAIN batch
        PROVE  /\ b[i] \in L3Op /\ b[i].label = h[i].label /\ b[i].value = h[i].value
               /\ b[i].req = h[i].req /\ b[i].plaintext = Writes(h[i])
    <3> DEFINE x == h[i]
               u == Writes(x)
    <3>1. b[i] = [x EXCEPT !.plaintext = u] /\ x \in L3Op /\ u \in Values
      BY <1>0, <1>9, <1>10, <2>2, Zenon
    <3> HIDE DEF x, u
    <3>2. /\ b[i] \in L3Op /\ b[i].label = x.label /\ b[i].value = x.value
          /\ b[i].req = x.req /\ b[i].plaintext = u
      BY <3>1 DEF L3Op
    <3> QED  BY <3>2, Zenon DEF x, u
  <2>3. DOMAIN b = DOMAIN batch /\ b = [i \in 1..Len(batch) |-> b[i]]
    BY <1>0, <2>1, Zenon
  <2>4. b \in Seq(L3Op)
    BY <2>1, <2>2, <2>3, IsSeq, Zenon
  <2> QED  BY <1>9, <2>2, <2>3, <2>4, Zenon
<1>12. /\ crypto_queue_'[s] = Tail(crypto_queue_[s]) /\ msets'[s] = Append(msets[s], b)
       /\ \A t \in Servers \ {s} : msets'[t] = msets[t] /\ crypto_queue_'[t] = crypto_queue_[t]
  BY <1>1, <1>6, Zenon DEF L3Type
<1> DEFINE k == CryptoOps(crypto_queue_[s])
<1>13. /\ k \in Seq(Seq(L3Op)) /\ k # <<>> /\ Head(k) = h /\ CryptoOps(crypto_queue_'[s]) = Tail(k)
       /\ Range(h) \subseteq All(k) /\ All(Tail(k)) \subseteq All(k)
  <2>1. k \in Seq(Seq(L3Op))
    BY <1>7, CryptoOpsType, Zenon
  <2>2. k # <<>> /\ Head(k) = h /\ CryptoOps(crypto_queue_'[s]) = Tail(k)
    BY <1>0, <1>1, <1>7, <1>12, CryptoTail, Zenon DEF h
  <2> HIDE DEF k
  <2> QED  BY <2>1, <2>2, AllTail, Zenon
<1>14. Append(msets[s], b) \in Seq(Seq(L3Op)) /\ All(msets'[s]) = All(msets[s]) \cup Range(b)
  <2>1. /\ Append(msets[s], b) \in Seq(Seq(L3Op))
        /\ All(Append(msets[s], b)) = All(msets[s]) \cup Range(b)
    BY <1>7, <1>11, AllAppend
  <2> QED  BY <1>12, <2>1, Zenon
<1>15. TypeInv'
  <2>1. msets' \in [Servers -> Seq(Seq(L3Op))] /\ crypto_queue_' \in [Servers -> Seq(Seq(Cell))]
    BY <1>1, <1>6, <1>8, <1>14, Zenon DEF L3Type
  <2>2. L3Type' /\ DoneType'
    BY <1>2, <1>6, <2>1, Zenon DEF L3Type, DoneType
  <2> QED  BY <1>4, <2>2, Zenon DEF TypeInv
<1>16. \A x \in Range(b) : Ahead(s, x) /\ x.plaintext = Writes(x)
  <2> SUFFICES ASSUME NEW i \in DOMAIN b
               PROVE  Ahead(s, b[i]) /\ b[i].plaintext = Writes(b[i])
    BY Zenon DEF Range
  <2>1. h[i] \in Range(h)
    BY <1>11, Zenon DEF Range
  <2>2. Ahead(s, h[i])
    BY <1>13, <2>1, Zenon DEF IInv, PipeInv, Taken
  <2>3. Writes(b[i]) = Writes(h[i]) /\ AgeOf(order, b[i]) = AgeOf(order, h[i])
    BY <1>11, Zenon DEF Writes, AgeOf
  <2>4. b[i].label = h[i].label /\ b[i].req = h[i].req /\ b[i].plaintext = Writes(b[i])
    BY <1>11, <2>3, Zenon
  <2>5. Forwarded(b[i])
    BY <2>2, <2>3, <2>4, Zenon DEF Ahead, Forwarded
  <2> QED  BY <2>2, <2>3, <2>4, <2>5, Zenon DEF Ahead
<1>17. PipeInv'
  <2>1. Taken(s)' \subseteq Taken(s) \cup Range(b)
    BY <1>2, <1>13, <1>14, Zenon DEF Taken
  <2>2. \A t \in Servers \ {s} : Taken(t)' = Taken(t)
    BY <1>2, <1>12, Zenon DEF Taken
  <2>3. \A t \in Servers : \A x \in Taken(t) : Ahead(t, x)
    BY Zenon DEF IInv, PipeInv
  <2>4. \A t \in Servers : \A x \in Taken(t)' : Ahead(t, x)'
    BY <1>5, <1>16, <2>1, <2>2, <2>3, Zenon
  <2> QED  BY <1>2, <1>5, <2>4, Zenon DEF IInv, PipeInv
<1>18. ExecutedInv'
  BY <1>2, <1>5, Zenon DEF IInv, ExecutedInv, Executed
<1>19. ReadInv'
  <2>1. \A t \in Servers : All(crypto_queue_'[t]) \subseteq All(crypto_queue_[t])
    BY <1>8, <1>12, Zenon
  <2>2. \A t \in Servers : \A x \in All(msets'[t]) : x.plaintext = Writes(x)
    BY <1>12, <1>14, <1>16, Zenon DEF IInv, ReadInv
  <2> QED  BY <2>1, <2>2, Zenon DEF IInv, ReadInv
<1>20. LineInv'
  <2> SUFFICES ASSUME NEW t \in Servers
               PROVE  Line(order, Connections(t), get_queue[t], mgets[t],
                           CryptoOps(crypto_queue_'[t]), msets'[t])
    BY <1>2, <1>3, Zenon DEF LineInv, Connections
  <2>1. Line(order, Connections(t), get_queue[t], mgets[t], CryptoOps(crypto_queue_[t]), msets[t])
    BY ServerLine, Zenon
  <2>2. CASE t # s
    BY <1>12, <2>1, <2>2, Zenon
  <2>3. CASE t = s
    <3>1. Line(order, Connections(s), get_queue[s], mgets[s], k, msets[s])
      BY <2>1, <2>3, Zenon
    <3> HIDE DEF k
    <3>2. Line(order, Connections(s), get_queue[s], mgets[s], Tail(k), Append(msets[s], b))
      BY <1>7, <1>11, <1>13, <3>1, LineCrypt, Zenon
    <3> QED  BY <1>12, <1>13, <2>3, <3>2, Zenon
  <2> QED  BY <2>2, <2>3, Zenon
<1> QED  BY <1>4, <1>5, <1>15, <1>17, <1>18, <1>19, <1>20, Zenon DEF IInv

\* Ages are natural numbers.
LEMMA AgeTypes ==
    ASSUME IInv
    PROVE  /\ \A l \in Labels : StoreAge(l) \in Nat
           /\ \A x : Forwarded(x) => x.label \in Labels /\ AgeOf(order, x) \in Nat
           /\ \A l \in Labels : \A p \in Range(order[l[1]]) : AgeIn(order[l[1]], p) \in Nat
<1>1. \A l \in Labels : l[1] \in Keys
  BY DEF Labels
<1>2. ASSUME NEW k \in Keys, NEW v \in Known(order[k])
      PROVE  AgeIn(order[k], v) \in Nat
  <2>1. order[k] \in Seq(Puts) /\ (\A i, j \in DOMAIN order[k] : order[k][i] = order[k][j] => i = j)
    BY Zenon DEF IInv, TypeInv, HistType, CacheInv
  <2>2. AgeIn(order[k], v) \in 0..Len(order[k])
    BY <1>2, <2>1, AgeIs, Zenon
  <2> QED  BY <2>2
<1>3. \A l \in Labels : StoreAge(l) \in Nat
  BY <1>1, <1>2, Zenon DEF IInv, CacheInv, StoreAge
<1>4. ASSUME NEW x, Forwarded(x)
      PROVE  x.label \in Labels /\ AgeOf(order, x) \in Nat
  <2>1. x.req \in Requests /\ x.label = label[x.req] /\ Writes(x) \in Known(order[x.label[1]])
    BY <1>4, Zenon DEF Forwarded
  <2>2. x.label \in Labels
    BY <2>1, Zenon DEF IInv, TypeInv, HistType
  <2> QED  BY <1>1, <1>2, <2>1, <2>2, Zenon DEF AgeOf
<1>5. \A l \in Labels : \A p \in Range(order[l[1]]) : AgeIn(order[l[1]], p) \in Nat
  BY <1>1, <1>2, Zenon DEF Known
<1> QED  BY <1>3, <1>4, <1>5, Zenon

\* Parts of queues.
LEMMA RangeConcat ==
    ASSUME NEW S, NEW q \in Seq(S), NEW r \in Seq(S)
    PROVE  q \o r \in Seq(S) /\ Range(q \o r) \subseteq Range(q) \cup Range(r)
<1>1. q \o r \in Seq(S) /\ Len(q \o r) = Len(q) + Len(r) /\ Len(q) \in Nat /\ Len(r) \in Nat
  OBVIOUS
<1>3. DOMAIN (q \o r) = 1..(Len(q) + Len(r)) /\ DOMAIN q = 1..Len(q) /\ DOMAIN r = 1..Len(r)
  BY <1>1
<1>4. \A i \in DOMAIN (q \o r) : \/ i \in DOMAIN q /\ (q \o r)[i] = q[i]
                                 \/ i - Len(q) \in DOMAIN r /\ (q \o r)[i] = r[i - Len(q)]
  <2> SUFFICES ASSUME NEW i \in 1..(Len(q) + Len(r))
               PROVE  \/ i \in 1..Len(q) /\ (q \o r)[i] = q[i]
                      \/ i - Len(q) \in 1..Len(r) /\ (q \o r)[i] = r[i - Len(q)]
    BY <1>3, Zenon
  <2>1. CASE i <= Len(q)
    BY <1>1, <2>1
  <2>2. CASE ~(i <= Len(q))
    BY <1>1, <2>2
  <2> QED  BY <2>1, <2>2, Zenon
<1>2. \A x \in Range(q \o r) : x \in Range(q) \/ x \in Range(r)
  BY <1>4, Zenon DEF Range
<1> QED  BY <1>1, <1>2, Zenon

LEMMA RangeSubSeq ==
    ASSUME NEW S, NEW q \in Seq(S), NEW a \in Nat, NEW b \in Nat, 1 <= a, b <= Len(q)
    PROVE  SubSeq(q, a, b) \in Seq(S) /\ Range(SubSeq(q, a, b)) \subseteq Range(q)
<1>1. /\ SubSeq(q, a, b) \in Seq(S)
      /\ \A i \in DOMAIN SubSeq(q, a, b) :
            a + i - 1 \in DOMAIN q /\ SubSeq(q, a, b)[i] = q[a + i - 1]
  OBVIOUS
<1> QED  BY <1>1, Zenon DEF Range

\* Full batches are no longer than the queue.
LEMMA FullBatches ==
    ASSUME NEW a \in Nat \ {0}, NEW n \in Nat
    PROVE  a * (n \div a) \in Nat /\ a * (n \div a) <= n
<1>1. /\ n \div a \in Nat /\ n = a * (n \div a) + (n % a) /\ n % a \in 0..(a - 1)
  OBVIOUS
<1>2. a * (n \div a) \in Nat
  BY <1>1
<1> DEFINE m == a * (n \div a)
<1>3. m \in Nat /\ n % a \in Nat /\ n = m + (n % a)
  BY <1>1, <1>2
<1> HIDE DEF m
<1>4. m <= n
  BY <1>3
<1> QED  BY <1>2, <1>4, Zenon DEF m

\* A put that was executed is in the store or was overwritten.
LEMMA BehindPut ==
    ASSUME IInv, NEW x, Behind(x), x.req \in Puts
    PROVE  /\ x.req \in Range(order[label[x.req][1]])
           /\ AgeIn(order[label[x.req][1]], x.req) <= StoreAge(label[x.req])
<1>1. /\ x.label = label[x.req] /\ Forwarded(x) /\ x.req \in Range(order[x.label[1]])
      /\ AgeIn(order[x.label[1]], x.req) <= AgeOf(order, x)
      /\ AgeOf(order, x) <= StoreAge(x.label)
  BY Zenon DEF Behind, Forwarded
<1> DEFINE a == AgeIn(order[x.label[1]], x.req)
           b == AgeOf(order, x)
           c == StoreAge(x.label)
<1>2. a \in Nat /\ b \in Nat /\ c \in Nat /\ a <= b /\ b <= c
  BY <1>1, AgeTypes, Zenon
<1> HIDE DEF a, b, c
<1>3. a <= c
  BY <1>2
<1> QED  BY <1>1, <1>3, Zenon DEF a, c

\* ResponderThread: the client is answered what the operation carries.
LEMMA ResponderThreadStep ==
    ASSUME IInv, NEW s \in Servers, ResponderThread(s), UNCHANGED config
    PROVE  IInv'
<1>0. PICK op, r : op = Head(respond_queue_[s]) /\ r = op.req
  BY Zenon
<1>1. /\ respond_queue_[s] # <<>> /\ respond_queue_' = [respond_queue_ EXCEPT ![s] = Tail(@)]
      /\ progress' = [progress EXCEPT ![r] = "answered"]
      /\ result' = [result EXCEPT ![r] = IF r \in Puts THEN NoVal ELSE op.plaintext]
  BY <1>0, Zenon DEF ResponderThread
<1>2. UNCHANGED <<chain_seq_no_, chain, running, cache, l3request, get_queue, mgets, crypto_queue_,
                  msets, msetReplies, ack_queues_, acked, kv, label, seen, order>>
  BY Zenon DEF ResponderThread, l2Vars
<1>3. L2Type /\ L3Type /\ DoneType /\ HistType
  BY Zenon DEF IInv, TypeInv
<1>4. respond_queue_[s] \in Seq(L3Op)
  BY <1>3, Zenon DEF DoneType
<1>5. /\ op \in L3Op /\ op \in Range(respond_queue_[s]) /\ Tail(respond_queue_[s]) \in Seq(L3Op)
      /\ Range(Tail(respond_queue_[s])) \subseteq Range(respond_queue_[s])
  BY <1>0, <1>1, <1>4, RangeTail, Zenon
<1>6. r \in Requests /\ op.plaintext \in Values \cup {NoVal}
  BY <1>0, <1>5 DEF L3Op
<1>7. Behind(op)
  BY <1>5, Zenon DEF IInv, ExecutedInv, Executed
<1>8. /\ progress[r] \in {"forwarded", "answered"} /\ op.plaintext = Writes(op)
      /\ r \in Gets => seen[r] = op.plaintext
  BY <1>0, <1>7, Zenon DEF Behind, Forwarded
<1>9. /\ progress'[r] = "answered" /\ \A o \in Requests \ {r} : progress'[o] = progress[o]
      /\ result'[r] = (IF r \in Puts THEN NoVal ELSE op.plaintext)
      /\ \A o \in Requests \ {r} : result'[o] = result[o]
  BY <1>1, <1>3, <1>6, Zenon DEF HistType
<1>10. TypeInv'
  <2>1. L2Type' /\ L3Type'
    BY <1>2, <1>3, Zenon DEF L2Type, L3Type
  <2>2. respond_queue_' \in [Servers -> Seq(L3Op)]
    BY <1>1, <1>3, <1>5, Zenon DEF DoneType
  <2>3. DoneType'
    BY <1>2, <1>3, <2>2, Zenon DEF DoneType
  <2>4. progress' \in [Requests -> {"idle", "submitted", "run", "forwarded", "answered"}]
    BY <1>1, <1>3, <1>6, Zenon DEF HistType
  <2>5. (IF r \in Puts THEN NoVal ELSE op.plaintext) \in Values \cup {NoVal}
    BY <1>6, Zenon
  <2>6. result' \in [Requests -> Values \cup {NoVal}]
    BY <1>1, <1>3, <1>6, <2>5, Zenon DEF HistType
  <2>7. HistType'
    BY <1>2, <1>3, <2>4, <2>6, Zenon DEF HistType
  <2> QED  BY <2>1, <2>3, <2>7, Zenon DEF TypeInv
<1>11. /\ \A t, x : Ahead(t, x) => Ahead(t, x)'
       /\ \A x : Behind(x) => Behind(x)'
  <2>1. \A o \in Requests : progress[o] \in {"forwarded", "answered"}
            => progress'[o] \in {"forwarded", "answered"} /\ seen'[o] = seen[o]
    BY <1>2, <1>9, Zenon
  <2> QED  BY <1>2, <2>1, ForwardedStays, Zenon
<1>12. LineInv' /\ PipeInv' /\ ReadInv'
  <2>1. PipeInv'
    BY <1>2, <1>11, Zenon DEF IInv, PipeInv, Taken
  <2>2. LineInv'
    BY <1>2, Zenon DEF IInv, LineInv, Connections
  <2>3. ReadInv'
    BY <1>2, Zenon DEF IInv, ReadInv
  <2> QED  BY <2>1, <2>2, <2>3, Zenon
<1>13. ExecutedInv'
  <2>1. /\ respond_queue_'[s] = Tail(respond_queue_[s])
        /\ \A t \in Servers \ {s} : respond_queue_'[t] = respond_queue_[t]
    BY <1>1, <1>3, Zenon DEF DoneType
  <2>2. \A t \in Servers : Executed(t)' \subseteq Executed(t)
    BY <1>2, <1>5, <2>1, Zenon DEF Executed
  <2>3. \A t \in Servers : \A x \in Executed(t) : Behind(x)
    BY Zenon DEF IInv, ExecutedInv
  <2>4. \A t \in Servers : \A x \in Executed(t)' : Behind(x)'
    BY <1>11, <2>2, <2>3, Zenon
  <2> QED  BY <2>4, Zenon DEF ExecutedInv
<1>14. CacheInv'
  <2>1. \A k \in Keys : \A p \in Range(order[k]) : progress'[p] \notin {"idle", "submitted"}
    <3> SUFFICES ASSUME NEW k \in Keys, NEW p \in Range(order[k])
                 PROVE  progress'[p] \notin {"idle", "submitted"}
      BY Zenon
    <3>1. order[k] \in Seq(Puts)
      BY <1>3, Zenon DEF HistType
    <3>2. p \in Requests
      BY <3>1, RangeType, Zenon DEF Requests
    <3>3. progress[p] \notin {"idle", "submitted"}
      BY Zenon DEF IInv, CacheInv
    <3> QED  BY <1>9, <3>2, <3>3
  <2> QED  BY <1>2, <2>1, Zenon DEF IInv, CacheInv
<1>15. ChainInv'
  <2> SUFFICES ASSUME NEW w \in Workers
               PROVE  /\ OnChain(chain[w], label, progress', w)
                      /\ IsRunning(running[w], label, progress', order, w)
    BY <1>2, Zenon DEF ChainInv
  <2>1. OnChain(chain[w], label, progress, w) /\ IsRunning(running[w], label, progress, order, w)
    BY Zenon DEF IInv, ChainInv
  <2>2. chain[w] \in Seq(L2Op) /\ running[w] \in Seq(L2Op)
    BY <1>3, Zenon DEF L2Type
  <2>3. /\ \A i \in DOMAIN chain[w] : chain[w][i].req \in Requests
        /\ \A i \in DOMAIN running[w] : running[w][i].req \in Requests
    BY <2>2, L2OpReq, Zenon
  <2>4. \A i \in DOMAIN chain[w] : progress'[chain[w][i].req] = progress[chain[w][i].req]
    <3>1. \A i \in DOMAIN chain[w] : chain[w][i].req # r
      BY <1>8, <2>1 DEF OnChain
    <3> QED  BY <1>9, <2>3, <3>1, Zenon
  <2>5. \A i \in DOMAIN running[w] : progress'[running[w][i].req] = progress[running[w][i].req]
    <3>1. \A i \in DOMAIN running[w] : running[w][i].req # r
      BY <1>8, <2>1 DEF IsRunning
    <3> QED  BY <1>9, <2>3, <3>1, Zenon
  <2>6. OnChain(chain[w], label, progress', w)
    BY <2>1, <2>4, OnChainStays, Zenon
  <2>7. IsRunning(running[w], label, progress', order, w)
    BY <2>1, <2>5, Zenon DEF IsRunning
  <2> QED  BY <2>6, <2>7, Zenon
<1>16. AnswerInv'
  <2>1. \A l : StoreAge(l)' = StoreAge(l)
    BY <1>2, Zenon DEF StoreAge
  <2>2. ASSUME NEW p \in Puts, progress'[p] = "answered" \/ (\E w \in Workers : p \in acked[w])
        PROVE  /\ p \in Range(order[label[p][1]])
               /\ AgeIn(order[label[p][1]], p) <= StoreAge(label[p])
    <3>1. CASE p = r
      BY <1>0, <1>7, <3>1, BehindPut, Zenon
    <3>2. CASE p # r
      <4>1. p \in Requests
        BY Zenon DEF Requests
      <4>2. progress'[p] = progress[p]
        BY <1>9, <3>2, <4>1, Zenon
      <4> QED  BY <2>2, <4>2, Zenon DEF IInv, AnswerInv
    <3> QED  BY <3>1, <3>2, Zenon
  <2>3. ASSUME NEW g \in Gets, progress'[g] = "answered"
        PROVE  result'[g] = seen[g]
    <3>1. CASE g = r
      <4>1. g \notin Puts
        BY StorageAssumption, Zenon
      <4> QED  BY <1>8, <1>9, <3>1, <4>1, Zenon
    <3>2. CASE g # r
      <4>1. g \in Requests
        BY Zenon DEF Requests
      <4>2. progress'[g] = progress[g] /\ result'[g] = result[g]
        BY <1>9, <3>2, <4>1, Zenon
      <4> QED  BY <2>3, <4>2, Zenon DEF IInv, AnswerInv
    <3> QED  BY <3>1, <3>2, Zenon
  <2> QED  BY <1>2, <2>1, <2>2, <2>3, Zenon DEF AnswerInv
<1> QED  BY <1>10, <1>12, <1>13, <1>14, <1>15, <1>16, Zenon DEF IInv

-----------------------------------------------------------------------------
(***************************************************************************)
(* The invariant holds at first and is preserved                           *)
(***************************************************************************)

\* Nothing has been submitted yet: all queues are empty.
LEMMA InitIInv == Init => IInv
<1> SUFFICES ASSUME Init PROVE IInv
  OBVIOUS
<1>1. \A S : <<>> \in Seq(S) /\ Len(<<>>) = 0 /\ DOMAIN <<>> = {}
  OBVIOUS
<1>2. Range(<<>>) = {} /\ All(<<>>) = {}
  BY RangeType, Zenon
<1>3. 0 \in Nat /\ 0 <= 1
  OBVIOUS
<1>4. TypeInv
  <2>1. L2Type
    BY <1>1, <1>3, Zenon DEF Init, L2Type
  <2>2. L3Type
    BY <1>1, Zenon DEF Init, L3Type
  <2>3. encrypt(InitVal) \in [cipher : Values]
    BY DEF encrypt, Values
  <2>4. DoneType
    BY <1>1, <2>3, Zenon DEF Init, DoneType
  <2>5. HistType
    BY <1>1, Zenon DEF Init, HistType
  <2> QED  BY <2>1, <2>2, <2>4, <2>5, Zenon DEF TypeInv
<1>5. CryptoOps(<<>>) = <<>>
  BY <1>1 DEF CryptoOps
<1>6. \A s \in Servers :
         /\ \A w \in Workers : l3request[w][s] = <<>> /\ ack_queues_[s][w] = <<>>
         /\ get_queue[s] = <<>> /\ mgets[s] = <<>> /\ crypto_queue_[s] = <<>> /\ msets[s] = <<>>
         /\ msetReplies[s] = <<>> /\ respond_queue_[s] = <<>>
  BY Zenon DEF Init
<1>7. LineInv
  <2> SUFFICES ASSUME NEW s \in Servers
               PROVE  Line(order, Connections(s), get_queue[s], mgets[s],
                           CryptoOps(crypto_queue_[s]), msets[s])
    BY Zenon DEF LineInv
  <2>1. InLine(order, <<>>) /\ BatchesInLine(order, <<>>)
    BY <1>1, Zenon DEF InLine, BatchesInLine
  <2>2. \A w \in Workers : Connections(s)[w] = <<>>
    BY <1>6, Zenon DEF Connections
  <2>3. \A S : Before(order, S, {}) /\ Before(order, {}, S)
    BY Zenon DEF Before
  <2>4. Conn(Connections(s)) = {}
    BY <1>2, <2>2, Zenon DEF Conn
  <2>5. {} \cup {} = {}
    OBVIOUS
  <2> QED  BY <1>2, <1>5, <1>6, <2>1, <2>2, <2>3, <2>4, <2>5, Zenon DEF Line
<1>8. PipeInv /\ ExecutedInv /\ ReadInv
  <2>1. \A s \in Servers : Taken(s) = {}
    BY <1>2, <1>5, <1>6, Zenon DEF Taken
  <2>2. \A s \in Servers : Executed(s) = {}
    BY <1>2, <1>6, Zenon DEF Executed, Conn
  <2>3. PipeInv
    BY <1>2, <1>6, <2>1, Zenon DEF PipeInv
  <2>4. ExecutedInv
    BY <2>2, Zenon DEF ExecutedInv
  <2>5. ReadInv
    BY <1>2, <1>6, Zenon DEF ReadInv
  <2> QED  BY <2>3, <2>4, <2>5, Zenon
<1>9. CacheInv
  <2>1. \A k \in Keys : order[k] = <<>> /\ cache[k] = NoVal
    BY Zenon DEF Init
  <2>2. \A l \in Labels : decrypt(kv[l]) = InitVal
    BY DEF Init, encrypt, decrypt
  <2>3. \A l \in Labels : decrypt(kv[l]) \in Known(order[l[1]])
    BY <2>2, Zenon DEF Known
  <2> QED  BY <1>1, <1>2, <2>1, <2>3, Zenon DEF CacheInv
<1>10. ChainInv
  <2>1. \A w \in Workers : chain[w] = <<>> /\ running[w] = <<>>
    BY Zenon DEF Init
  <2> QED  BY <1>1, <2>1, Zenon DEF ChainInv, OnChain, IsRunning
<1>11. AnswerInv
  <2>1. \A o \in Requests : progress[o] # "answered"
    BY DEF Init
  <2>2. \A w \in Workers : acked[w] = {}
    BY Zenon DEF Init
  <2> QED  BY <2>1, <2>2, Zenon DEF AnswerInv, Requests
<1> QED  BY <1>4, <1>7, <1>8, <1>9, <1>10, <1>11, Zenon DEF IInv

-----------------------------------------------------------------------------
(***************************************************************************)
(* The requests of the clients are atomic                                  *)
(***************************************************************************)

\* How far the register sees a request whose progress is p.
StatusOf(o, p) ==
    IF o \in Gets /\ p = "run" THEN "invoked"
    ELSE CASE p = "idle" -> "idle"
           [] p = "submitted" -> "invoked"
           [] p \in {"run", "forwarded"} -> "applied"
           [] p = "answered" -> "answered"

LEMMA StatusIs ==
    /\ \A o : Status(o) = StatusOf(o, progress[o]) /\ Status(o)' = StatusOf(o, progress'[o])
    /\ \A o : StatusOf(o, "idle") = "idle"
    /\ \A o : StatusOf(o, "submitted") = "invoked"
    /\ \A o \in Gets : StatusOf(o, "run") = "invoked"
    /\ \A o \in Puts : StatusOf(o, "run") = "applied"
    /\ \A o : StatusOf(o, "forwarded") = "applied"
    /\ \A o : StatusOf(o, "answered") = "answered"
<1>1. \A o : Status(o) = StatusOf(o, progress[o]) /\ Status(o)' = StatusOf(o, progress'[o])
  BY Zenon DEF Status, StatusOf
<1>2. \A o \in Puts : o \notin Gets
  BY StorageAssumption, Zenon
<1>3. /\ \A o : StatusOf(o, "idle") = "idle"
      /\ \A o : StatusOf(o, "submitted") = "invoked"
      /\ \A o \in Gets : StatusOf(o, "run") = "invoked"
      /\ \A o \in Puts : StatusOf(o, "run") = "applied"
  BY <1>2 DEF StatusOf
<1>4. /\ \A o : StatusOf(o, "forwarded") = "applied"
      /\ \A o : StatusOf(o, "answered") = "answered"
  BY DEF StatusOf
<1> QED  BY <1>1, <1>3, <1>4, Zenon

LEMMA RegisterInit ==
    ASSUME Init, IInv
    PROVE  R!Init
<1>1. \A k \in Keys : cache[k] = NoVal
  BY Zenon DEF Init
<1>2. \A o \in Puts \cup Gets : progress[o] = "idle" /\ seen[o] = NoVal /\ label[o][1] \in Keys
  <2>1. \A o \in Requests : progress[o] = "idle" /\ seen[o] = NoVal
    BY Zenon DEF Init
  <2>2. \A o \in Requests : label[o] \in Labels
    BY Zenon DEF IInv, TypeInv, HistType
  <2>3. \A l \in Labels : l[1] \in Keys
    BY DEF Labels
  <2> QED  BY <2>1, <2>2, <2>3, Zenon DEF Requests
<1>3. \A o \in Puts \cup Gets : Status(o) = "idle" /\ Returned(o) = NoVal
  <2>1. \A o \in Puts \cup Gets : progress[o] # "answered"
    BY <1>2
  <2> QED  BY <1>2, <2>1, StatusIs, Zenon DEF Returned
<1>4. [k \in Keys |-> IF cache[k] = NoVal THEN InitVal ELSE cache[k]] = [k \in Keys |-> InitVal]
  BY <1>1, Zenon
<1>5. /\ [o \in Puts \cup Gets |-> Status(o)] = [o \in Puts \cup Gets |-> "idle"]
      /\ [o \in Puts \cup Gets |-> Returned(o)] = [o \in Puts \cup Gets |-> NoVal]
      /\ [o \in Puts \cup Gets |-> label[o][1]] \in [Puts \cup Gets -> Keys]
  BY <1>2, <1>3, Zenon
<1> QED  BY <1>4, <1>5, Zenon DEF R!Init, R!Requests

\* A step that changes neither the cache nor a request's status is none of the
\* register; the others change the status of one request.
LEMMA RegisterSame ==
    ASSUME UNCHANGED <<cache, label>>,
           \A o \in Puts \cup Gets : Status(o)' = Status(o) /\ Returned(o)' = Returned(o)
    PROVE  UNCHANGED R!vars
<1>1. /\ [k \in Keys |-> IF cache'[k] = NoVal THEN InitVal ELSE cache'[k]]
            = [k \in Keys |-> IF cache[k] = NoVal THEN InitVal ELSE cache[k]]
      /\ [o \in Puts \cup Gets |-> label'[o][1]] = [o \in Puts \cup Gets |-> label[o][1]]
  BY Zenon
<1>2. /\ [o \in Puts \cup Gets |-> Status(o)'] = [o \in Puts \cup Gets |-> Status(o)]
      /\ [o \in Puts \cup Gets |-> Returned(o)'] = [o \in Puts \cup Gets |-> Returned(o)]
  BY Zenon
<1> QED  BY <1>1, <1>2, Zenon DEF R!vars

\* A step that moves one request; what that request returns is compared apart.
LEMMA OneMoves ==
    ASSUME IInv, NEW r, NEW v, progress' = [progress EXCEPT ![r] = v], UNCHANGED seen,
           \A o \in Puts \cup Gets : o # r => result'[o] = result[o]
    PROVE  \A o \in Puts \cup Gets :
              /\ o = r => progress'[o] = v
              /\ o # r => Status(o)' = Status(o) /\ Returned(o)' = Returned(o)
<1> SUFFICES ASSUME NEW o \in Puts \cup Gets
             PROVE  /\ o = r => progress'[o] = v
                    /\ o # r => Status(o)' = Status(o) /\ Returned(o)' = Returned(o)
  BY Zenon
<1>1. o \in Requests
  BY Zenon DEF Requests
<1>2. progress'[o] = IF o = r THEN v ELSE progress[o]
  BY <1>1, Zenon DEF IInv, TypeInv, HistType
<1>3. CASE o # r
  <2>1. progress'[o] = progress[o] /\ result'[o] = result[o] /\ seen'[o] = seen[o]
    BY <1>2, <1>3, Zenon
  <2>2. Returned(o)' = Returned(o)
    BY <2>1, Zenon DEF Returned
  <2>3. Status(o)' = Status(o)
    BY <2>1, StatusIs, Zenon
  <2> QED  BY <1>3, <2>2, <2>3, Zenon
<1> QED  BY <1>2, <1>3, Zenon

\* Submit invokes a request.
LEMMA SubmitRegister ==
    ASSUME IInv, NEW o \in Requests, Submit(o)
    PROVE  [R!Next]_(R!vars)
<1>1. /\ progress[o] = "idle" /\ progress' = [progress EXCEPT ![o] = "submitted"]
      /\ UNCHANGED <<cache, label, seen, result>>
  BY Zenon DEF Submit
<1>2. \A r \in Puts \cup Gets :
         /\ r = o => progress'[r] = "submitted"
         /\ r # o => Status(r)' = Status(r) /\ Returned(r)' = Returned(r)
  BY <1>1, OneMoves, Zenon
<1>3. CASE o \in Puts \cup Gets
  <2>1. Status(o) = "idle" /\ Status(o)' = "invoked"
    BY <1>1, <1>2, <1>3, StatusIs, Zenon
  <2>2. Returned(o)' = Returned(o)
    <3>1. progress[o] # "answered" /\ progress'[o] # "answered" /\ seen'[o] = seen[o]
      BY <1>1, <1>2, <1>3
    <3> QED  BY <3>1, Zenon DEF Returned
  <2>3. [r \in Puts \cup Gets |-> Status(r)']
           = [[r \in Puts \cup Gets |-> Status(r)] EXCEPT ![o] = "invoked"]
    BY <1>2, <1>3, <2>1, Zenon
  <2>4. [r \in Puts \cup Gets |-> Returned(r)'] = [r \in Puts \cup Gets |-> Returned(r)]
    BY <1>2, <2>2, Zenon
  <2>5. /\ [k \in Keys |-> IF cache'[k] = NoVal THEN InitVal ELSE cache'[k]]
              = [k \in Keys |-> IF cache[k] = NoVal THEN InitVal ELSE cache[k]]
        /\ [r \in Puts \cup Gets |-> label'[r][1]] = [r \in Puts \cup Gets |-> label[r][1]]
    BY <1>1, Zenon
  <2>6. [r \in Puts \cup Gets |-> Status(r)][o] = "idle"
    BY <1>3, <2>1, Zenon
  <2>7. R!Invoke(o)
    BY <2>3, <2>4, <2>5, <2>6, Zenon DEF R!Invoke
  <2> QED  BY <1>3, <2>7, Zenon DEF R!Next, R!Requests
<1>4. CASE o \notin Puts \cup Gets
  BY <1>1, <1>2, <1>4, RegisterSame, Zenon
<1> QED  BY <1>3, <1>4, Zenon

\* RunCommand applies a put.
LEMMA RunCommandRegister ==
    ASSUME UpdateCacheEnabled, IInv, NEW w \in Workers, RunCommand(w)
    PROVE  [R!Next]_(R!vars)
<1>0. PICK op, o, k : op = Head(chain[w]) /\ o = op.req /\ k = op.label[1]
  BY Zenon
<1>1. /\ chain[w] # <<>> /\ progress' = [progress EXCEPT ![o] = "run"]
      /\ o \in Puts => cache' = [cache EXCEPT ![k] = o]
      /\ o \notin Puts => cache' = cache
      /\ UNCHANGED <<label, seen, result>>
  BY <1>0, Zenon DEF RunCommand
<1>2. /\ k = label[o][1] /\ progress[o] = "submitted" /\ o \in Requests /\ k \in Keys
  <2>1. LET h == Head(chain[w])
        IN  /\ h.label = label[h.req] /\ progress[h.req] = "submitted"
            /\ h.req \in Requests /\ h.label[1] \in Keys
    BY <1>1, ChainHead, Zenon
  <2> QED  BY <1>0, <2>1
<1>3. \A r \in Puts \cup Gets :
         /\ r = o => progress'[r] = "run"
         /\ r # o => Status(r)' = Status(r) /\ Returned(r)' = Returned(r)
  BY <1>1, OneMoves, Zenon
<1>4. o \in Puts \cup Gets => Returned(o)' = Returned(o)
  <2>1. o \in Puts \cup Gets =>
          progress[o] # "answered" /\ progress'[o] # "answered" /\ seen'[o] = seen[o]
    BY <1>1, <1>2, <1>3
  <2> QED  BY <2>1, Zenon DEF Returned
<1>5. CASE o \in Puts
  <2>1. Status(o) = "invoked" /\ Status(o)' = "applied"
    BY <1>2, <1>3, <1>5, StatusIs, Zenon
  <2>2. [r \in Puts \cup Gets |-> Status(r)']
           = [[r \in Puts \cup Gets |-> Status(r)] EXCEPT ![o] = "applied"]
    BY <1>3, <1>5, <2>1, Zenon
  <2>3. [r \in Puts \cup Gets |-> Returned(r)'] = [r \in Puts \cup Gets |-> Returned(r)]
    BY <1>3, <1>4, Zenon
  <2>4. /\ [r \in Puts \cup Gets |-> label'[r][1]] = [r \in Puts \cup Gets |-> label[r][1]]
        /\ [r \in Puts \cup Gets |-> label[r][1]][o] = k
        /\ [r \in Puts \cup Gets |-> Status(r)][o] = "invoked"
    BY <1>1, <1>2, <1>5, <2>1, Zenon
  <2>5. \A j \in Keys : cache'[j] = IF j = k THEN o ELSE cache[j]
    BY <1>1, <1>2, <1>5, Zenon DEF IInv, TypeInv, L2Type
  <2>6. o # NoVal
    BY <1>5, StorageAssumption, Zenon DEF Values
  <2>7. [j \in Keys |-> IF cache'[j] = NoVal THEN InitVal ELSE cache'[j]]
           = [[j \in Keys |-> IF cache[j] = NoVal THEN InitVal ELSE cache[j]] EXCEPT ![k] = o]
    <3> DEFINE f == [j \in Keys |-> IF cache[j] = NoVal THEN InitVal ELSE cache[j]]
               g == [j \in Keys |-> IF cache'[j] = NoVal THEN InitVal ELSE cache'[j]]
    <3>1. \A j \in Keys : g[j] = IF j = k THEN o ELSE f[j]
      BY <2>5, <2>6
    <3>2. f = [j \in Keys |-> f[j]] /\ g = [j \in Keys |-> g[j]]
      BY Zenon
    <3> HIDE DEF f, g
    <3>3. g = [f EXCEPT ![k] = o]
      BY <3>1, <3>2, Zenon
    <3> QED  BY <3>3, Zenon DEF f, g
  <2>8. R!Apply(o)
    BY <1>5, <2>2, <2>3, <2>4, <2>7, Zenon DEF R!Apply
  <2> QED  BY <1>5, <2>8, Zenon DEF R!Next, R!Requests
<1>6. CASE o \notin Puts
  <2>1. o \in Gets => Status(o)' = Status(o)
    BY <1>2, <1>3, StatusIs, Zenon
  <2>2. \A r \in Puts \cup Gets : Status(r)' = Status(r) /\ Returned(r)' = Returned(r)
    BY <1>3, <1>4, <1>6, <2>1, Zenon
  <2>3. UNCHANGED R!vars
    BY <1>1, <1>6, <2>2, RegisterSame, Zenon
  <2> QED  BY <2>3, Zenon
<1> QED  BY <1>5, <1>6, Zenon

\* ForwardRequest applies a get.
LEMMA ForwardRequestRegister ==
    ASSUME IInv, NEW w \in Workers, ForwardRequest(w)
    PROVE  [R!Next]_(R!vars)
<1>0. PICK op, o, k, v : /\ op = Head(running[w]) /\ o = op.req /\ k = op.label[1]
                         /\ v = IF cache[k] = NoVal THEN InitVal ELSE cache[k]
  BY Zenon
<1>1. /\ running[w] # <<>> /\ progress' = [progress EXCEPT ![o] = "forwarded"]
      /\ seen' = [seen EXCEPT ![o] = v]
      /\ UNCHANGED <<cache, label, result>>
  BY <1>0, Zenon DEF ForwardRequest
<1>2. /\ k = label[o][1] /\ progress[o] = "run" /\ o \in Requests /\ k \in Keys
  <2>1. LET h == Head(running[w])
        IN  /\ h.label = label[h.req] /\ progress[h.req] = "run"
            /\ h.req \in Requests /\ h.label[1] \in Keys
    BY <1>1, RunningHead, Zenon
  <2> QED  BY <1>0, <2>1
<1>3. \A r \in Puts \cup Gets :
         /\ progress'[r] = IF r = o THEN "forwarded" ELSE progress[r]
         /\ seen'[r] = IF r = o THEN v ELSE seen[r]
  <2>1. progress \in [Requests -> {"idle", "submitted", "run", "forwarded", "answered"}]
        /\ seen \in [Requests -> Values \cup {NoVal}]
    BY Zenon DEF IInv, TypeInv, HistType
  <2>2. \A r \in Puts \cup Gets : r \in Requests
    BY Zenon DEF Requests
  <2> QED  BY <1>1, <2>1, <2>2, Zenon
<1>4. \A r \in Puts \cup Gets : r # o => Status(r)' = Status(r) /\ Returned(r)' = Returned(r)
  <2>1. \A r \in Puts \cup Gets : r # o => Status(r)' = Status(r)
    BY <1>3, StatusIs, Zenon
  <2>2. \A r \in Puts \cup Gets : r # o => Returned(r)' = Returned(r)
    BY <1>1, <1>3, Zenon DEF Returned
  <2> QED  BY <2>1, <2>2, Zenon
<1>5. CASE o \in Gets
  <2>1. Status(o) = "invoked" /\ Status(o)' = "applied"
    BY <1>2, <1>3, <1>5, StatusIs, Zenon
  <2>2. Returned(o)' = v
    <3>1. o \notin Puts
      BY <1>5, StorageAssumption, Zenon
    <3>2. progress'[o] # "answered" /\ seen'[o] = v
      BY <1>3, <1>5
    <3> QED  BY <3>1, <3>2, Zenon DEF Returned
  <2>3. [r \in Puts \cup Gets |-> Status(r)']
           = [[r \in Puts \cup Gets |-> Status(r)] EXCEPT ![o] = "applied"]
    BY <1>4, <1>5, <2>1, Zenon
  <2>4. [r \in Puts \cup Gets |-> Returned(r)']
           = [[r \in Puts \cup Gets |-> Returned(r)] EXCEPT ![o] = v]
    BY <1>4, <1>5, <2>2, Zenon
  <2>5. /\ [r \in Puts \cup Gets |-> label'[r][1]] = [r \in Puts \cup Gets |-> label[r][1]]
        /\ [r \in Puts \cup Gets |-> label[r][1]][o] = k
        /\ [r \in Puts \cup Gets |-> Status(r)][o] = "invoked"
    BY <1>1, <1>2, <1>5, <2>1, Zenon
  <2>6. /\ [j \in Keys |-> IF cache[j] = NoVal THEN InitVal ELSE cache[j]][k] = v
        /\ [j \in Keys |-> IF cache'[j] = NoVal THEN InitVal ELSE cache'[j]]
              = [j \in Keys |-> IF cache[j] = NoVal THEN InitVal ELSE cache[j]]
    BY <1>0, <1>1, <1>2, Zenon
  <2>7. o \notin Puts
    BY <1>5, StorageAssumption, Zenon
  <2>8. R!Apply(o)
    BY <2>3, <2>4, <2>5, <2>6, <2>7, Zenon DEF R!Apply
  <2> QED  BY <1>5, <2>8, Zenon DEF R!Next, R!Requests
<1>6. CASE o \notin Gets
  <2>1. o \in Puts => Status(o)' = Status(o) /\ Returned(o)' = Returned(o)
    <3>1. o \in Puts => Status(o)' = Status(o)
      BY <1>2, <1>3, StatusIs, Zenon
    <3> QED  BY <3>1, Zenon DEF Returned
  <2>2. UNCHANGED R!vars
    BY <1>1, <1>4, <1>6, <2>1, RegisterSame, Zenon
  <2> QED  BY <2>2, Zenon
<1> QED  BY <1>5, <1>6, Zenon

\* ResponderThread answers a request.
LEMMA ResponderRegister ==
    ASSUME IInv, NEW s \in Servers, ResponderThread(s)
    PROVE  [R!Next]_(R!vars)
<1>0. PICK op, o : op = Head(respond_queue_[s]) /\ o = op.req
  BY Zenon
<1>1. /\ respond_queue_[s] # <<>> /\ progress' = [progress EXCEPT ![o] = "answered"]
      /\ result' = [result EXCEPT ![o] = IF o \in Puts THEN NoVal ELSE op.plaintext]
      /\ UNCHANGED <<cache, label, seen>>
  BY <1>0, Zenon DEF ResponderThread, l2Vars
<1>2. Behind(op)
  <2>1. respond_queue_[s] \in Seq(L3Op)
    BY Zenon DEF IInv, TypeInv, DoneType
  <2>2. op \in Range(respond_queue_[s])
    BY <1>0, <1>1, <2>1, RangeTail, Zenon
  <2> QED  BY <2>2, Zenon DEF IInv, ExecutedInv, Executed
<1>3. /\ o \in Requests /\ progress[o] \in {"forwarded", "answered"}
      /\ o \in Gets => seen[o] = op.plaintext
  BY <1>0, <1>2, Zenon DEF Behind, Forwarded
<1>4. result'[o] = (IF o \in Puts THEN NoVal ELSE op.plaintext)
      /\ \A r \in Requests : r # o => result'[r] = result[r]
  BY <1>1, <1>3, Zenon DEF IInv, TypeInv, HistType
<1>5. \A r \in Puts \cup Gets : r # o => result'[r] = result[r]
  BY <1>4, Zenon DEF Requests
<1>6. \A r \in Puts \cup Gets :
         /\ r = o => progress'[r] = "answered"
         /\ r # o => Status(r)' = Status(r) /\ Returned(r)' = Returned(r)
  BY <1>1, <1>5, OneMoves, Zenon
<1>7. o \in Puts \cup Gets => Returned(o)' = Returned(o)
  <2>1. CASE o \in Puts
    BY <2>1, Zenon DEF Returned
  <2>2. CASE o \in Gets
    <3>1. o \notin Puts
      BY <2>2, StorageAssumption, Zenon
    <3>2. Returned(o)' = seen[o]
      BY <1>3, <1>4, <1>6, <2>2, <3>1, Zenon DEF Returned
    <3>3. Returned(o) = seen[o]
      BY <2>2, <3>1, Zenon DEF Returned, IInv, AnswerInv
    <3> QED  BY <3>2, <3>3, Zenon
  <2> QED  BY <2>1, <2>2, Zenon
<1>8. CASE o \in Puts \cup Gets /\ progress[o] = "forwarded"
  <2>1. Status(o) = "applied" /\ Status(o)' = "answered"
    BY <1>6, <1>8, StatusIs, Zenon
  <2>2. [r \in Puts \cup Gets |-> Status(r)']
           = [[r \in Puts \cup Gets |-> Status(r)] EXCEPT ![o] = "answered"]
    BY <1>6, <1>8, <2>1, Zenon
  <2>3. [r \in Puts \cup Gets |-> Returned(r)'] = [r \in Puts \cup Gets |-> Returned(r)]
    BY <1>6, <1>7, Zenon
  <2>4. /\ [k \in Keys |-> IF cache'[k] = NoVal THEN InitVal ELSE cache'[k]]
              = [k \in Keys |-> IF cache[k] = NoVal THEN InitVal ELSE cache[k]]
        /\ [r \in Puts \cup Gets |-> label'[r][1]] = [r \in Puts \cup Gets |-> label[r][1]]
    BY <1>1, Zenon
  <2>5. [r \in Puts \cup Gets |-> Status(r)][o] = "applied"
    BY <1>8, <2>1, Zenon
  <2>6. R!Answer(o)
    BY <2>2, <2>3, <2>4, <2>5, Zenon DEF R!Answer
  <2> QED  BY <1>8, <2>6, Zenon DEF R!Next, R!Requests
<1>9. CASE ~(o \in Puts \cup Gets /\ progress[o] = "forwarded")
  <2>1. o \in Puts \cup Gets => Status(o)' = Status(o)
    BY <1>3, <1>6, <1>9, StatusIs, Zenon
  <2>2. UNCHANGED R!vars
    BY <1>1, <1>6, <1>7, <2>1, RegisterSame, Zenon
  <2> QED  BY <2>2, Zenon
<1> QED  BY <1>8, <1>9, Zenon
=============================================================================
