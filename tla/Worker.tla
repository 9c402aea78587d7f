------------------------------- MODULE Worker -------------------------------
(***************************************************************************)
(* One worker of a proxy process as its peers see it: the Thrift server in *)
(* front of a proxy object, the handler that turns messages into calls of  *)
(* the proxy, the registry of clients to answer, and the peers at the      *)
(* other ends of its connections (clients of libclient, the neighbouring   *)
(* layers, the chain predecessor, the manager).                            *)
(*                                                                         *)
(* The server runs one handler at a time (one manager thread) and takes    *)
(* the next message of a connection only when the previous one is          *)
(* finished.  A reply is written by its IO thread after the handler        *)
(* returned; an answer to a client and an acknowledgement to the chain     *)
(* predecessor are written by other threads directly to the socket.        *)
(***************************************************************************)
EXTENDS ThriftServices, FiniteSets

CONSTANTS Conns,      \* connections of the worker
          MaxCalls,   \* calls a peer makes on a connection
          Strings     \* keys and values

VARIABLES
  kind,           \* which handler serves: "L1", "L2", "L3" or "pancake"
  peer,           \* peer[c]: who is at the other end of c
  inbox, outbox,  \* frames in flight to the worker and to the peer
  writing,        \* writing[c]: the reply the IO thread has yet to write
  alive,          \* the process has not exited
  client_id_gen_, \* handler factory: next client id
  clients_,       \* thrift_response_client_map: <<client id, connection>>
  prev_,          \* connections the chain's acknowledgements go to
  unacked,        \* chain requests the proxy has yet to acknowledge
  owed,           \* answers the proxy has yet to give
  sent, handled,  \* calls made by the peer, and seen by the handler
  waiting,        \* waiting[c]: the stub that waits for a reply, or none
  returned,       \* outcomes of the calls that have a reply
  id,             \* id[c]: the client id of the peer, once it has one
  closed,         \* connections the peer has closed
  requests_,      \* requests_[c]: answers an async_proxy_client has yet to wait for
  got,            \* got[c]: what the peer's reading thread has read
  torn, confused  \* history: overlapping writes, misread frames

wire   == << inbox, outbox, writing >>
server == << alive, client_id_gen_, clients_, prev_, unacked, owed >>
peers  == << sent, waiting, returned, id, closed, requests_, got >>
vars   == << kind, peer, wire, server, handled, peers, torn, confused >>

(***************************************************************************)
(* Who connects to which worker.                                           *)
(***************************************************************************)
Roles(k) ==
  CASE k = "L1" -> {"client", "L2", "predecessor", "manager"}
    [] k = "L2" -> {"L1", "L3", "predecessor", "manager"}
    [] k = "L3" -> {"client", "L2", "manager"}
    [] k = "pancake" -> {"async_proxy_client", "proxy_client", "pancake_client", "pancake_reader"}

(***************************************************************************)
(* A shortstack_client and a pancake_client choose their own id.  Two      *)
(* reading connections with the same id are a client and its restart.      *)
(***************************************************************************)
OwnId    == 2
Unknown  == -1
FakeId   == -1

Readers  == {"pancake_reader", "async_proxy_client"}
Reader(c) == peer[c] \in Readers \/ (kind = "L3" /\ peer[c] = "client")

Called(c, name) == \E i \in DOMAIN returned[c] : sent[c][returned[c][i].call].name = name
ClientReady(c)  == \E d \in Conns : Reader(d) /\ id[d] = id[c] /\ Called(d, "register_client_id")

SeqId(c)   == [sequence_id EXCEPT !.client_id = id[c], !.client_seq_no = Len(sent[c])]
FakeSeq    == [sequence_id EXCEPT !.client_id = FakeId, !.client_seq_no = FakeId]
Stamped(s) == {s, set_ts(s, 1), set_diag(set_ts(s, 1), "d")}
KillSeq    == [sequence_id EXCEPT !.client_id = -1995, !.client_seq_no = -1995]

(***************************************************************************)
(* What each peer sends.  The batch of a chain request has a real          *)
(* operation, stamped when statistics are on, and a fake one.              *)
(***************************************************************************)
Operation(s, k, v) == [seq_id |-> s, key |-> k, replica |-> 1, value |-> v]

Batches(c) ==
  {<< Operation(s, v, v), Operation(FakeSeq, v, "") >> : s \in Stamped(SeqId(c)), v \in Strings}

Msg(stub, a)       == [stub |-> stub, a |-> a, ops |-> << >>]
ChainMsg(seq, ops) == [stub |-> Client_chain_request, ops |-> ops,
                       a |-> [seq |-> seq, block_id |-> 0,
                              arguments |-> FoldLeft(LAMBDA acc, op : acc \o serialize(op),
                                                     << >>, ops)]]

AKey == CHOOSE k \in Strings : TRUE

Requests(c) ==
  {Msg(Client_async_get, [seq_id |-> SeqId(c), key |-> AKey]),
   Msg(Client_async_put, [seq_id |-> SeqId(c), key |-> AKey, value |-> AKey])}

BatchRequests(c) ==
  {Msg(Client_async_get_batch, [seq_id |-> SeqId(c), keys |-> SetToSeq(Strings)]),
   Msg(Client_async_put_batch, [seq_id |-> SeqId(c), keys |-> SetToSeq(Strings),
                                values |-> SetToSeq(Strings)])}

ManagerCalls(k) ==
  LET update == Msg(Client_update_connections,
                    [type |-> 2, column |-> 0, hostname |-> "nil", port |-> 0, num_workers |-> 0])
      kill   == Msg(Client_external_ack, [seq |-> KillSeq])
      repair == {Msg(Client_setup_chain, [block_id |-> 0, path |-> "/", chain |-> << >>,
                                          chain_role |-> 3, next_block_id |-> "nil"]),
                 Msg(Client_fetch_seq, [block_id |-> 0]),
                 Msg(Client_resend_pending, [block_id |-> 0, successor_seq |-> 0])}
      resend == Msg(Client_selective_resend_pending, [column |-> 0, num_columns |-> 1])
  IN  {update, kill} \cup (IF k = "L3" THEN {} ELSE repair) \cup (IF k = "L2" THEN {resend} ELSE {})

SyncCalls ==
  {Msg(Client_get, [key |-> AKey]), Msg(Client_put, [key |-> AKey, value |-> AKey]),
   Msg(Client_get_batch, [keys |-> << AKey >>]),
   Msg(Client_put_batch, [keys |-> << AKey >>, values |-> << AKey >>])}

(***************************************************************************)
(* async_proxy_client::init asks for an id, registers it and only then     *)
(* starts its reading thread and sends requests.                           *)
(***************************************************************************)
AsyncProxyClient(c) ==
  CASE id[c] = Unknown -> {Msg(Client_get_client_id, << >>)}
    [] id[c] # Unknown /\ ~ Called(c, "register_client_id") ->
         {Msg(Client_register_client_id, [block_id |-> 1, client_id |-> id[c]])}
    [] OTHER -> Requests(c) \cup BatchRequests(c)

Messages(c) ==
  CASE peer[c] = "client" /\ kind = "L1"  -> Requests(c)
    [] peer[c] = "client" /\ kind = "L3"  ->
         IF sent[c] = << >> THEN {Msg(Client_l3_register_client_id, [client_id |-> id[c]])} ELSE {}
    [] peer[c] = "predecessor" ->
         {ChainMsg([sequence_id EXCEPT !.server_seq_no = Len(sent[c])], ops) : ops \in Batches(c)}
    [] peer[c] = "L1" ->
         {Msg(Client_l2request, [seq_id |-> s, key |-> AKey, replica |-> 1, value |-> ""]) :
             s \in Stamped(SeqId(c))}
    [] peer[c] = "L2" /\ kind = "L3" ->
         IF ClientReady(c)
         THEN {Msg(Client_l3request, [seq_id |-> s, label |-> "l", value |-> "", is_read |-> TRUE,
                                      dedup |-> FALSE]) : s \in Stamped(SeqId(c)) \cup {FakeSeq}}
         ELSE {}
    [] peer[c] \in {"L2", "L3"} /\ kind # "L3" ->
         {Msg(Client_external_ack_batch, [seqs |-> << SeqId(c), FakeSeq >>])}
    [] peer[c] = "manager" -> ManagerCalls(kind)
    [] peer[c] = "async_proxy_client" -> AsyncProxyClient(c)
    [] peer[c] = "proxy_client"   -> SyncCalls
    [] peer[c] = "pancake_client" -> IF ClientReady(c) THEN Requests(c) ELSE {}
    [] peer[c] = "pancake_reader" ->
         IF sent[c] = << >>
         THEN {Msg(Client_register_client_id, [block_id |-> 0, client_id |-> id[c]])}
         ELSE {}

Init ==
  /\ kind \in {"L1", "L2", "L3", "pancake"}
  /\ peer \in [Conns -> Roles(kind)]
  /\ \A c, d \in Conns : c # d /\ peer[c] = peer[d] => peer[c] # "predecessor"
  /\ inbox    = [c \in Conns |-> << >>]
  /\ outbox   = [c \in Conns |-> << >>]
  /\ writing  = [c \in Conns |-> << >>]
  /\ alive    = TRUE
  /\ client_id_gen_ = 0
  /\ clients_ = {}
  /\ prev_    = {}
  /\ unacked  = << >>
  /\ owed     = {}
  /\ sent     = [c \in Conns |-> << >>]
  /\ handled  = [c \in Conns |-> << >>]
  /\ waiting  = [c \in Conns |-> << >>]
  /\ returned = [c \in Conns |-> << >>]
  /\ id       = [c \in Conns |-> IF peer[c] = "async_proxy_client" THEN Unknown ELSE OwnId]
  /\ closed   = {}
  /\ requests_ = [c \in Conns |-> 0]
  /\ got      = [c \in Conns |-> << >>]
  /\ torn     = FALSE
  /\ confused = FALSE

(***************************************************************************)
(* A peer's client stub: X sends, and waits if the method has a reply.  An *)
(* async_proxy_client enters each request in requests_, a batch once.      *)
(***************************************************************************)
IsRequest(m) == "seq_id" \in DOMAIN m.a

PeerSend(c) ==
  /\ alive
  /\ c \notin closed
  /\ waiting[c] = << >>
  /\ Len(sent[c]) < MaxCalls + (IF peer[c] = "async_proxy_client" THEN 1 ELSE 0)
  /\ \E m \in Messages(c) :
       /\ inbox' = [inbox EXCEPT ![c] = Append(@, Send(m.stub, m.a))]
       /\ sent' = [sent EXCEPT ![c] = Append(@, [name |-> m.stub.name, a |-> m.a, ops |-> m.ops])]
       /\ waiting' = [waiting EXCEPT ![c] = IF m.stub.mtype = T_CALL THEN << m.stub >> ELSE << >>]
       /\ requests_' = IF peer[c] = "async_proxy_client" /\ IsRequest(m)
                       THEN [requests_ EXCEPT ![c] = @ + 1] ELSE requests_
  /\ UNCHANGED << kind, peer, outbox, writing, server, handled, returned, id, closed, got,
                  torn, confused >>

Return(c, out) ==
  /\ returned' = [returned EXCEPT ![c] = Append(@, [call |-> Len(sent[c]), out |-> out])]
  /\ waiting' = [waiting EXCEPT ![c] = << >>]
  /\ id' = IF out.kind = "returned" /\ waiting[c][1].name = "get_client_id"
           THEN [id EXCEPT ![c] = out.val] ELSE id
  /\ confused' = (confused \/ out = GARBLED)

PeerRecv(c) ==
  /\ waiting[c] # << >>
  /\ outbox[c] # << >>
  /\ Return(c, Recv(waiting[c][1], Head(outbox[c])))
  /\ outbox' = [outbox EXCEPT ![c] = Tail(@)]
  /\ UNCHANGED << kind, peer, inbox, writing, server, handled, sent, closed, requests_, got, torn >>

\* The connection of a process that has exited: readMessageBegin throws.
PeerEof(c) ==
  /\ ~ alive
  /\ waiting[c] # << >>
  /\ outbox[c] = << >>
  /\ Return(c, EXCEPTION)
  /\ UNCHANGED << kind, peer, wire, server, handled, sent, closed, requests_, got, torn >>

(***************************************************************************)
(* command_response_reader::recv_response, in a client's reading thread,   *)
(* which runs once the client has registered.  It does not look at the     *)
(* name or type of the message, an exception apart.                        *)
(***************************************************************************)
recv_response(f) ==
  LET r == Read(async_response_args, f.fields)
  IN  IF f.mtype = T_EXCEPTION \/ ~ {"seq_id", "result"} \subseteq DOMAIN r THEN << >>
      ELSE << [client_id |-> r.seq_id.client_id, client_seq_no |-> r.seq_id.client_seq_no,
               out |-> IF "diag" \in DOMAIN r.seq_id THEN Append(r.result, r.seq_id.diag)
                       ELSE r.result] >>

Reading(c) == Reader(c) /\ Called(c, "register_client_id") /\ c \notin closed

\* read_responses of an async_proxy_client reads once for an entry of requests_.
pop(c) ==
  IF peer[c] = "async_proxy_client"
  THEN requests_[c] > 0 /\ requests_' = [requests_ EXCEPT ![c] = @ - 1]
  ELSE UNCHANGED requests_

ReadResponse(c) ==
  /\ Reading(c)
  /\ pop(c)
  /\ outbox[c] # << >>
  /\ LET r == recv_response(Head(outbox[c]))
     IN  /\ got' = [got EXCEPT ![c] = @ \o r]
         /\ confused' = (confused \/ r = << >>)
  /\ outbox' = [outbox EXCEPT ![c] = Tail(@)]
  /\ UNCHANGED << kind, peer, inbox, writing, server, handled, sent, waiting, returned, id,
                  closed, torn >>

\* The answer takes longer than the receive timeout, or the worker is gone: the
\* exception is swallowed, and the entry is used up.
ReadTimesOut(c) ==
  /\ Reading(c)
  /\ peer[c] = "async_proxy_client"
  /\ pop(c)
  /\ outbox[c] = << >>
  /\ UNCHANGED << kind, peer, wire, server, handled, sent, waiting, returned, id, closed, got,
                  torn, confused >>

(***************************************************************************)
(* The predecessor's response_processor_ thread serves                     *)
(* block_response_service on the connection of its chain requests.         *)
(***************************************************************************)
ReadAck(c) ==
  /\ peer[c] = "predecessor"
  /\ outbox[c] # << >>
  /\ LET f == Head(outbox[c])
         found == block_response_service_dispatchCall(f.fname)
         seqs == UNION {Range(Read(p.args, f.fields).seqs) : p \in found}
     IN  /\ got' = [got EXCEPT ![c] = @ \o SetToSortSeq(seqs, LAMBDA x, y :
                                               x.server_seq_no < y.server_seq_no)]
         /\ confused' = (confused \/ found = {})
  /\ outbox' = [outbox EXCEPT ![c] = Tail(@)]
  /\ UNCHANGED << kind, peer, inbox, writing, server, handled, sent, waiting, returned, id,
                  closed, requests_, torn >>

\* A client ends: its connections close.
Close(c) ==
  /\ Reading(c)
  /\ closed' = closed \cup {c}
  /\ UNCHANGED << kind, peer, wire, server, handled, sent, waiting, returned, id, requests_, got,
                  torn, confused >>

(***************************************************************************)
(* The processor that the server of each kind of worker is created with.   *)
(***************************************************************************)
dispatchCall(fname) ==
  CASE kind \in {"L1", "pancake"} -> pancake_thrift_dispatchCall(fname)
    [] kind = "L2" -> l2proxy_dispatchCall(fname)
    [] kind = "L3" -> l3proxy_dispatchCall(fname)

(***************************************************************************)
(* The methods a handler, or the proxy behind it, answers by throwing.     *)
(***************************************************************************)
l1_handler_throws      == {"get", "put", "get_batch", "put_batch"}
l2_handler_throws      == {}
l3_handler_throws      == {"chain_request", "setup_chain", "fetch_seq", "resend_pending",
                           "external_ack", "external_ack_batch"}
thrift_handler_throws  == {"get", "put", "get_batch", "put_batch", "chain_request",
                           "setup_chain", "resend_pending", "update_connections",
                           "external_ack", "external_ack_batch", "fetch_seq"}

Throws(name) ==
  name \in CASE kind = "L1" -> l1_handler_throws
             [] kind = "L2" -> l2_handler_throws
             [] kind = "L3" -> l3_handler_throws
             [] kind = "pancake" -> thrift_handler_throws

\* Two methods exit the process when they are given a reserved number, on
\* every layer; the manager uses external_ack.
Exits(name, a) ==
  /\ kind # "pancake"
  /\ \/ name = "external_ack" /\ a.seq.client_id = -1995 /\ a.seq.client_seq_no = -1995
     \/ name = "fetch_seq" /\ a.block_id = -1995

get_client_id(name) == client_id_gen_' = client_id_gen_ + (IF name = "get_client_id" THEN 1 ELSE 0)

\* add_client: cuckoohash_map::insert leaves an entry that is there alone.
add_client(c, name, a) ==
  clients_' = IF name = "register_client_id" /\ \A e \in clients_ : e[1] # a.client_id
              THEN clients_ \cup {<< a.client_id, c >>} ELSE clients_

\* chain_request: the first one sets prev_ to its connection.
chain_request(c, name, a) ==
  IF name = "chain_request" /\ ~ Throws(name)
  THEN /\ prev_' = IF prev_ = {} THEN {c} ELSE prev_
       /\ unacked' = Append(unacked, a.seq)
  ELSE UNCHANGED << prev_, unacked >>

(***************************************************************************)
(* The requests the proxy owes answers to: one per key of a request to the *)
(* baseline, whose batch methods call async_get or async_put per key, and  *)
(* one per operation at an L3 server.                                      *)
(***************************************************************************)
Answers(c, name, a) ==
  LET n == CASE kind = "L3" /\ name = "l3request" -> 1
             [] kind = "pancake" /\ name \in {"async_get", "async_put"} -> 1
             [] kind = "pancake" /\ name \in {"async_get_batch", "async_put_batch"} -> Len(a.keys)
             [] OTHER -> 0
  IN  {[conn |-> c, call |-> Len(handled[c]) + 1, key |-> i, seq |-> a.seq_id] : i \in 1 .. n}

Outcome(name) ==
  IF Throws(name) THEN Threw
  ELSE CASE name = "get_client_id" -> Did(client_id_gen_)
         [] name = "fetch_seq"     -> Did(Len(unacked))
         [] OTHER                  -> Did(NONE)

(***************************************************************************)
(* process(): dispatch, read the arguments, call the handler, reply.       *)
(***************************************************************************)
ServeUnknown(c, f) ==
  /\ writing' = [writing EXCEPT ![c] = << ExceptionFrame(f.fname) >>]
  /\ handled' = [handled EXCEPT ![c] = Append(@, [name |-> f.fname, unknown |-> TRUE])]
  /\ UNCHANGED server

ServeCall(c, f, p) ==
  LET a == Read(p.args, f.fields)
      h == Outcome(p.name)
  IN  /\ alive' = ~ Exits(p.name, a)
      /\ get_client_id(p.name)
      /\ add_client(c, p.name, a)
      /\ chain_request(c, p.name, a)
      /\ owed' = owed \cup (IF h.threw THEN {} ELSE Answers(c, p.name, a))
      /\ writing' = [writing EXCEPT ![c] = IF alive' THEN Reply(p, h) ELSE << >>]
      /\ handled' = [handled EXCEPT ![c] =
           Append(@, [name |-> p.name, a |-> a, h |-> h,
                      ops |-> IF p.name = "chain_request" THEN DeserializeAll(a.arguments)
                              ELSE << >>])]

Serve(c) ==
  /\ alive
  /\ inbox[c] # << >>
  /\ writing[c] = << >>
  /\ LET f == Head(inbox[c])
         found == dispatchCall(f.fname)
     IN  IF found = {} THEN ServeUnknown(c, f) ELSE \E p \in found : ServeCall(c, f, p)
  /\ inbox' = [inbox EXCEPT ![c] = Tail(@)]
  /\ UNCHANGED << kind, peer, outbox, peers, torn, confused >>

\* The IO thread writes the reply that the handler left.
IoWrite(c) ==
  /\ alive
  /\ writing[c] # << >>
  /\ outbox' = [outbox EXCEPT ![c] = @ \o writing[c]]
  /\ writing' = [writing EXCEPT ![c] = << >>]
  /\ UNCHANGED << kind, peer, inbox, server, handled, peers, torn, confused >>

(***************************************************************************)
(* A thread other than the server's writes frame f to connection c.  On a  *)
(* connection the peer has closed the write fails and is only logged.      *)
(***************************************************************************)
WriteDirectly(c, f) ==
  /\ outbox' = IF c \in closed THEN outbox ELSE [outbox EXCEPT ![c] = Append(@, f)]
  /\ torn' = (torn \/ writing[c] # << >>)

(***************************************************************************)
(* responder_thread: async_respond_client gives an answer to the           *)
(* connection registered for its client id; a fake operation, or an id     *)
(* nobody registered, is answered to nobody.                               *)
(***************************************************************************)
\* Mutant: a write that threw is tried again, though the frame had got out.
async_respond_client_Retry(seq, f) ==
  LET e == {x \in clients_ : x[1] = seq.client_id}
  IN  IF seq.client_id = FakeId \/ e = {} THEN UNCHANGED << outbox, torn >>
      ELSE \E x \in e : outbox' = [outbox EXCEPT ![x[2]] = @ \o << f, f >>] /\ UNCHANGED torn

async_respond_client(seq, f) ==
  LET e == {x \in clients_ : x[1] = seq.client_id}
  IN  IF seq.client_id = FakeId \/ e = {} THEN UNCHANGED << outbox, torn >>
      ELSE \E x \in e : WriteDirectly(x[2], f)

Respond ==
  /\ alive
  /\ \E o \in owed : LET seq == IF "ts" \in DOMAIN o.seq THEN set_diag(o.seq, "d") ELSE o.seq IN
       /\ async_respond_client(seq, Send(Client_async_response,
                                         [seq_id |-> seq, op_code |-> 0, result |-> << "v" >>]))
       /\ owed' = owed \ {o}
  /\ UNCHANGED << kind, peer, inbox, writing, alive, client_id_gen_, clients_, prev_, unacked,
                  handled, peers, confused >>

\* chain_module: acknowledgements of the oldest chain requests, in batches.
AckPrev ==
  /\ alive
  /\ \E n \in DOMAIN unacked, c \in prev_ :
       /\ WriteDirectly(c, Send(Client_chain_ack_batch, [seqs |-> SubSeq(unacked, 1, n)]))
       /\ unacked' = SubSeq(unacked, n + 1, Len(unacked))
  /\ UNCHANGED << kind, peer, inbox, writing, alive, client_id_gen_, clients_, prev_, owed,
                  handled, peers, confused >>

Done ==
  /\ \A c \in Conns : waiting[c] = << >>
  /\ UNCHANGED vars

Next ==
  \/ \E c \in Conns :
       \/ PeerSend(c) \/ PeerRecv(c) \/ PeerEof(c) \/ ReadResponse(c) \/ ReadTimesOut(c)
       \/ ReadAck(c) \/ Close(c)
       \/ Serve(c) \/ IoWrite(c)
  \/ Respond
  \/ AckPrev
  \/ Done

Spec == Init /\ [][Next]_vars

-----------------------------------------------------------------------------
(***************************************************************************)
(* What the handler gets is what the caller passed: every call reaches the *)
(* handler of the method it names, once, in the order of the connection,   *)
(* with equal arguments, optional components included; and the operations  *)
(* deserialized from a chain request are the ones serialized into it,      *)
(* whatever their keys and values are (l2_operation marks its optional     *)
(* tail in band).                                                          *)
(***************************************************************************)
HandledAsSent ==
  \A c \in Conns :
    /\ Len(handled[c]) + Len(inbox[c]) = Len(sent[c])
    /\ \A i \in DOMAIN handled[c] :
         /\ handled[c][i].name = sent[c][i].name
         /\ "unknown" \notin DOMAIN handled[c][i]
         /\ \A n \in DOMAIN sent[c][i].a : n \in DOMAIN handled[c][i].a
                                           /\ handled[c][i].a[n] = sent[c][i].a[n]
         /\ handled[c][i].ops = sent[c][i].ops

(***************************************************************************)
(* A call returns what the handler returned for that very call, or throws  *)
(* because the handler threw or the process exited: the answers and        *)
(* acknowledgements that other threads write to the same connections are   *)
(* never taken for a reply, nor a reply for an answer (recv_X skips a      *)
(* foreign frame and then misreads the next one; recv_response does not    *)
(* look at the message's name).                                            *)
(***************************************************************************)
OwnReply ==
  /\ ~ confused
  /\ \A c \in Conns : \A i \in DOMAIN returned[c] :
       LET r == returned[c][i]
       IN  IF r.call \in DOMAIN handled[c] /\ "h" \in DOMAIN handled[c][r.call] /\ alive
           THEN r.out = IF handled[c][r.call].h.threw THEN EXCEPTION
                        ELSE Returned(handled[c][r.call].h.ret)
           ELSE r.out.kind # "returned" \/ ~ alive

(***************************************************************************)
(* The responder and the chain never write to a connection on which the    *)
(* server's IO thread has a reply to write: the two share the socket and   *)
(* no lock, so their frames would mix.                                     *)
(***************************************************************************)
NoTornWrite == ~ torn

(***************************************************************************)
(* A client is sent only answers to its own requests, at most one per key  *)
(* asked for (client_id_gen_ hands an id out once; the registry maps an id *)
(* to one connection).  An async_proxy_client asks on the connection it    *)
(* reads; the other readers have a connection of their own.                *)
(***************************************************************************)
Asked(r, k, n) ==
  {<< c, i >> \in UNION {{c} \X DOMAIN sent[c] : c \in Conns} :
     /\ peer[r] = "async_proxy_client" => c = r
     /\ "seq_id" \in DOMAIN sent[c][i].a
     /\ sent[c][i].a.seq_id.client_id = k /\ sent[c][i].a.seq_id.client_seq_no = n}

KeysOf(e) == IF "keys" \in DOMAIN sent[e[1]][e[2]].a THEN Len(sent[e[1]][e[2]].a.keys) ELSE 1

AnswersAt(c) == got[c] \o FoldLeft(LAMBDA acc, f : acc \o recv_response(f), << >>, outbox[c])

OnlyOwnAnswers ==
  \A c \in Conns : Reader(c) =>
    LET at == AnswersAt(c) IN
    \A i \in DOMAIN at :
      LET k == at[i].client_id
          n == at[i].client_seq_no
      IN  /\ k = id[c]
          /\ Cardinality({j \in DOMAIN at : at[j].client_seq_no = n})
               <= MapThenSumSet(KeysOf, Asked(c, k, n))

(***************************************************************************)
(* When nothing is left to process, every call has returned and every key  *)
(* of every real request the handler took has been answered to its client: *)
(* process_X replies even when the handler throws, and an answer is        *)
(* dropped only when the client that registered the id first has closed    *)
(* its connection.  The clients have read these answers, except that an    *)
(* async_proxy_client, which reads once per call, leaves some unread after *)
(* a batch or a timeout, and only then.  (Every step consumes a message,   *)
(* so this is what fair scheduling brings about; for a worker that exited, *)
(* the absence of deadlock says that its callers return.)                  *)
(***************************************************************************)
WaitsForNone(c) == peer[c] = "async_proxy_client" /\ requests_[c] = 0 /\ waiting[c] = << >>

Quiet ==
  /\ alive /\ owed = {}
  /\ \A c \in Conns :
       /\ inbox[c] = << >> /\ writing[c] = << >>
       /\ outbox[c] = << >> \/ c \in closed \/ WaitsForNone(c)

Answered(n) ==
  MapThenSumSet(LAMBDA c : Len(SelectSeq(AnswersAt(c), LAMBDA r : r.client_seq_no = n)),
                {c \in Conns : Reader(c)})

TimedOut(c) == Len(got[c]) < Cardinality({i \in DOMAIN sent[c] : IsRequest(sent[c][i])})

SettledAnswered ==
  Quiet =>
    /\ \A c \in Conns : waiting[c] = << >>
    /\ closed = {} /\ kind \in {"L3", "pancake"} =>
         \A c \in Conns : \A i \in DOMAIN handled[c] :
           "seq_id" \in DOMAIN handled[c][i].a /\ handled[c][i].a.seq_id.client_id # FakeId
             => Answered(handled[c][i].a.seq_id.client_seq_no) >= KeysOf(<< c, i >>)
    /\ \A c \in Conns \ closed :
         outbox[c] # << >> => TimedOut(c) \/ \E i \in DOMAIN sent[c] : KeysOf(<< c, i >>) > 1

=============================================================================
