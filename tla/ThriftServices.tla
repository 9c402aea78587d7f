--------------------------- MODULE ThriftServices ---------------------------
(***************************************************************************)
(* The five Thrift services through which the processes of Shortstack talk *)
(* to one another, as the generated code implements them: the layout of    *)
(* every argument and result structure, the client stub and the processor  *)
(* entry of every method, the codec that the read() and write() functions  *)
(* are instances of, and the conversion of an l2_operation to and from the *)
(* string list that a chain request carries.                               *)
(*                                                                         *)
(* A structure on the wire is a sequence of fields [id, type, val].  A     *)
(* frame of the framed transport is one message.  Strings, numbers and     *)
(* Booleans are whatever values the instance uses.                         *)
(***************************************************************************)
EXTENDS Integers, Sequences, SequencesExt

\* The numbers that occur in the operations of an instance are -1 .. MaxNumber.
CONSTANT MaxNumber

T_CALL      == "T_CALL"
T_REPLY     == "T_REPLY"
T_EXCEPTION == "T_EXCEPTION"
T_ONEWAY    == "T_ONEWAY"

Field(id, type, name) == [id |-> id, type |-> type, name |-> name]

(***************************************************************************)
(* struct sequence_id.  Fields 1 to 7 are required: read() throws          *)
(* INVALID_DATA when one is missing.  ts and diag are written only when    *)
(* their __isset bit is set, which only __set_ts and __set_diag do: a      *)
(* record without the component has the bit clear.                         *)
(***************************************************************************)
sequence_id_required ==
  << Field(1, "i64", "client_id"),     Field(2, "i64", "client_seq_no"),
     Field(3, "i64", "server_seq_no"), Field(4, "i32", "l1_idx"),
     Field(5, "i64", "l1_seq_no"),     Field(6, "i32", "l2_idx"),
     Field(7, "i64", "l2_seq_no") >>

sequence_id_fields ==
  sequence_id_required \o << Field(8, "i64", "ts"), Field(9, "string", "diag") >>

sequence_id == [client_id |-> 0, client_seq_no |-> 0, server_seq_no |-> 0,
                l1_idx |-> 0, l1_seq_no |-> 0, l2_idx |-> 0, l2_seq_no |-> 0]

With(rec, name, v) == [n \in DOMAIN rec \cup {name} |-> IF n = name THEN v ELSE rec[n]]

set_ts(seq, v)   == With(seq, "ts", v)
set_diag(seq, v) == With(seq, "diag", v)

(***************************************************************************)
(* The pattern of every generated write(): the fields in the order of      *)
(* their identifiers, an optional one only when it is set.                 *)
(***************************************************************************)
WriteFields(fields, rec, WriteVal(_, _)) ==
  LET present == SelectSeq(fields, LAMBDA f : f.name \in DOMAIN rec)
  IN  [i \in DOMAIN present |->
         [id |-> present[i].id, type |-> present[i].type,
          val |-> WriteVal(present[i].type, rec[present[i].name])]]

(***************************************************************************)
(* The pattern of every generated read(): loop over what arrives, keep a   *)
(* field whose identifier and type match, skip any other.                  *)
(***************************************************************************)
Arrived(f, wire) == {i \in DOMAIN wire : wire[i].id = f.id /\ wire[i].type = f.type}

ReadFields(fields, wire, ReadVal(_, _)) ==
  LET known == {f \in Range(fields) : Arrived(f, wire) # {}}
  IN  [n \in {f.name : f \in known} |->
         LET f == CHOOSE g \in known : g.name = n
         IN  ReadVal(f.type, wire[Max(Arrived(f, wire))].val)]

Scalar(type, v) == v

\* Mutant: the optional components are not written.
sequence_id_write_Required(seq) == WriteFields(sequence_id_required, seq, Scalar)

sequence_id_write(seq) == WriteFields(sequence_id_fields, seq, Scalar)

INVALID_DATA == "INVALID_DATA"

sequence_id_read(wire) ==
  IF \E f \in Range(sequence_id_required) : Arrived(f, wire) = {}
  THEN INVALID_DATA
  ELSE ReadFields(sequence_id_fields, wire, Scalar)

WriteVal(type, v) ==
  CASE type = "struct"       -> sequence_id_write(v)
    [] type = "list<struct>" -> [i \in DOMAIN v |-> sequence_id_write(v[i])]
    [] OTHER                 -> v

ReadVal(type, v) ==
  CASE type = "struct"       -> sequence_id_read(v)
    [] type = "list<struct>" -> [i \in DOMAIN v |-> sequence_id_read(v[i])]
    [] OTHER                 -> v

Write(fields, rec) == WriteFields(fields, rec, WriteVal)
Read(fields, wire) == ReadFields(fields, wire, ReadVal)

(***************************************************************************)
(* block_request_service: the arguments and the result of each method.     *)
(***************************************************************************)
chain_request_args ==
  << Field(1, "struct", "seq"), Field(2, "i32", "block_id"),
     Field(3, "list<string>", "arguments") >>

external_ack_args == << Field(1, "struct", "seq") >>

external_ack_batch_args == << Field(1, "list<struct>", "seqs") >>

setup_chain_args ==
  << Field(1, "i32", "block_id"), Field(2, "string", "path"),
     Field(6, "list<string>", "chain"), Field(7, "i32", "chain_role"),
     Field(8, "string", "next_block_id") >>

setup_chain_result == << >>

resend_pending_args == << Field(1, "i32", "block_id"), Field(2, "i64", "successor_seq") >>

resend_pending_result == << >>

update_connections_args ==
  << Field(1, "i32", "type"), Field(2, "i32", "column"),
     Field(3, "string", "hostname"), Field(4, "i32", "port"),
     Field(5, "i32", "num_workers") >>

update_connections_result == << >>

fetch_seq_args == << Field(1, "i32", "block_id") >>

fetch_seq_result == << Field(0, "i64", "success") >>

(***************************************************************************)
(* block_response_service and pancake_thrift_response: what a server       *)
(* sends back on the connection of a request, outside any call.            *)
(***************************************************************************)
chain_ack_args == << Field(1, "struct", "seq") >>

chain_ack_batch_args == << Field(2, "list<struct>", "seqs") >>

async_response_args ==
  << Field(1, "struct", "seq_id"), Field(2, "i32", "op_code"),
     Field(3, "list<string>", "result") >>

(***************************************************************************)
(* pancake_thrift, the service of the L1 heads and of the two baselines.   *)
(***************************************************************************)
get_client_id_args == << >>

get_client_id_result == << Field(0, "i64", "success") >>

register_client_id_args == << Field(1, "i32", "block_id"), Field(2, "i64", "client_id") >>

register_client_id_result == << >>

async_get_args == << Field(1, "struct", "seq_id"), Field(2, "string", "key") >>

async_put_args ==
  << Field(1, "struct", "seq_id"), Field(2, "string", "key"), Field(3, "string", "value") >>

async_get_batch_args == << Field(1, "struct", "seq_id"), Field(2, "list<string>", "keys") >>

async_put_batch_args ==
  << Field(1, "struct", "seq_id"), Field(2, "list<string>", "keys"),
     Field(3, "list<string>", "values") >>

get_args == << Field(1, "string", "key") >>

get_result == << Field(0, "string", "success") >>

put_args == << Field(1, "string", "key"), Field(2, "string", "value") >>

put_result == << >>

get_batch_args == << Field(1, "list<string>", "keys") >>

get_batch_result == << Field(0, "list<string>", "success") >>

put_batch_args == << Field(1, "list<string>", "keys"), Field(2, "list<string>", "values") >>

put_batch_result == << >>

(***************************************************************************)
(* l2proxy and l3proxy.                                                    *)
(***************************************************************************)
l2request_args ==
  << Field(1, "struct", "seq_id"), Field(2, "string", "key"),
     Field(3, "i32", "replica"), Field(4, "string", "value") >>

selective_resend_pending_args ==
  << Field(1, "i32", "column"), Field(2, "i32", "num_columns") >>

selective_resend_pending_result == << >>

l3_get_client_id_args == << >>

l3_get_client_id_result == << Field(0, "i64", "success") >>

l3_register_client_id_args == << Field(1, "i64", "client_id") >>

l3_register_client_id_result == << >>

l3request_args ==
  << Field(1, "struct", "seq_id"), Field(2, "string", "label"),
     Field(3, "string", "value"), Field(4, "bool", "is_read"),
     Field(5, "bool", "dedup") >>

(***************************************************************************)
(* The client stubs: X, send_X and, for a call that has a reply, recv_X.   *)
(***************************************************************************)
Call(name, args, result) == [name |-> name, mtype |-> T_CALL, args |-> args, result |-> result]
Oneway(name, args)       == [name |-> name, mtype |-> T_ONEWAY, args |-> args, result |-> << >>]

Client_chain_request      == Oneway("chain_request", chain_request_args)
Client_external_ack       == Oneway("external_ack", external_ack_args)
Client_external_ack_batch == Oneway("external_ack_batch", external_ack_batch_args)
Client_setup_chain        == Call("setup_chain", setup_chain_args, setup_chain_result)
Client_resend_pending     == Call("resend_pending", resend_pending_args, resend_pending_result)
Client_update_connections ==
  Call("update_connections", update_connections_args, update_connections_result)
Client_fetch_seq          == Call("fetch_seq", fetch_seq_args, fetch_seq_result)

Client_chain_ack       == Oneway("chain_ack", chain_ack_args)
Client_chain_ack_batch == Oneway("chain_ack_batch", chain_ack_batch_args)
Client_async_response  == Oneway("async_response", async_response_args)

Client_get_client_id      == Call("get_client_id", get_client_id_args, get_client_id_result)
Client_register_client_id ==
  Call("register_client_id", register_client_id_args, register_client_id_result)
Client_async_get          == Oneway("async_get", async_get_args)
Client_async_put          == Oneway("async_put", async_put_args)
Client_async_get_batch    == Oneway("async_get_batch", async_get_batch_args)
Client_async_put_batch    == Oneway("async_put_batch", async_put_batch_args)
Client_get                == Call("get", get_args, get_result)
Client_put                == Call("put", put_args, put_result)
Client_get_batch          == Call("get_batch", get_batch_args, get_batch_result)
Client_put_batch          == Call("put_batch", put_batch_args, put_batch_result)

Client_l2request == Oneway("l2request", l2request_args)
Client_selective_resend_pending ==
  Call("selective_resend_pending", selective_resend_pending_args,
       selective_resend_pending_result)

Client_l3_get_client_id == Call("get_client_id", l3_get_client_id_args, l3_get_client_id_result)
Client_l3_register_client_id ==
  Call("register_client_id", l3_register_client_id_args, l3_register_client_id_result)
Client_l3request        == Oneway("l3request", l3request_args)

(***************************************************************************)
(* send_X: one frame.                                                      *)
(***************************************************************************)
Send(stub, a) == [fname |-> stub.name, mtype |-> stub.mtype, fields |-> Write(stub.args, a)]

(***************************************************************************)
(* recv_X, on the next frame.  A frame that is no reply, or the reply of   *)
(* another method, is skipped and the bytes that follow it are taken for   *)
(* the result: what comes out is GARBLED.                                  *)
(***************************************************************************)
GARBLED        == [kind |-> "garbled"]
MISSING_RESULT == [kind |-> "exception"]
EXCEPTION      == [kind |-> "exception"]
Returned(v)    == [kind |-> "returned", val |-> v]
NONE           == "none"

Recv(stub, frame) ==
  IF frame.mtype = T_EXCEPTION THEN EXCEPTION
  ELSE IF frame.mtype # T_REPLY \/ frame.fname # stub.name THEN GARBLED
  ELSE LET r == Read(stub.result, frame.fields)
       IN  IF stub.result = << >> THEN Returned(NONE)
           ELSE IF "success" \in DOMAIN r THEN Returned(r.success)
           ELSE MISSING_RESULT

(***************************************************************************)
(* The processors: process_X reads the arguments of a message, calls the   *)
(* handler and, unless the method is oneway, writes a reply.               *)
(***************************************************************************)
Twoway(name, args, result) ==
  [name |-> name, oneway |-> FALSE, args |-> args, result |-> result]
Silent(name, args) == [name |-> name, oneway |-> TRUE, args |-> args, result |-> << >>]

\* Mutant: async_get has lost its oneway.
process_async_get_Twoway == Twoway("async_get", async_get_args, << >>)

process_chain_request      == Silent("chain_request", chain_request_args)
process_external_ack       == Silent("external_ack", external_ack_args)
process_external_ack_batch == Silent("external_ack_batch", external_ack_batch_args)
process_setup_chain        == Twoway("setup_chain", setup_chain_args, setup_chain_result)
process_resend_pending     == Twoway("resend_pending", resend_pending_args, resend_pending_result)
process_update_connections ==
  Twoway("update_connections", update_connections_args, update_connections_result)
process_fetch_seq          == Twoway("fetch_seq", fetch_seq_args, fetch_seq_result)

process_chain_ack       == Silent("chain_ack", chain_ack_args)
process_chain_ack_batch == Silent("chain_ack_batch", chain_ack_batch_args)

process_get_client_id      == Twoway("get_client_id", get_client_id_args, get_client_id_result)
process_register_client_id ==
  Twoway("register_client_id", register_client_id_args, register_client_id_result)
process_async_get          == Silent("async_get", async_get_args)
process_async_put          == Silent("async_put", async_put_args)
process_async_get_batch    == Silent("async_get_batch", async_get_batch_args)
process_async_put_batch    == Silent("async_put_batch", async_put_batch_args)
process_get                == Twoway("get", get_args, get_result)
process_put                == Twoway("put", put_args, put_result)
process_get_batch          == Twoway("get_batch", get_batch_args, get_batch_result)
process_put_batch          == Twoway("put_batch", put_batch_args, put_batch_result)

process_l2request == Silent("l2request", l2request_args)
process_selective_resend_pending ==
  Twoway("selective_resend_pending", selective_resend_pending_args,
         selective_resend_pending_result)

process_l3_get_client_id ==
  Twoway("get_client_id", l3_get_client_id_args, l3_get_client_id_result)
process_l3_register_client_id ==
  Twoway("register_client_id", l3_register_client_id_args, l3_register_client_id_result)
process_l3request == Silent("l3request", l3request_args)

(***************************************************************************)
(* processMap_ of each processor.                                          *)
(***************************************************************************)
block_request_serviceProcessor ==
  { process_chain_request, process_external_ack, process_external_ack_batch,
    process_setup_chain, process_resend_pending, process_update_connections,
    process_fetch_seq }

block_response_serviceProcessor == { process_chain_ack, process_chain_ack_batch }

pancake_thriftProcessor ==
  { process_get_client_id, process_register_client_id, process_async_get,
    process_async_put, process_async_get_batch, process_async_put_batch,
    process_get, process_put, process_get_batch, process_put_batch }

l2proxyProcessor == { process_l2request, process_selective_resend_pending }

l3proxyProcessor ==
  { process_l3_get_client_id, process_l3_register_client_id, process_l3request }

(***************************************************************************)
(* dispatchCall: the processor's own methods, then those of the service it *)
(* extends; an unknown name is answered with an UNKNOWN_METHOD exception.  *)
(***************************************************************************)
Find(processMap_, fname) == {p \in processMap_ : p.name = fname}

block_request_service_dispatchCall(fname) == Find(block_request_serviceProcessor, fname)

block_response_service_dispatchCall(fname) == Find(block_response_serviceProcessor, fname)

OrElse(found, base) == IF found # {} THEN found ELSE base

pancake_thrift_dispatchCall(fname) ==
  OrElse(Find(pancake_thriftProcessor, fname), block_request_service_dispatchCall(fname))

l2proxy_dispatchCall(fname) ==
  OrElse(Find(l2proxyProcessor, fname), block_request_service_dispatchCall(fname))

l3proxy_dispatchCall(fname) ==
  OrElse(Find(l3proxyProcessor, fname), block_request_service_dispatchCall(fname))

(***************************************************************************)
(* What process_X writes when the handler returned h: a thrown exception   *)
(* is answered, except that a oneway method swallows it.                   *)
(***************************************************************************)
Threw    == [threw |-> TRUE]
Did(ret) == [threw |-> FALSE, ret |-> ret]

ExceptionFrame(fname) == [fname |-> fname, mtype |-> T_EXCEPTION, fields |-> << >>]

\* Mutants: a oneway call is answered; an exception of the handler is swallowed.
Reply_Oneway(p, h) ==
  << [fname |-> p.name, mtype |-> T_REPLY,
      fields |-> IF h.threw THEN << >> ELSE Write(p.result, [success |-> h.ret])] >>

Reply_Swallow(p, h) ==
  IF p.oneway \/ h.threw THEN << >>
  ELSE << [fname |-> p.name, mtype |-> T_REPLY,
           fields |-> Write(p.result, [success |-> h.ret])] >>

Reply(p, h) ==
  IF p.oneway THEN << >>
  ELSE IF h.threw THEN << ExceptionFrame(p.name) >>
  ELSE << [fname |-> p.name, mtype |-> T_REPLY,
           fields |-> Write(p.result, [success |-> h.ret])] >>

(***************************************************************************)
(* l2_operation::serialize and deserialize: an operation as strings in the *)
(* argument list of a chain request, with two optional marked tails.       *)
(***************************************************************************)
to_string(n) == ToString(n)
stoll(str)   == CHOOSE n \in -1 .. MaxNumber : ToString(n) = str

serialize(op) ==
  << to_string(op.seq_id.client_id), to_string(op.seq_id.client_seq_no),
     op.key, to_string(op.replica), op.value >>
  \o (IF "ts" \in DOMAIN op.seq_id THEN << "$ts$", to_string(op.seq_id.ts) >> ELSE << >>)
  \o (IF "diag" \in DOMAIN op.seq_id THEN << "$diag$", op.seq_id.diag >> ELSE << >>)

Marked(args, idx, marker) == Len(args) - idx >= 1 /\ args[idx] = marker

deserialize(args, idx) ==
  LET base == [sequence_id EXCEPT !.client_id = stoll(args[idx]),
                                     !.client_seq_no = stoll(args[idx + 1])]
      ts   == Marked(args, idx + 5, "$ts$")
      at   == IF ts THEN idx + 7 ELSE idx + 5
      diag == Marked(args, at, "$diag$")
      seq  == IF ts THEN set_ts(base, stoll(args[idx + 6])) ELSE base
  IN  [op   |-> [seq_id |-> IF diag THEN set_diag(seq, args[at + 1]) ELSE seq,
                 key |-> args[idx + 2], replica |-> stoll(args[idx + 3]), value |-> args[idx + 4]],
       next |-> IF diag THEN at + 2 ELSE at]

DeserializeAll(args) ==
  LET from[i \in 1 .. Len(args) + 1] ==
        IF i > Len(args) THEN << >>
        ELSE << deserialize(args, i).op >> \o from[deserialize(args, i).next]
  IN  from[1]

=============================================================================
