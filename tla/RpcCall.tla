------------------------------ MODULE RpcCall -------------------------------
(***************************************************************************)
(* gencode/mg_server: a call from the client's message to its answer.      *)
(* Composes RpcFraming, which cuts the stream into requests, RpcMessage,   *)
(* which reads and writes their contents, do_request and do_response of    *)
(* the server, and what client.cpp makes of the answer.                    *)
(*                                                                         *)
(* What send does with an answer is SendQueue's subject; here it is        *)
(* complete in its buffer.                                                 *)
(***************************************************************************)
EXTENDS RpcFraming, RpcMessage, SequencesExt

CONSTANTS
  HdrFields,   \* HdrFields[k]: the fields a client puts into rpc header k
  BodyFields   \* BodyFields[k]: those of rpc body k

\* client.cpp: the message that main sends.
ClientHeader == Set(Set(New(RpcHeader), 1, "REQUEST"), 2, "hello")
ClientBody == Set(New(HelloReq), 1, "hello")

\* The first message is that of client.cpp, with the lengths it computes.
\* Other clients may announce, and send, less than their fields need, or a
\* negative length, and put any fields into a header.
ASSUME CallAssumption ==
  /\ Encode(HdrFields[1]) = SerializeRpcHeader(ClientHeader)
  /\ Encode(BodyFields[1]) = SerializeHelloReq(ClientBody)
  /\ Hdr[1] = ByteSizeRpcHeader(ClientHeader)
  /\ Body[1] = ByteSizeHelloReq(ClientBody)
  /\ \A k \in 1..N : /\ HdrFields[k] \in Seq([num : Nat, wire : STRING, v : STRING])
                     /\ Hdr[k] <= Len(Encode(HdrFields[k]))
                     /\ Body[k] <= Len(Encode(BodyFields[k]))

VARIABLES
  handled,   \* how many of reqs do_request has taken from its queue
  out        \* the answers, in the order do_response hands them to send

callVars == <<handled, out>>

\* The byte of the client's stream at position p, inside an rpc header.
HeaderByte(p) ==
  LET k == CHOOSE j \in 1..N : HdrAt(j) <= p /\ p < BodyAt(j)
  IN Encode(HdrFields[k])[p - HdrAt(k) + 1]

\* Mutant: only the first guard of a request is read.
FirstGuard(buf) ==
  IF buf = <<>> THEN <<>> ELSE [i \in 1..buf[1].size |-> HeaderByte(buf[1].at + i - 1)]

\* MReadBuf::Next until TotalBytes: the bytes of the guards, one after another.
Contents(buf) ==
  FlattenSeq([g \in DOMAIN buf |->
               [i \in 1..buf[g].size |-> HeaderByte(buf[g].at + i - 1)]])

\* HelloTask::Run.
HelloTask == Set(New(HelloRes), 1, "world")

\* What do_response puts into its buffer behind the magic: the lengths, the
\* header of the request with another type, and the body.
Response(header) ==
  LET rpc_header == Set(header, 1, "RESPONSE")
  IN [rpc_header_length |-> ByteSizeRpcHeader(rpc_header),
      rpc_body_length |-> ByteSizeHelloRes(HelloTask),
      bytes |-> SerializeRpcHeader(rpc_header) \o SerializeHelloRes(HelloTask)]


\* reqs.front() and reqs.pop(), once parse_connection has returned.  Bound: a
\* connection is followed up to the first request with a negative length (of
\* whose guard protobuf would copy a negative number of bytes).
TakeRequest == /\ length = 0
               /\ handled < Len(reqs)
               /\ handled < Understood
               /\ handled' = handled + 1

\* One turn of do_request's loop.  The result of the parse is not looked at;
\* the body is parsed and only logged.
DoRequest ==
  /\ TakeRequest
  /\ LET rpc_header == ParseRpcHeader(Contents(reqs[handled + 1].header))
     IN out' = IF rpc_header.val[2] = "hello"
               THEN Append(out, Response(rpc_header)) ELSE out
  /\ UNCHANGED vars

\* recv_run calls recv again when do_request has emptied its queue.
RecvMore == /\ handled = Len(reqs)
            /\ \E n \in 1..MaxRecv : Recv(n)
            /\ UNCHANGED callVars

ParseMore == Parse /\ UNCHANGED callVars

CallInit == Init /\ handled = 0 /\ out = <<>>

CallNext == ParseMore \/ DoRequest \/ RecvMore

CallSpec == /\ CallInit /\ [][CallNext]_<<vars, callVars>>
            /\ WF_<<vars, callVars>>(ParseMore)
            /\ WF_handled(TakeRequest)
            /\ WF_<<vars, callVars>>(RecvMore)

\* Mutant: the two lengths are read in the wrong order.
ReadReplySwapped(r, n) ==
  LET at == MagicLen + HeaderLen
      hlen == IF n > MagicLen + HeaderLen \div 2 THEN r.rpc_body_length ELSE 0
      blen == IF n > MagicLen THEN r.rpc_header_length ELSE 0
      buf == [i \in 1..hlen + blen |-> IF at + i <= n THEN r.bytes[i] ELSE Zero]
  IN [header |-> ParseRpcHeader(SubSeq(buf, 1, hlen)),
      res |-> ParseHelloRes(SubSeq(buf, hlen + 1, hlen + blen))]

\* client.cpp after one recv of n bytes into a zeroed buffer.  The lengths are
\* below 256, so the first byte of each is all of it.
ReadReply(r, n) ==
  LET at == MagicLen + HeaderLen
      hlen == IF n > MagicLen THEN r.rpc_header_length ELSE 0
      blen == IF n > MagicLen + HeaderLen \div 2 THEN r.rpc_body_length ELSE 0
      buf == [i \in 1..hlen + blen |-> IF at + i <= n THEN r.bytes[i] ELSE Zero]
  IN [header |-> ParseRpcHeader(SubSeq(buf, 1, hlen)),
      res |-> ParseHelloRes(SubSeq(buf, hlen + 1, hlen + blen))]

(***************************************************************************)
(* Properties.                                                             *)
(***************************************************************************)
\* How many of the fields fs that are complete in the first n bytes come
\* before one that ends the parse, and the fields the parser reads of them.
Going(fs, n) ==
  Before(n \div WireSize, {i \in 1..n \div WireSize : EndsParse(RpcHeader, fs[i])})
Arrived(fs, n) == SubSeq(fs, 1, Min2(Going(fs, n) + 1, n \div WireSize))

\* The last value a field is set to among fields; the absent value if to none.
LastOf(fields, num) ==
  LET has == {i \in DOMAIN fields : fields[i].num = num /\ Sets(RpcHeader, fields[i])}
  IN IF has = {} THEN Absent ELSE ValueOf(fields[CHOOSE i \in has : \A j \in has : j <= i])

\* The parser comes to the end of the n bytes inside a field num it accepts.
EndsInside(fs, n, num) ==
  LET field == fs[n \div WireSize + 1]
  IN /\ n % WireSize # 0 /\ Going(fs, n) = n \div WireSize
     /\ field.num = num /\ Accepts(RpcHeader, field)

\* A message with this header calls hello.
Calls(fs, n) == LastOf(Arrived(fs, n), 2) = "hello" /\ ~EndsInside(fs, n, 2)

\* The answer that it should have: its own header as a response, and the
\* lengths of what is sent.
Expected(fs, n) ==
  LET other(f) == IF Accepts(RpcHeader, f) \/ EndsParse(RpcHeader, f) THEN <<>> ELSE <<f>>
      timeout == IF EndsInside(fs, n, 3) THEN Torn ELSE LastOf(Arrived(fs, n), 3)
      header == Encode(<<Field(1, "varint", "RESPONSE"), Field(2, "bytes", "hello")>>
                       \o (IF timeout = Absent THEN <<>> ELSE <<Field(3, "bytes", timeout)>>)
                       \o FlattenSeq([i \in DOMAIN Arrived(fs, n) |-> other(Arrived(fs, n)[i])]))
      body == Encode(<<Field(1, "bytes", "world")>>)
  IN [rpc_header_length |-> Len(header), rpc_body_length |-> Len(body),
      bytes |-> header \o body]

\* What do_request makes of the first n bytes of a header with the fields fs:
\* the call is seen if there is one, and its answer has the fields that were
\* read, also where the parse failed half-way (nobody looks at its result).
HeaderAnswered(fs, n) ==
  LET rpc_header == ParseRpcHeader(SubSeq(Encode(fs), 1, n))
  IN IF Calls(fs, n) THEN rpc_header.val[2] = "hello" /\ Response(rpc_header) = Expected(fs, n)
     ELSE rpc_header.val[2] # "hello"

\* The answers of a connection are those of its hello requests, one each and
\* in their order, with nothing of one request in the answer of another;
\* requests for other functions have none.  Holds however the stream was
\* cut: a header may lie in several guards, and several requests in one.
\* The lengths announced, from ByteSizeLong, are those of what
\* SerializeToArray then writes, so the receiver finds the body.
AnswersMatchCalls ==
  LET answer(k) == IF Calls(HdrFields[k], Hdr[k]) THEN <<Expected(HdrFields[k], Hdr[k])>>
                   ELSE <<>>
  IN handled <= Understood /\ out = FlattenSeq([k \in 1..handled |-> answer(k)])

\* The client reads once.  It prints the answer if the whole of it has
\* arrived by then, and nothing that could be taken for it otherwise.
ReplyReadIfWhole ==
  out # <<>> =>
    LET whole == MagicLen + HeaderLen + Len(out[1].bytes)
    IN \A n \in 1..whole : (ReadReply(out[1], n).res = HelloTask) <=> (n = whole)

\* Every message with a body, up to a negative length, becomes a request and
\* do_request takes it, so that (AnswersMatchCalls) a call of hello is
\* answered in the end.  The loops of parse_connection and SplitMessage end
\* also when a turn of them consumes nothing (a length of zero, no magic left).
CallsHandled ==
  <>[] (length = 0 /\ \A k \in 1..Understood : Body[k] > 0 => handled >= k)
=============================================================================
