----------------------------- MODULE RpcFraming -----------------------------
(***************************************************************************)
(* gencode/mg_server/server: how the bytes of one connection become        *)
(* requests.  recv_run hands parse_connection the bytes of one recv;       *)
(* parse_connection strips the magic and lets MParser::SplitMessage cut    *)
(* the rest into length headers, rpc headers and rpc bodies.  TCP may cut  *)
(* the stream anywhere, so each part may arrive over several calls.        *)
(*                                                                         *)
(* A byte is known by its position in the stream, a piece of a message     *)
(* (an MBufferGuard in an MReadBuf) by the positions it covers.  One       *)
(* action is one turn of the parsing loops: one case of their switches.    *)
(***************************************************************************)
EXTENDS Integers, Sequences

CONSTANTS
  N,           \* how many messages the client sends on the connection
  Hdr, Body,   \* Hdr[k], Body[k]: the lengths that message k announces for its
               \* rpc header and body; signed numbers, and nobody looks at the sign
  Start,       \* Start[k]: the position of the length header of message k
  Gap,         \* bytes of magic before every message but the first
  MagicLen,    \* 4
  HeaderLen,   \* sizeof(MLengthHeader)
  MaxRecv,     \* bound: what one recv returns at most
  Uninit       \* the values memory may have that nobody initialised

\* The bytes that follow for a length announced as len.
Sent(len) == IF len > 0 THEN len ELSE 0

\* The client's stream: the magic, then the messages one after the other.
ASSUME StreamAssumption ==
  /\ N \in Nat \ {0}
  /\ MagicLen \in Nat \ {0} /\ HeaderLen \in Nat \ {0} /\ MaxRecv \in Nat \ {0}
  /\ Gap \in {0, MagicLen}
  /\ Hdr \in [1..N -> Int] /\ Body \in [1..N -> Int]
  /\ Start \in [1..N+1 -> Nat]
  /\ Start[1] = MagicLen
  /\ \A k \in 1..N : Start[k+1] = Start[k] + HeaderLen + Sent(Hdr[k]) + Sent(Body[k]) + Gap
  /\ \A j, k \in 1..N+1 : j < k => Start[j+1] <= Start[k]
  /\ Uninit \subseteq Int

Total == Start[N+1] - Gap                        \* the length of the stream
HdrAt(k) == Start[k] + HeaderLen                 \* first byte of its rpc header
BodyAt(k) == HdrAt(k) + Sent(Hdr[k])             \* first byte of its rpc body
EndOf(k) == BodyAt(k) + Sent(Body[k])            \* the byte after message k

VARIABLES
  pos,             \* stream position of the next byte: buf->Buf()
  length,          \* bytes of the current recv not yet consumed
  parse_type,      \* MConnection::_parse_type
  magic_remain,    \* MConnection::_magic_remain
  header_remain,   \* MParser::_header_remain
  rpc_remain,      \* MParser::_rpc_remain
  length_header,   \* _length_header: offset |-> position of the byte there
  header_buf,      \* _req's HeaderBuf: its guards, in order
  body_buf,        \* _req's BodyBuf
  reqs             \* the requests handed to do_request so far

vars == <<pos, length, parse_type, magic_remain, header_remain, rpc_remain,
          length_header, header_buf, body_buf, reqs>>

ParseType == {"M_MAGIC", "M_HEADER", "M_RPC_HEADER", "M_RPC_CONTENT"}
Offset == 0..HeaderLen-1
Slice == [at : Int, size : Int]
Min2(a, b) == IF a < b THEN a ELSE b

TypeOK == /\ pos \in Int /\ pos <= Total
          /\ length \in 0..Total-pos
          /\ parse_type \in ParseType
          /\ magic_remain \in 0..MagicLen
          /\ header_remain \in 0..HeaderLen
          /\ rpc_remain \in Int
          /\ length_header \in [Offset -> Int]
          /\ header_buf \in Seq(Slice)
          /\ body_buf \in Seq(Slice)
          /\ reqs \in Seq([header : Seq(Slice), body : Seq(Slice)])

\* A new connection, with the parser that the first default case makes.
Init == /\ pos = 0
        /\ length = 0
        /\ parse_type = "M_MAGIC"
        /\ magic_remain = MagicLen
        /\ header_remain = HeaderLen
        /\ rpc_remain \in Uninit
        /\ length_header = [i \in Offset |-> -1]
        /\ header_buf = <<>>
        /\ body_buf = <<>>
        /\ reqs = <<>>

\* recv returned n > 0 bytes: parse_connection(conn, buf, n).
Recv(n) == /\ length = 0
           /\ n <= Total - pos
           /\ length' = n
           /\ UNCHANGED <<pos, parse_type, magic_remain, header_remain,
                          rpc_remain, length_header, header_buf, body_buf, reqs>>

\* buf->Consume(remain), length -= remain.
Consume(remain) == pos' = pos + remain /\ length' = length - remain

ParseMagic ==
  /\ length > 0
  /\ parse_type = "M_MAGIC"
  /\ LET remain == Min2(magic_remain, length)
     IN /\ Consume(remain)
        /\ magic_remain' = magic_remain - remain
        /\ parse_type' = IF magic_remain' > 0 THEN parse_type ELSE "M_HEADER"
  /\ UNCHANGED <<header_remain, rpc_remain, length_header, header_buf,
                 body_buf, reqs>>

\* How many of 1..m come before the first one in Bad.
Before(m, Bad) ==
  CHOOSE n \in 0..m : (\A k \in 1..n : k \notin Bad) /\ (n < m => n + 1 \in Bad)

\* The messages in front of the first one that announces a negative length,
\* and the state in which no such message has been parsed.
Sound == Before(N, {k \in 1..N : Hdr[k] < 0 \/ Body[k] < 0})
InStep == Len(reqs) <= Sound

\* What the length fields may decode to when the header was copied from lh.
\* The magic read as a number is larger than any stream.  A negative length
\* leads back over bytes that are then parsed again, or in front of the
\* buffer: any number may be read from there.
HeaderStart(lh) == {k \in 1..N : \A i \in Offset : lh[i] = Start[k] + i}
Decoded(lh, len) ==
  {len[k] : k \in HeaderStart(lh)}
    \cup (IF ~InStep THEN Uninit ELSE IF HeaderStart(lh) = {} THEN {Total + 1} ELSE {})
RPCHeaderLength(lh) == Decoded(lh, Hdr)
RPCBodyLength(lh) == Decoded(lh, Body)

\* Mutant: every piece of the length header is copied to its beginning.
SplitHeaderRestarts ==
  /\ length > 0
  /\ parse_type = "M_HEADER"
  /\ LET remain == Min2(header_remain, length)
     IN /\ Consume(remain)
        /\ header_remain' = header_remain - remain
        /\ length_header' = [i \in Offset |-> IF i < remain THEN pos + i
                                              ELSE length_header[i]]
        /\ IF header_remain' > 0
           THEN UNCHANGED <<parse_type, rpc_remain>>
           ELSE /\ parse_type' = "M_RPC_HEADER"
                /\ rpc_remain' \in RPCHeaderLength(length_header')
  /\ UNCHANGED <<magic_remain, header_buf, body_buf, reqs>>

SplitHeader ==
  /\ length > 0
  /\ parse_type = "M_HEADER"
  /\ LET remain == Min2(header_remain, length)
         first == HeaderLen - header_remain
     IN /\ Consume(remain)
        /\ header_remain' = header_remain - remain
        /\ length_header' =
             [i \in Offset |-> IF i \in first..first+remain-1
                               THEN pos + (i - first) ELSE length_header[i]]
        /\ IF header_remain' > 0
           THEN UNCHANGED <<parse_type, rpc_remain>>
           ELSE /\ parse_type' = "M_RPC_HEADER"
                /\ rpc_remain' \in RPCHeaderLength(length_header')
  /\ UNCHANGED <<magic_remain, header_buf, body_buf, reqs>>

SplitRpcHeader ==
  /\ length > 0
  /\ parse_type = "M_RPC_HEADER"
  /\ LET remain == Min2(rpc_remain, length)
     IN /\ header_buf' = Append(header_buf, [at |-> pos, size |-> remain])
        /\ Consume(remain)
        /\ IF rpc_remain - remain > 0
           THEN rpc_remain' = rpc_remain - remain /\ UNCHANGED parse_type
           ELSE /\ rpc_remain' \in RPCBodyLength(length_header)
                /\ parse_type' = "M_RPC_CONTENT"
  /\ UNCHANGED <<magic_remain, header_remain, length_header, body_buf, reqs>>

\* Mutant: the new request shares the header buffer of the old one.
SplitContentKeepsHeader ==
  /\ length > 0
  /\ parse_type = "M_RPC_CONTENT"
  /\ LET remain == Min2(rpc_remain, length)
         body == Append(body_buf, [at |-> pos, size |-> remain])
     IN /\ Consume(remain)
        /\ IF rpc_remain - remain > 0
           THEN /\ rpc_remain' = rpc_remain - remain
                /\ body_buf' = body
                /\ UNCHANGED <<parse_type, header_remain, length_header, reqs>>
           ELSE /\ reqs' = Append(reqs, [header |-> header_buf, body |-> body])
                /\ body_buf' = <<>>
                /\ length_header' = [i \in Offset |-> -1]
                /\ header_remain' = HeaderLen
                /\ rpc_remain' = 0
                /\ parse_type' = "M_MAGIC"
  /\ UNCHANGED <<magic_remain, header_buf>>

\* The last byte of a body completes the request: a new one takes its place,
\* Reset starts the next message at M_MAGIC, and the caller queues it.
SplitContent ==
  /\ length > 0
  /\ parse_type = "M_RPC_CONTENT"
  /\ LET remain == Min2(rpc_remain, length)
         body == Append(body_buf, [at |-> pos, size |-> remain])
     IN /\ Consume(remain)
        /\ IF rpc_remain - remain > 0
           THEN /\ rpc_remain' = rpc_remain - remain
                /\ body_buf' = body
                /\ UNCHANGED <<parse_type, header_remain, length_header,
                               header_buf, reqs>>
           ELSE /\ reqs' = Append(reqs, [header |-> header_buf, body |-> body])
                /\ header_buf' = <<>>
                /\ body_buf' = <<>>
                /\ length_header' = [i \in Offset |-> -1]
                /\ header_remain' = HeaderLen
                /\ rpc_remain' = 0
                /\ parse_type' = "M_MAGIC"
  /\ UNCHANGED magic_remain

Parse == ParseMagic \/ SplitHeader \/ SplitRpcHeader \/ SplitContent

Next == Parse \/ \E n \in 1..MaxRecv : Recv(n)

Spec == Init /\ [][Next]_vars

(***************************************************************************)
(* Properties.                                                             *)
(***************************************************************************)
\* The guards of buf are adjacent and together cover the bytes from..to-1.
Covers(buf, from, to) ==
  /\ \A i \in 1..Len(buf) :
       /\ buf[i].size >= 0
       /\ buf[i].at = IF i = 1 THEN from ELSE buf[i-1].at + buf[i-1].size
  /\ IF buf = <<>> THEN from = to
     ELSE buf[Len(buf)].at + buf[Len(buf)].size = to

\* The messages the parser can tell apart: with the magic only in front of
\* the first message all of them up to a negative length; if the client
\* repeats the magic, only the first.
Understood == IF Gap = 0 THEN Sound ELSE Min2(1, Sound)

\* However recv cuts the stream, the requests handed to do_request are the
\* messages of the client, in order, each with exactly its own bytes; after
\* a repeated magic (which MagicRemain, never reset, no longer expects) no
\* further request appears.  A message that announces a negative length,
\* which nobody refuses, ends this.
RequestsAreMessages ==
  /\ Sound = N \/ InStep => Len(reqs) <= Understood
  /\ \A k \in 1..Min2(Len(reqs), Understood) :
       /\ Covers(reqs[k].header, HdrAt(k), BodyAt(k))
       /\ Covers(reqs[k].body, BodyAt(k), EndOf(k))

\* No complete message is left unanswered in the parser: once a recv is
\* consumed, only a message with an empty body may be pending, and only
\* while not one byte has followed it.
NoneHeldBack ==
  length = 0 =>
    \A k \in 1..Understood :
      (IF Body[k] > 0 THEN EndOf(k) <= pos ELSE EndOf(k) < pos) => Len(reqs) >= k

=============================================================================
