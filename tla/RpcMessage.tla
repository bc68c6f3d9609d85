----------------------------- MODULE RpcMessage -----------------------------
(***************************************************************************)
(* gencode/mg_server, rpc.pb.cpp: the messages RpcHeader, HelloReq and     *)
(* HelloRes and their wire format, as protoc generates them from rpc.proto.*)
(*                                                                         *)
(* On the wire a message is a sequence of fields, each a tag and a value.  *)
(* A byte is the field it belongs to and its index there; byte 0 is the    *)
(* tag.  In memory a message is the value of every field it declares, or   *)
(* Absent where the has-bit is clear, and the fields it does not know.     *)
(***************************************************************************)
EXTENDS Integers, Sequences, SequencesExt

\* Fields of each message by number, with the wire type that is accepted.
RpcHeader == <<"varint", "bytes", "bytes">>       \* type, func, timeout
HelloReq  == <<"bytes">>                          \* name
HelloRes  == <<"bytes">>                          \* name

Absent == "absent"
Torn == "torn"              \* a value of which only a part has arrived
Malformed == "malformed"    \* bytes that are no value of the field's wire type
NotUTF8 == "not UTF-8"      \* a string that VerifyUTF8 refuses
Field(num, wire, v) == [num |-> num, wire |-> wire, v |-> v]

\* The bytes of one field: the tag and, as one byte, the value with its length.
WireSize == 2
Encode(fields) ==
  [i \in 1..WireSize * Len(fields) |->
    [of |-> fields[(i - 1) \div WireSize + 1], i |-> (i - 1) % WireSize]]

\* What memset left in a buffer: a zero, which reads as the tag 0.
Zero == [of |-> Field(0, "varint", Absent), i |-> 0]

\* SharedCtor: no field is set.
New(known) == [val |-> [n \in DOMAIN known |-> Absent], unknown |-> <<>>]

\* tag >> 3 selects the field, the whole tag must be the expected one;
\* anything else goes to handle_unusual.
Accepts(known, field) ==
  field.num \in DOMAIN known /\ known[field.num] = field.wire

\* _internal_set_type, _internal_mutable_func ...: sets the has-bit as well.
Set(msg, num, v) == [msg EXCEPT !.val[num] = v]

\* The field that the bytes of one turn of the loop make: its tag, and the
\* value if all of it is there.
ReadField(bytes) ==
  LET whole == Len(bytes) = WireSize /\ \A i \in 2..Len(bytes) : bytes[i].of = bytes[1].of
  IN [bytes[1].of EXCEPT !.v = IF whole THEN @ ELSE Torn]

\* The loop ends with this field.  handle_unusual goes to message_done at a
\* tag 0 or an end-group tag; CHK_ goes to failure where a value cannot be
\* read, the field number is 0, or a string is not UTF-8.
EndsParse(known, field) ==
  \/ field.num = 0
  \/ field.wire = "end_group"
  \/ field.v = Malformed
  \/ Accepts(known, field) /\ field.wire = "bytes" /\ field.v = NotUTF8

\* A string is set before it is read and then checked, a number and an
\* unknown field only once they have been read.
Sets(known, field) ==
  Accepts(known, field) /\ ~(field.wire = "varint" /\ field.v = Malformed)
ValueOf(field) == IF field.v = Malformed THEN Torn ELSE field.v

\* One turn of the loop of _InternalParse, with the bytes of one field (fewer
\* at the end of the input).
ParseField(known, msg, bytes) ==
  LET field == ReadField(bytes)
      cut == Len(bytes) < WireSize
  IN IF Sets(known, field)
     THEN IF cut /\ field.wire = "varint" THEN msg
          ELSE Set(msg, field.num, ValueOf(field))
     ELSE IF cut \/ EndsParse(known, field) THEN msg
          ELSE [msg EXCEPT !.unknown = Append(@, field)]


\* The loop, until the input ends or a field ends it.  after[k] is the message
\* after k turns.
InternalParse(known, bytes) ==
  LET turns == (Len(bytes) + WireSize - 1) \div WireSize
      turn(k) == SubSeq(bytes, WireSize * (k - 1) + 1,
                        IF k < turns THEN WireSize * k ELSE Len(bytes))
      after[k \in 0..turns] ==
        IF k = 0 THEN New(known)
        ELSE IF \E j \in 1..k-1 : EndsParse(known, ReadField(turn(j))) THEN after[k - 1]
        ELSE ParseField(known, after[k - 1], turn(k))
  IN after[turns]

ParseRpcHeader(bytes) == InternalParse(RpcHeader, bytes)
ParseHelloRes(bytes) == InternalParse(HelloRes, bytes)

\* Each field that is set, in the order of their numbers, then the unknown.
InternalSerialize(known, msg) ==
  LET written(n) == IF msg.val[n] = Absent THEN <<>> ELSE <<Field(n, known[n], msg.val[n])>>
  IN Encode(FlattenSeq([n \in DOMAIN known |-> written(n)]) \o msg.unknown)

SerializeRpcHeader(msg) == InternalSerialize(RpcHeader, msg)
SerializeHelloReq(msg) == InternalSerialize(HelloReq, msg)
SerializeHelloRes(msg) == InternalSerialize(HelloRes, msg)

\* The size of field num if its has-bit is set, and of the unknown fields.
FieldSize(msg, num) == IF msg.val[num] = Absent THEN 0 ELSE WireSize
UnknownSize(msg) == WireSize * Len(msg.unknown)

ByteSizeRpcHeader(msg) ==
  FieldSize(msg, 2) + FieldSize(msg, 3)
    + FieldSize(msg, 1) + UnknownSize(msg)
ByteSizeHelloReq(msg) == FieldSize(msg, 1) + UnknownSize(msg)
ByteSizeHelloRes(msg) == FieldSize(msg, 1) + UnknownSize(msg)
=============================================================================
