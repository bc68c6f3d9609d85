------------------------------ MODULE MCRpcCall -----------------------------
(***************************************************************************)
(* A connection of mg_server for TLC: in a behaviour either the calls of   *)
(* RpcCall, or the sending of SendQueue, or the header of one request.     *)
(*                                                                         *)
(* The calls: the message of client.cpp; a call with an empty body whose   *)
(* header ends in the middle of a timeout; an empty header; a call with a  *)
(* field that ends the parse; a message that announces a negative length.  *)
(***************************************************************************)
EXTENDS RpcCall, SendQueue

HdrFields5 == << <<Field(1, "varint", "REQUEST"), Field(2, "bytes", "hello")>>,
                 <<Field(2, "bytes", "hello"), Field(3, "bytes", "t")>>,
                 <<>>,
                 <<Field(2, "bytes", "hello"), Field(4, "end_group", "")>>,
                 <<>> >>
BodyFields5 == << <<Field(1, "bytes", "hello")>>, <<>>,
                  <<Field(1, "bytes", "hello")>>, <<Field(4, "varint", "1")>>, <<>> >>
Hdr5 == <<4, 3, 0, 4, -1>>
Body5 == <<2, 0, 1, 1, 0>>
Start5 == <<4, 18, 29, 38, 51, 59>>

\* The fields of the headers that are parsed one by one: each declared field,
\* whole, with a value that cannot be read and with one that is not UTF-8; one
\* of the wrong type, unknown ones, the end of a group and the tag 0.
Fields == {Field(1, "varint", "REQUEST"), Field(2, "bytes", "hello"),
           Field(2, "bytes", "other"), Field(3, "bytes", "t"),
           Field(1, "varint", Malformed), Field(2, "bytes", Malformed),
           Field(3, "bytes", NotUTF8), Field(1, "bytes", "odd"),
           Field(5, "varint", "1"), Field(5, "bytes", Malformed),
           Field(4, "end_group", ""), Field(0, "varint", "")}
MaxFields == 3     \* bound: fields of a header

VARIABLES
  part,       \* what runs: "call", "send" or "header"
  fields, n   \* the first n bytes of a header with these fields

mcVars == <<part, fields, n>>

MCInit == /\ part \in {"call", "send", "header"}
          /\ IF part = "header"
             THEN \E m \in 0..MaxFields : fields \in [1..m -> Fields] /\ n \in 0..WireSize * m
             ELSE fields = <<>> /\ n = 0
          /\ CallInit
          /\ SendInit
          /\ rpc_remain = 0 \/ part = "call"      \* what a part at rest might have

MCNext == \/ part = "call" /\ CallNext /\ UNCHANGED <<mcVars, sendVars>>
          \/ part = "send" /\ SendNext /\ UNCHANGED <<mcVars, vars, callVars>>

\* The fairness of CallSpec, in the behaviours with calls.
MCSpec == /\ MCInit /\ [][MCNext]_<<mcVars, vars, callVars, sendVars>>
          /\ WF_<<vars, callVars>>(part = "call" /\ ParseMore)
          /\ WF_handled(part = "call" /\ TakeRequest)
          /\ WF_<<vars, callVars>>(part = "call" /\ RecvMore)


=============================================================================
