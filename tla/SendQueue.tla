------------------------------ MODULE SendQueue ------------------------------
(***************************************************************************)
(* gencode/mg_server/server: the bytes of the responses on one connection, *)
(* from do_response through MReadBuf (Append, Next, BackUp, Erase) and     *)
(* MConnection::SendBuf to the socket, which may take any part of what it  *)
(* is given.                                                               *)
(*                                                                         *)
(* The bytes of all responses are numbered from 1 in the order in which    *)
(* do_response makes them.  A guard covers the bytes at+1 .. at+size.      *)
(* SendBuf runs from its call to its return without do_response between,   *)
(* and always starts at the front of the list.                             *)
(***************************************************************************)
EXTENDS Integers, Sequences

CONSTANTS MaxLen,     \* bound: the length of a response
          MaxResp     \* bound: responses made on the connection

ASSUME QueueAssumption == MaxLen \in Nat \ {0} /\ MaxResp \in Nat

VARIABLES
  open,        \* the connection has not been closed
  made,        \* bytes of the responses made so far
  resp,        \* responses made so far
  wire,        \* the bytes given to the socket, in order
  list,        \* _send_buf: its guards
  cur_pos,     \* _send_buf->_cur_pos
  sending,     \* SendBuf is running
  displaced    \* history: some byte has lost its place in the order

sendVars == <<open, made, resp, wire, list, cur_pos, sending, displaced>>

Bytes(from, n) == [i \in 1..n |-> from + i]
Size(g) == g.size - cur_pos        \* what Next returns for the front guard

SendTypeOK == /\ open \in BOOLEAN /\ sending \in BOOLEAN /\ displaced \in BOOLEAN
              /\ made \in Nat /\ resp \in 0..MaxResp
              /\ wire \in Seq(Nat)
              /\ list \in Seq([at : Nat, size : Nat])
              /\ cur_pos \in Nat

SendInit == /\ open = TRUE /\ made = 0 /\ resp = 0 /\ wire = <<>>
            /\ list = <<>> /\ cur_pos = 0 /\ sending = FALSE /\ displaced = FALSE

\* Mutant: the buffer's offset is not moved past the bytes sent.
RespondNoConsume(n, r) ==
  /\ open /\ ~sending /\ resp < MaxResp
  /\ resp' = resp + 1
  /\ made' = made + n
  /\ wire' = wire \o Bytes(made, r)
  /\ list' = IF r < n THEN Append(list, [at |-> made, size |-> n - r]) ELSE list
  /\ displaced' = \/ displaced
                  \/ r > 0 /\ list # <<>>
                  \/ r < n /\ list = <<>> /\ cur_pos # 0
  /\ UNCHANGED <<open, cur_pos, sending>>

\* do_response makes n bytes and send takes the first r of them (none when it
\* would block or is interrupted); the rest is appended to the queue.
Respond(n, r) ==
  /\ open /\ ~sending /\ resp < MaxResp
  /\ resp' = resp + 1
  /\ made' = made + n
  /\ wire' = wire \o Bytes(made, r)
  /\ list' = IF r < n THEN Append(list, [at |-> made + r, size |-> n - r]) ELSE list
  /\ displaced' = \/ displaced
                  \/ r > 0 /\ list # <<>>
                  \/ r < n /\ list = <<>> /\ cur_pos # 0
  /\ UNCHANGED <<open, cur_pos, sending>>

\* do_response or recv_run closes the connection.
Close ==
  /\ open /\ ~sending
  /\ open' = FALSE
  /\ UNCHANGED <<made, resp, wire, list, cur_pos, sending, displaced>>

SendBuf ==
  /\ open /\ ~sending
  /\ sending' = TRUE
  /\ UNCHANGED <<open, made, resp, wire, list, cur_pos, displaced>>

\* Next finds no guard: SendBuf returns.
SendEmpty ==
  /\ sending /\ list = <<>>
  /\ sending' = FALSE
  /\ UNCHANGED <<open, made, resp, wire, list, cur_pos, displaced>>

\* Mutant: BackUp is given the whole size, not what is left of it.
SendPartBackUpAll(r) ==
  /\ sending /\ list # <<>>
  /\ r < Size(Head(list))
  /\ wire' = wire \o Bytes(Head(list).at + cur_pos, r)
  /\ cur_pos' = Head(list).size - Size(Head(list))
  /\ UNCHANGED <<open, made, resp, list, sending, displaced>>

\* send takes r bytes of the front guard but not all: BackUp(size - ret).
SendPart(r) ==
  /\ sending /\ list # <<>>
  /\ r < Size(Head(list))
  /\ wire' = wire \o Bytes(Head(list).at + cur_pos, r)
  /\ cur_pos' = Head(list).size - (Size(Head(list)) - r)
  /\ UNCHANGED <<open, made, resp, list, sending, displaced>>

\* send takes all of it: Erase.  _cur_pos keeps its value.
SendAll ==
  /\ sending /\ list # <<>> /\ Size(Head(list)) > 0
  /\ wire' = wire \o Bytes(Head(list).at + cur_pos, Size(Head(list)))
  /\ list' = Tail(list)
  /\ displaced' = (displaced \/ (cur_pos # 0 /\ Tail(list) # <<>>))
  /\ UNCHANGED <<open, made, resp, cur_pos, sending>>

\* Next can return a negative size, which send takes for a huge one: some
\* bytes that belong to no response (numbered 0) are sent, and the guard is
\* erased.
SendOverrun(r) ==
  /\ sending /\ list # <<>> /\ Size(Head(list)) < 0
  /\ wire' = wire \o [i \in 1..r |-> 0]
  /\ list' = Tail(list)
  /\ UNCHANGED <<open, made, resp, cur_pos, sending, displaced>>

\* send fails, would block, or is called with nothing left of a guard: the
\* connection is closed.
SendFails ==
  /\ sending /\ list # <<>>
  /\ sending' = FALSE /\ open' = FALSE
  /\ UNCHANGED <<made, resp, wire, list, cur_pos, displaced>>

Sending == \/ SendEmpty \/ SendAll \/ SendFails
           \/ \E r \in 1..MaxLen : SendPart(r) \/ SendOverrun(r)

SendNext == \/ \E n \in 1..MaxLen : \E r \in 0..n : Respond(n, r)
            \/ Close \/ SendBuf \/ Sending

SendSpec == SendInit /\ [][SendNext]_sendVars

(***************************************************************************)
(* Properties.                                                             *)
(***************************************************************************)
\* The bytes on the wire are the bytes of the responses in their order,
\* without a gap or a repetition, however send cuts them, until a response
\* is sent past a queued one or a queued one is read from the offset that
\* an earlier BackUp left behind.
InOrder == ~displaced => \A i \in 1..Len(wire) : wire[i] = i

\* Until then nothing is lost either: what is not on the wire is in the
\* queue, and when the queue is empty the client has been sent everything.
AllSentOrQueued ==
  ~displaced => /\ list = <<>> => Len(wire) = made
                /\ list # <<>> => /\ Head(list).at + cur_pos = Len(wire)
                                  /\ Size(Head(list)) > 0

=============================================================================
