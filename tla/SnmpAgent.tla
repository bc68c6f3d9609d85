----------------------------- MODULE SnmpAgent ------------------------------
(***************************************************************************)
(* gencode/snmp_agent/main.go: one goroutine (ListenAndServe) reads        *)
(* datagrams and sends each on the channel of its client; the first        *)
(* datagram of a client makes the channel and starts a goroutine           *)
(* (handleClient) that ranges over it.  No channel is ever closed, so a    *)
(* handler never leaves its loop and the deferred delete never runs.       *)
(*                                                                         *)
(* A datagram is known by its client and its number.  The lookup is one    *)
(* action: it runs under the mutex, which nobody else ever takes.  line 72 *)
(* fills in Data only, so packet.Addr is nil and WriteToUDP fails.         *)
(***************************************************************************)
EXTENDS Naturals, Sequences

CONSTANTS
  Clients,      \* the addresses datagrams come from
  ChanCap,      \* capacity of a client's channel (10 in the code)
  SocketCap,    \* bound: datagrams the kernel keeps for the socket
  MaxPackets    \* bound: datagrams that arrive from one client

ASSUME AgentAssumption == ChanCap \in Nat \ {0} /\ SocketCap \in Nat /\ MaxPackets \in Nat

VARIABLES
  socket,          \* datagrams that arrived and were not read
  sent,            \* sent[c]: how many datagrams of c arrived
  pc,              \* where ListenAndServe is: "read", "lock" or "send"
  packet,          \* <<>>, or <<p>>: the datagram it has read
  clientChan,      \* its local clientChan: an index of chans, 0 before the first
  clientRequests,  \* the map: client |-> index of its channel, 0 if there is none
  chans,           \* the channels made so far, each with its handler
  received,        \* history: received[c], the datagrams of c read, in order
  handled          \* history: handled[c], those whose handler is done with them

avars == <<socket, sent, pc, packet, clientChan, clientRequests, chans,
          received, handled>>

Packet == [from : Clients, n : Nat]
HandlerPC == {"range", "parse", "get", "write"}
Chan == [queue : Seq(Packet),      \* what is in the channel
         at : HandlerPC,           \* where its handler is
         work : Seq(Packet)]       \* the packet its handler works on, if any

AgentTypeOK ==
  /\ socket \in Seq(Packet)
  /\ sent \in [Clients -> Nat]
  /\ pc \in {"read", "lock", "send"}
  /\ packet \in Seq(Packet)
  /\ chans \in Seq(Chan)
  /\ clientChan \in 0..Len(chans)
  /\ clientRequests \in [Clients -> 0..Len(chans)]
  /\ received \in [Clients -> Seq(Packet)]
  /\ handled \in [Clients -> Seq(Packet)]

AgentInit ==
  /\ socket = <<>>
  /\ sent = [c \in Clients |-> 0]
  /\ pc = "read"
  /\ packet = <<>>
  /\ clientChan = 0
  /\ clientRequests = [c \in Clients |-> 0]
  /\ chans = <<>>
  /\ received = [c \in Clients |-> <<>>]
  /\ handled = [c \in Clients |-> <<>>]

\* A datagram of c arrives.  One that the network or a full socket drops never
\* shows in the program and is not counted.
Arrive(c) ==
  /\ sent[c] < MaxPackets
  /\ Len(socket) < SocketCap
  /\ sent' = [sent EXCEPT ![c] = @ + 1]
  /\ socket' = Append(socket, [from |-> c, n |-> sent[c] + 1])
  /\ UNCHANGED <<pc, packet, clientChan, clientRequests, chans, received, handled>>

\* ReadFromUDP returns a datagram.  (When it returns an error the buffer goes
\* back to the pool and the loop starts again: a step that changes nothing.)
Read ==
  /\ pc = "read"
  /\ socket # <<>>
  /\ packet' = <<Head(socket)>>
  /\ socket' = Tail(socket)
  /\ received' = [received EXCEPT ![Head(socket).from] = Append(@, Head(socket))]
  /\ pc' = "lock"
  /\ UNCHANGED <<sent, clientChan, clientRequests, chans, handled>>

\* Mutant: the entry is made and the channel is not.
LookupNoChannel ==
  /\ pc = "lock"
  /\ clientRequests' = [clientRequests EXCEPT ![packet[1].from] = Len(chans) + 1]
  /\ clientChan' = Len(chans) + 1
  /\ pc' = "send"
  /\ UNCHANGED <<socket, sent, packet, chans, received, handled>>

\* The block under agent.mutex: find the channel, or make it and its handler.
Lookup ==
  /\ pc = "lock"
  /\ LET c == packet[1].from
     IN IF clientRequests[c] # 0
        THEN clientChan' = clientRequests[c] /\ UNCHANGED <<chans, clientRequests>>
        ELSE /\ chans' = Append(chans, [queue |-> <<>>, at |-> "range", work |-> <<>>])
             /\ clientChan' = Len(chans) + 1
             /\ clientRequests' = [clientRequests EXCEPT ![c] = Len(chans) + 1]
  /\ pc' = "send"
  /\ UNCHANGED <<socket, sent, packet, received, handled>>

\* Mutant: the send does not wait; a full channel drops the packet.
EnqueueDrops ==
  /\ pc = "send"
  /\ chans' = [chans EXCEPT ![clientChan].queue =
                 IF Len(@) < ChanCap THEN @ \o packet ELSE @]
  /\ packet' = <<>>
  /\ pc' = "read"
  /\ UNCHANGED <<socket, sent, clientChan, clientRequests, received, handled>>

\* clientChan <- packet: blocks while the channel is full.
Enqueue ==
  /\ pc = "send"
  /\ Len(chans[clientChan].queue) < ChanCap
  /\ chans' = [chans EXCEPT ![clientChan].queue = @ \o packet]
  /\ packet' = <<>>
  /\ pc' = "read"
  /\ UNCHANGED <<socket, sent, clientChan, clientRequests, received, handled>>

ListenAndServe == Read \/ Lookup \/ Enqueue

\* The handler is done with its packet: continue, or the end of the loop body.
Continue(h) ==
  /\ chans' = [chans EXCEPT ![h] = [@ EXCEPT !.at = "range", !.work = <<>>]]
  /\ LET c == chans[h].work[1].from
     IN handled' = [handled EXCEPT ![c] = @ \o chans[h].work]

Goto(h, at) == chans' = [chans EXCEPT ![h].at = at] /\ UNCHANGED handled

\* Mutant: the handler takes one packet and returns.
RangeOnce(h) ==
  /\ chans[h].at = "range"
  /\ chans[h].queue # <<>>
  /\ handled[Head(chans[h].queue).from] = <<>>
  /\ chans' = [chans EXCEPT ![h] = [queue |-> Tail(@.queue), at |-> "parse",
                                    work |-> <<Head(@.queue)>>]]
  /\ UNCHANGED handled

\* for packet := range clientChan
RangeChan(h) ==
  /\ chans[h].at = "range"
  /\ chans[h].queue # <<>>
  /\ chans' = [chans EXCEPT ![h] = [queue |-> Tail(@.queue), at |-> "parse",
                                    work |-> <<Head(@.queue)>>]]
  /\ UNCHANGED handled

\* UnmarshalBER fails, or it is no GET request, or it is one.
ParseRequest(h) == /\ chans[h].at = "parse" 
                   /\ Continue(h) \/ Goto(h, "get")

\* goSNMP.Get returns an error (a timeout in the end), or variables.
GetVariables(h) == /\ chans[h].at = "get" 
                   /\ Continue(h) \/ Goto(h, "write")

\* MarshalBER or WriteToUDP, whose address is nil, returns an error.
WriteFails(h) == chans[h].at = "write" /\ Continue(h)

handleClient(h) ==
  /\ RangeChan(h) \/ ParseRequest(h) \/ GetVariables(h) \/ WriteFails(h)
  /\ UNCHANGED <<socket, sent, pc, packet, clientChan, clientRequests, received>>

AgentNext ==
  \/ \E c \in Clients : Arrive(c)
  \/ ListenAndServe
  \/ \E h \in 1..Len(chans) : handleClient(h)

(***************************************************************************)
(* Properties.                                                             *)
(***************************************************************************)
Channel(c) == chans[clientRequests[c]]

\* What of c was read and is not handled, oldest first.
Pending(c) ==
  (IF clientRequests[c] = 0 THEN <<>> ELSE Channel(c).work \o Channel(c).queue)
    \o (IF packet # <<>> /\ packet[1].from = c THEN packet ELSE <<>>)

\* Once read, no datagram is lost, repeated or overtaken by a later one of
\* its client: the handler, its channel and the dispatcher (which may be
\* blocked on the full channel) together hold exactly what is not handled.
InOrderPerClient == \A c \in Clients : received[c] = handled[c] \o Pending(c)

\* Every datagram read is handled.  A slow client, whose full channel blocks
\* the dispatcher and with it everyone, does so only for a while: the
\* datagram in the dispatcher's hands is handled too.
ReadIsHandled == \A c \in Clients : []<>(Len(handled[c]) = Len(received[c]))
=============================================================================
