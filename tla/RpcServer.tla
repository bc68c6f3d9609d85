------------------------------ MODULE RpcServer ------------------------------
(***************************************************************************)
(* gencode/mg_server/server: the epoll loop (accept_run) with recv_run,    *)
(* do_request, do_response, send_run and MConnection::SendBuf, the         *)
(* connection map (MConnManager) and the pool of receive and send buffers  *)
(* (MBufferPool, MBufferGuard).  One thread; the kernel and the clients    *)
(* act between its steps.                                                  *)
(*                                                                         *)
(* Bytes are counted in chunks, a chunk being what one recv returns; how a *)
(* chunk is cut into messages is RpcFraming's subject and here a choice    *)
(* among the outcomes it allows.  A response is one guard in the send      *)
(* queue; its bytes are the subject of SendQueue.                          *)
(***************************************************************************)
EXTENDS Integers, Sequences, FiniteSets

CONSTANTS
  Fd,            \* descriptors the kernel gives to accepted sockets
  Listen,        \* the listening socket
  Buffer,        \* the buffers of the pool
  NoBuf,         \* a null MBufferSP
  FirstPool,     \* the pool after its constructor: a sequence of all buffers
  MaxConn,       \* bound: connections clients make
  MaxChunk,      \* bound: chunks clients send
  MaxIntr,       \* bound: calls that a signal interrupts
  MaxReq         \* bound: requests that one chunk completes

ASSUME ServerAssumption ==
  /\ Listen \notin Fd /\ NoBuf \notin Buffer
  /\ FirstPool \in Seq(Buffer)
  /\ \A b \in Buffer : \E i \in 1..Len(FirstPool) : FirstPool[i] = b
  /\ \A i, j \in 1..Len(FirstPool) : FirstPool[i] = FirstPool[j] => i = j
  /\ MaxConn \in Nat /\ MaxChunk \in Nat /\ MaxIntr \in Nat
  /\ MaxReq \in Nat \ {0}

VARIABLES
  \* the kernel's view
  backlog,       \* connections waiting to be accepted
  sgen,          \* sgen[fd]: which connection (1, 2, ...) the socket is, 0 if closed
  unread,        \* unread[fd]: chunks in the receive buffer
  fin,           \* fin[fd]: "no", or the client has sent "fin" or "rst"
  full,          \* full[fd]: the send buffer has no room
  ready,         \* ready[fd]: an edge not yet reported by epoll_wait
  \* the program
  cgen,          \* _conns: cgen[fd] is the connection in the map, 0 if none
  partial,       \* partial[fd]: buffers guarded by its incomplete request
  sendq,         \* sendq[fd]: buffers guarded by its _send_buf
  pool,          \* _pool1024
  pc, events, cur,
  buf,           \* the buffer recv_run is reading into
  done,          \* buffers guarded by the requests that are complete
  todo,          \* how many of these do_request has still to look at
  \* history
  history,       \* what has happened to buffers
  conns, chunks, intr

kernel == <<backlog, sgen, unread, fin, full, ready>>
program == <<cgen, partial, sendq, pool>>
loop == <<pc, events, cur, buf, done, todo>>
counts == <<conns, chunks, intr>>
vars == <<kernel, program, loop, history, counts>>

NoEvent == [fd |-> Listen, gen |-> 0, in |-> FALSE, out |-> FALSE]
RecvPC == {"recv_run", "alloc", "recv", "request", "respond"}
SendPC == {"send_run", "send_buf"}
Gen == 0..MaxConn

TypeOK ==
  /\ backlog \in Gen
  /\ sgen \in [Fd -> Gen] /\ cgen \in [Fd -> Gen]
  /\ unread \in [Fd -> 0..MaxChunk]
  /\ fin \in [Fd -> {"no", "fin", "rst"}]
  /\ full \in [Fd -> BOOLEAN] /\ ready \in [Fd -> BOOLEAN]
  /\ partial \in [Fd -> Seq(Buffer)] /\ sendq \in [Fd -> Seq(Buffer)]
  /\ pool \in Seq(Buffer) /\ done \in Seq(Buffer)
  /\ pc \in {"wait", "dispatch", "exit"} \cup RecvPC \cup SendPC
  /\ events \subseteq [fd : Fd \cup {Listen}, gen : Gen, in : BOOLEAN, out : BOOLEAN]
  /\ cur \in [fd : Fd \cup {Listen}, gen : Gen, in : BOOLEAN, out : BOOLEAN]
  /\ buf \in Buffer \cup {NoBuf} /\ todo \in 0..MaxReq
  /\ history \subseteq {"split", "framing", "send_error", "close_held"}
  /\ conns \in Gen /\ chunks \in 0..MaxChunk /\ intr \in 0..MaxIntr

Init ==
  /\ backlog = 0
  /\ sgen = [f \in Fd |-> 0] /\ cgen = [f \in Fd |-> 0]
  /\ unread = [f \in Fd |-> 0] /\ fin = [f \in Fd |-> "no"]
  /\ full = [f \in Fd |-> FALSE] /\ ready = [f \in Fd |-> FALSE]
  /\ partial = [f \in Fd |-> <<>>] /\ sendq = [f \in Fd |-> <<>>]
  /\ pool = FirstPool /\ done = <<>>
  /\ pc = "wait" /\ events = {} /\ cur = NoEvent /\ buf = NoBuf
  /\ todo = 0
  /\ history = {}
  /\ conns = 0 /\ chunks = 0 /\ intr = 0

(***************************************************************************)
(* Clients and the kernel.                                                 *)
(***************************************************************************)
Connect ==
  /\ conns < MaxConn
  /\ conns' = conns + 1 /\ backlog' = backlog + 1
  /\ UNCHANGED <<sgen, unread, fin, full, ready, program, loop, history, chunks, intr>>

Arrive(f) ==
  /\ sgen[f] # 0 /\ fin[f] = "no" /\ chunks < MaxChunk
  /\ chunks' = chunks + 1
  /\ unread' = [unread EXCEPT ![f] = @ + 1]
  /\ ready' = [ready EXCEPT ![f] = TRUE]
  /\ UNCHANGED <<backlog, sgen, fin, full, program, loop, history, conns, intr>>

Hangup(f, how) ==
  /\ sgen[f] # 0 /\ fin[f] = "no"
  /\ fin' = [fin EXCEPT ![f] = how]
  /\ ready' = [ready EXCEPT ![f] = TRUE]
  /\ UNCHANGED <<backlog, sgen, unread, full, program, loop, history, counts>>

\* The client reads: room in the send buffer again.
Drain(f) ==
  /\ sgen[f] # 0 /\ full[f]
  /\ full' = [full EXCEPT ![f] = FALSE]
  /\ ready' = [ready EXCEPT ![f] = TRUE]
  /\ UNCHANGED <<backlog, sgen, unread, fin, program, loop, history, counts>>

(***************************************************************************)
(* accept_run.                                                             *)
(***************************************************************************)
Readable(f) == unread[f] > 0 \/ fin[f] # "no"

\* epoll_wait reports every edge since the last call, with the current mask;
\* the listening socket, which is level triggered, while it has a backlog.
EpollWait ==
  LET hot == {f \in Fd : sgen[f] # 0 /\ ready[f]}
      client == {[fd |-> f, gen |-> sgen[f], in |-> Readable(f), out |-> ~full[f]]
                 : f \in hot}
  IN /\ pc = "wait"
     /\ hot # {} \/ backlog > 0
     /\ events' = client \cup (IF backlog > 0 THEN {NoEvent} ELSE {})
     /\ ready' = [f \in Fd |-> ready[f] /\ f \notin hot]
     /\ pc' = "dispatch"
     /\ UNCHANGED <<backlog, sgen, unread, fin, full, program, cur, buf, done, todo,
                    history, counts>>

BatchDone ==
  /\ pc = "dispatch" /\ events = {}
  /\ pc' = "wait" /\ cur' = NoEvent
  /\ UNCHANGED <<kernel, program, events, buf, done, todo, history, counts>>

\* gConnManager->CreateConn: an fd that is in the map is left alone.
CreateConn(f, g) ==
  IF cgen[f] # 0 THEN UNCHANGED <<cgen, partial, sendq>>
  ELSE /\ cgen' = [cgen EXCEPT ![f] = g]
       /\ partial' = [partial EXCEPT ![f] = <<>>]
       /\ sendq' = [sendq EXCEPT ![f] = <<>>]

\* accept, epoll_ctl(ADD) and CreateConn.  A new socket can be written to,
\* which is its first edge.
Accept ==
  /\ pc = "dispatch" /\ NoEvent \in events /\ backlog > 0
  /\ events' = events \ {NoEvent}
  /\ backlog' = backlog - 1
  /\ \E f \in Fd :
       LET g == conns - backlog + 1
       IN /\ sgen[f] = 0
          /\ sgen' = [sgen EXCEPT ![f] = g]
          /\ ready' = [ready EXCEPT ![f] = TRUE]
          /\ CreateConn(f, g)
  /\ UNCHANGED <<unread, fin, full, pool, pc, cur, buf, done, todo, history, counts>>

\* accept fails: continue.
AcceptFails ==
  /\ pc = "dispatch" /\ NoEvent \in events
  /\ events' = events \ {NoEvent}
  /\ UNCHANGED <<kernel, program, pc, cur, buf, done, todo, history, counts>>

\* epoll_ctl fails: close the new socket and leave the loop for good.
AcceptStops ==
  /\ pc = "dispatch" /\ NoEvent \in events /\ backlog > 0
  /\ events' = {} /\ backlog' = backlog - 1
  /\ pc' = "exit"
  /\ UNCHANGED <<sgen, unread, fin, full, ready, program, cur, buf, done, todo, history, counts>>

\* Mutant: "else if" instead of the second if of the dispatch.
AfterRecvNoSend == IF cur.fd = cur.fd THEN "dispatch" ELSE "send_run"

AfterRecv == IF cur.out THEN "send_run" ELSE "dispatch"

\* Mutant: the index of the batch does not advance.
ClientEventAgain ==
  /\ pc = "dispatch"
  /\ \E e \in events \ {NoEvent} :
       /\ cur' = e
       /\ pc' = IF e.in THEN "recv_run" ELSE IF e.out THEN "send_run" ELSE "dispatch"
  /\ UNCHANGED <<kernel, program, events, buf, done, todo, history, counts>>

ClientEvent ==
  /\ pc = "dispatch"
  /\ \E e \in events \ {NoEvent} :
       /\ events' = events \ {e}
       /\ cur' = e
       /\ pc' = IF e.in THEN "recv_run" ELSE IF e.out THEN "send_run" ELSE "dispatch"
  /\ UNCHANGED <<kernel, program, buf, done, todo, history, counts>>

\* Mutant: CloseConn does not erase the connection.
CloseConnKeepsEntry(f, also) ==
  /\ sgen' = [sgen EXCEPT ![f] = 0]
  /\ unread' = [unread EXCEPT ![f] = 0]
  /\ fin' = [fin EXCEPT ![f] = "no"]
  /\ full' = [full EXCEPT ![f] = FALSE]
  /\ ready' = [ready EXCEPT ![f] = FALSE]
  /\ history' = history \cup also
  /\ UNCHANGED <<backlog, cgen, partial, sendq>>

(***************************************************************************)
(* MConnManager::CloseConn.  Closing the socket takes it out of the epoll  *)
(* set and discards what it had buffered.  Closing again changes nothing.  *)
(* A connection and its parser own each other and are never destroyed, so  *)
(* the buffers that its requests and responses guard stay with them.       *)
(* "also" names what else is lost with it, for the history.                *)
(***************************************************************************)
CloseConn(f, also) ==
  /\ cgen' = [cgen EXCEPT ![f] = 0]
  /\ sgen' = [sgen EXCEPT ![f] = 0]
  /\ unread' = [unread EXCEPT ![f] = 0]
  /\ fin' = [fin EXCEPT ![f] = "no"]
  /\ full' = [full EXCEPT ![f] = FALSE]
  /\ ready' = [ready EXCEPT ![f] = FALSE]
  /\ partial' = [partial EXCEPT ![f] = <<>>]
  /\ sendq' = [sendq EXCEPT ![f] = <<>>]
  /\ history' = history \cup also \cup
                  (IF partial[f] \o sendq[f] = <<>> THEN {} ELSE {"close_held"})
  /\ UNCHANGED backlog

(***************************************************************************)
(* recv_run.                                                               *)
(***************************************************************************)
RecvRun ==
  /\ pc = "recv_run"
  /\ IF cgen[cur.fd] = 0
     THEN CloseConn(cur.fd, {}) /\ pc' = AfterRecv
     ELSE pc' = "alloc" /\ UNCHANGED <<kernel, cgen, partial, sendq, history>>
  /\ UNCHANGED <<pool, events, cur, buf, done, todo, counts>>

\* Mutant: recv_run goes on with a null buffer.
AllocRecvNull ==
  /\ pc = "alloc"
  /\ IF pool = <<>> THEN UNCHANGED pool ELSE pool' = Tail(pool)
  /\ pc' = "recv"
  /\ UNCHANGED <<kernel, cgen, partial, sendq, history, buf>>
  /\ UNCHANGED <<events, cur, done, todo, counts>>

\* Three tries of Allocate, with nothing in between that could fill the pool.
AllocRecv ==
  /\ pc = "alloc"
  /\ IF pool = <<>>
     THEN CloseConn(cur.fd, {}) /\ pc' = AfterRecv /\ UNCHANGED <<pool, buf>>
     ELSE /\ buf' = Head(pool) /\ pool' = Tail(pool) /\ pc' = "recv"
          /\ UNCHANGED <<kernel, cgen, partial, sendq, history>>
  /\ UNCHANGED <<events, cur, done, todo, counts>>

\* GiveBack(buf): the buffer goes to the end of the pool.
GiveBackBuf == pool' = Append(pool, buf) /\ buf' = NoBuf

\* Mutant: the buffer is not given back when there is nothing to read.
RecvAgainLeaks ==
  /\ pc = "recv" /\ sgen[cur.fd] # 0 /\ ~Readable(cur.fd)
  /\ buf' = NoBuf
  /\ pc' = AfterRecv
  /\ UNCHANGED <<kernel, program, events, cur, done, todo, history, counts>>

RecvAgain ==
  /\ pc = "recv" /\ sgen[cur.fd] # 0 /\ ~Readable(cur.fd)
  /\ GiveBackBuf
  /\ pc' = AfterRecv
  /\ UNCHANGED <<kernel, cgen, partial, sendq, events, cur, done, todo, history, counts>>

RecvInterrupted ==
  /\ pc = "recv" /\ sgen[cur.fd] # 0 /\ intr < MaxIntr
  /\ intr' = intr + 1
  /\ GiveBackBuf
  /\ pc' = "alloc"
  /\ UNCHANGED <<kernel, cgen, partial, sendq, events, cur, done, todo, history,
                 conns, chunks>>

\* recv returns 0 (the client is done), or fails: reset, or the descriptor
\* was closed while a response was sent.
RecvEnds ==
  /\ pc = "recv"
  /\ \/ sgen[cur.fd] = 0 \/ fin[cur.fd] = "rst"
     \/ unread[cur.fd] = 0 /\ fin[cur.fd] = "fin"
  /\ GiveBackBuf
  /\ CloseConn(cur.fd, {})
  /\ pc' = AfterRecv
  /\ UNCHANGED <<events, cur, done, todo, counts>>

Copies(n) == [i \in 1..n |-> buf]

\* recv returns a chunk: parse_connection.  The chunk completes k requests.
\* It gets a guard for each piece of an rpc header or body in it: i for the
\* requests it completes (both parts of a request have one, the first
\* request may have begun earlier) and j for one it leaves incomplete.  A
\* chunk that holds nothing but magic and length bytes gets none, and its
\* buffer is dropped.
RecvChunk ==
  LET f == cur.fd
  IN /\ pc = "recv" /\ sgen[f] # 0 /\ unread[f] > 0 /\ fin[f] # "rst"
     /\ unread' = [unread EXCEPT ![f] = @ - 1]
     /\ \E k \in 0..MaxReq, j \in 0..2 :
        \E i \in (IF k > 0 /\ partial[f] # <<>> THEN {2*k - 1, 2*k} ELSE {2*k}) :
          /\ todo' = k
          /\ done' = IF k = 0 THEN <<>> ELSE partial[f] \o Copies(i)
          /\ partial' = [partial EXCEPT ![f] = IF k = 0 THEN @ \o Copies(j) ELSE Copies(j)]
          /\ pc' = IF k = 0 THEN "alloc" ELSE "request"
          /\ history' = history \cup (IF i + j = 0 THEN {"framing"} ELSE {})
                                \cup (IF i + j > 1 THEN {"split"} ELSE {})
     /\ buf' = NoBuf
     /\ UNCHANGED <<backlog, sgen, fin, full, ready, cgen, sendq, pool,
                    events, cur, counts>>

\* do_request: the next request is for "hello", or for nothing that exists.
DoRequest ==
  /\ pc = "request" /\ todo > 0
  /\ todo' = todo - 1
  /\ pc' \in {"respond", "request"}
  /\ UNCHANGED <<kernel, program, events, cur, buf, done, history, counts>>

(***************************************************************************)
(* do_response.                                                            *)
(***************************************************************************)
RespondNoBuffer ==
  /\ pc = "respond" /\ pool = <<>>
  /\ pc' = "request"
  /\ UNCHANGED <<kernel, program, events, cur, buf, done, todo, history, counts>>

\* All bytes are sent: the buffer goes back.
RespondSent ==
  /\ pc = "respond" /\ pool # <<>> /\ sgen[cur.fd] # 0
  /\ ~full[cur.fd] /\ fin[cur.fd] # "rst"
  /\ pool' = Append(Tail(pool), Head(pool))
  /\ pc' = "request"
  /\ UNCHANGED <<kernel, cgen, partial, sendq, events, cur, buf, done, todo,
                 history, counts>>

\* Mutant: a response that is queued is given back as well.
RespondQueuedGivesBack ==
  /\ pc = "respond" /\ pool # <<>> /\ sgen[cur.fd] # 0 /\ fin[cur.fd] # "rst"
  /\ sendq' = [sendq EXCEPT ![cur.fd] = Append(@, Head(pool))]
  /\ pool' = Append(Tail(pool), Head(pool))
  /\ full' = [full EXCEPT ![cur.fd] = TRUE]
  /\ pc' = "request"
  /\ UNCHANGED <<backlog, sgen, unread, fin, ready, cgen, partial,
                 events, cur, buf, done, todo, history, counts>>

\* Some bytes are not: they are queued.  The send buffer is full, or the call
\* was interrupted.
RespondQueued ==
  /\ pc = "respond" /\ pool # <<>> /\ sgen[cur.fd] # 0 /\ fin[cur.fd] # "rst"
  /\ sendq' = [sendq EXCEPT ![cur.fd] = Append(@, Head(pool))]
  /\ pool' = Tail(pool)
  /\ \/ full' = [full EXCEPT ![cur.fd] = TRUE] /\ UNCHANGED intr
     \/ intr < MaxIntr /\ intr' = intr + 1 /\ UNCHANGED full
  /\ pc' = "request"
  /\ UNCHANGED <<backlog, sgen, unread, fin, ready, cgen, partial,
                 events, cur, buf, done, todo, history, conns, chunks>>

\* send fails, also because the response before this one closed the socket:
\* the connection is closed; the buffer has no guard and is lost.
RespondFails ==
  /\ pc = "respond" /\ pool # <<>>
  /\ sgen[cur.fd] = 0 \/ fin[cur.fd] # "no"
  /\ pool' = Tail(pool)
  /\ CloseConn(cur.fd, {"send_error"})
  /\ pc' = "request"
  /\ UNCHANGED <<events, cur, buf, done, todo, counts>>

\* Mutant: recv_run reads only once per edge.
FinishRequestsReturns ==
  /\ pc = "request" /\ todo = 0
  /\ pool' = pool \o done /\ done' = <<>>
  /\ pc' = AfterRecv
  /\ UNCHANGED <<kernel, cgen, partial, sendq, events, cur, buf, todo, history, counts>>

\* recv_run lets go of all the requests, and each of their guards gives its buffer back.
FinishRequests ==
  /\ pc = "request" /\ todo = 0
  /\ pool' = pool \o done /\ done' = <<>>
  /\ pc' = "alloc"
  /\ UNCHANGED <<kernel, cgen, partial, sendq, events, cur, buf, todo, history, counts>>

(***************************************************************************)
(* send_run and SendBuf.                                                   *)
(***************************************************************************)
SendRun ==
  /\ pc = "send_run"
  /\ IF cgen[cur.fd] = 0
     THEN CloseConn(cur.fd, {}) /\ pc' = "dispatch"
     ELSE pc' = "send_buf" /\ UNCHANGED <<kernel, cgen, partial, sendq, history>>
  /\ UNCHANGED <<pool, events, cur, buf, done, todo, counts>>

\* The rest of a guard is sent, in one or more calls: Erase destroys it.
SendErase ==
  /\ pc = "send_buf" /\ sendq[cur.fd] # <<>> /\ ~full[cur.fd] /\ fin[cur.fd] # "rst"
  /\ pool' = Append(pool, Head(sendq[cur.fd]))
  /\ sendq' = [sendq EXCEPT ![cur.fd] = Tail(@)]
  /\ UNCHANGED <<kernel, cgen, partial, loop, history, counts>>

SendDone ==
  /\ pc = "send_buf" /\ sendq[cur.fd] = <<>>
  /\ pc' = "dispatch"
  /\ UNCHANGED <<kernel, program, events, cur, buf, done, todo, history, counts>>

\* send fails, also with EAGAIN when the send buffer is full or has too little
\* room: EAGAIN | EWOULDBLOCK | EINTR is none of the three, so every error
\* closes the connection.
SendFails ==
  /\ pc = "send_buf" /\ sendq[cur.fd] # <<>>
  /\ CloseConn(cur.fd, {})
  /\ pc' = "dispatch"
  /\ UNCHANGED <<pool, events, cur, buf, done, todo, counts>>

Server ==
  \/ EpollWait \/ BatchDone \/ Accept \/ AcceptFails \/ ClientEvent
  \/ RecvRun \/ AllocRecv \/ RecvAgain \/ RecvEnds \/ RecvChunk
  \/ DoRequest \/ RespondNoBuffer \/ RespondSent \/ RespondQueued \/ RespondFails
  \/ FinishRequests
  \/ SendRun \/ SendErase \/ SendDone \/ SendFails

Trouble == AcceptStops \/ RecvInterrupted

Environment ==
  \/ Connect
  \/ \E f \in Fd : \/ Arrive(f) \/ Drain(f)
                   \/ \E how \in {"fin", "rst"} : Hangup(f, how)

Next == Server \/ Trouble \/ Environment

Spec == Init /\ [][Next]_vars

\* The server runs on, and clients read what is sent to them.
FairSpec == Spec /\ WF_vars(Server) /\ \A f \in Fd : WF_vars(Drain(f))

(***************************************************************************)
(* Properties.                                                             *)
(***************************************************************************)
\* The map of connections and the open sockets agree, also when a descriptor
\* is closed twice or its number is used again: CreateConn never finds an old
\* connection under a new descriptor.
MapMatchesSockets == cgen = sgen

\* An event of a batch is still about the connection it was reported for when
\* its turn comes, although earlier events of the batch close connections and
\* accept new ones under the same numbers.
NoStaleEvent == \A e \in events : e # NoEvent => e.fd \in Fd /\ sgen[e.fd] = e.gen

Running(f) == cur.fd = f /\ pc \in RecvPC

\* With edge-triggered events, input that has arrived is never forgotten:
\* an edge is still to be reported, or the event is in the batch, or
\* recv_run is at work on it.
NoMissedInput ==
  \A f \in Fd : sgen[f] # 0 /\ Readable(f) /\ pc # "exit" =>
    ready[f] \/ Running(f) \/ \E e \in events : e.fd = f /\ e.in

\* Nor is a response that was queued: the socket is full (and will report
\* when it no longer is), or an edge or an event with EPOLLOUT is on its way,
\* or SendBuf is at work on it.
NoMissedOutput ==
  \A f \in Fd : sendq[f] # <<>> /\ pc # "exit" =>
    \/ full[f] \/ ready[f]
    \/ \E e \in events : e.fd = f /\ e.out
    \/ Running(f) /\ cur.out
    \/ cur.fd = f /\ pc \in SendPC

\* No edge is missed, in either direction.
NoMissedEdge == NoMissedInput /\ NoMissedOutput

\* Where a buffer can be: in the pool, in recv_run's hand, or guarded by the
\* complete requests, or by a connection's partial request or send queue.
Place == ({"pool", "hand", "done"} \X {Listen}) \cup ({"partial", "sendq"} \X Fd)
At(l) == CASE l[1] = "pool" -> pool
           [] l[1] = "hand" -> IF buf = NoBuf THEN <<>> ELSE <<buf>>
           [] l[1] = "done" -> done
           [] l[1] = "partial" -> partial[l[2]]
           [] l[1] = "sendq" -> sendq[l[2]]

\* As long as no chunk was cut into two guards, a buffer is in one place only,
\* and once: no two connections, and no request and its response, share one.
ExclusiveUnlessSplit ==
  "split" \notin history =>
    \A l, m \in Place : \A i \in 1..Len(At(l)), j \in 1..Len(At(m)) :
      At(l)[i] = At(m)[j] => l = m /\ i = j

\* The pool loses a buffer only through a chunk without a guard, a response
\* that could not be sent, or a connection closed while it has guards.
WholeUnlessLost ==
  history \subseteq {"split"} =>
    \A b \in Buffer : \E l \in Place : \E i \in 1..Len(At(l)) : At(l)[i] = b

\* Input that has arrived is read, or its connection closed.
InputRead == \A f \in Fd : (unread[f] > 0) ~> (unread[f] = 0 \/ pc = "exit")

\* A response that was queued is sent, or its connection closed.
OutputSent == \A f \in Fd : (sendq[f] # <<>>) ~> (sendq[f] = <<>> \/ pc = "exit")
=============================================================================
