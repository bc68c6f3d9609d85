-------------------------- MODULE RpcServerProof ---------------------------
(***************************************************************************)
(* Proofs about RpcServer for every number of descriptors, connections,    *)
(* chunks and buffers.  The inductive invariant is built in layers: Shape  *)
(* types the state and says what the loop holds at each of its points;     *)
(* Sockets ties events, map and kernel together; Edges says who will see   *)
(* what has arrived; the last section follows the buffers.                 *)
(***************************************************************************)
EXTENDS RpcServer, SequenceTheorems, TLAPS

Event == [fd : Fd \cup {Listen}, gen : Gen, in : BOOLEAN, out : BOOLEAN]
Busy == pc \in RecvPC \cup SendPC

\* The kernel's variables are typed, and the counters that bound what the
\* clients do also bound what they have produced.
KernelOK ==
  /\ backlog \in Gen /\ conns \in Gen /\ chunks \in 0..MaxChunk
  /\ backlog <= conns
  /\ sgen \in [Fd -> Gen] /\ unread \in [Fd -> 0..MaxChunk]
  /\ \A f \in Fd : unread[f] <= chunks
  /\ fin \in [Fd -> {"no", "fin", "rst"}]
  /\ full \in [Fd -> BOOLEAN] /\ ready \in [Fd -> BOOLEAN]

BuffersOK ==
  /\ partial \in [Fd -> Seq(Buffer)] /\ sendq \in [Fd -> Seq(Buffer)]
  /\ pool \in Seq(Buffer) /\ done \in Seq(Buffer)
  /\ buf \in Buffer \cup {NoBuf}
  /\ history \subseteq {"split", "framing", "send_error", "close_held"}

LoopOK ==
  /\ cgen \in [Fd -> Gen]
  /\ pc \in {"wait", "dispatch", "exit"} \cup RecvPC \cup SendPC
  /\ events \subseteq Event /\ cur \in Event
  /\ todo \in 0..MaxReq /\ intr \in 0..MaxIntr

\* An event is the listening socket's or has a descriptor of its own, other
\* than the one the loop is busy with; epoll_wait finds no event left over.
Batch ==
  /\ pc = "wait" => events = {}
  /\ \A e \in events : e # NoEvent => e.fd \in Fd
  /\ \A d, e \in events : d.fd = e.fd => d = e
  /\ Busy => cur.fd \in Fd /\ \A e \in events : e.fd # cur.fd

\* recv_run has a buffer in its hand while it receives, and complete
\* requests only while it works on them.
Hand ==
  /\ pc = "recv" <=> buf # NoBuf
  /\ pc \notin {"request", "respond"} => done = <<>>

Shape == KernelOK /\ BuffersOK /\ LoopOK /\ Batch /\ Hand

\* The event of the listening socket is an event, and of no descriptor.
LEMMA NoEventTyped == NoEvent \in Event /\ NoEvent.fd = Listen /\ NoEvent.fd \notin Fd
BY ServerAssumption DEF NoEvent, Event, Gen

\* Shape contains the type invariant.
LEMMA ShapeTypes == Shape => TypeOK
BY DEF Shape, KernelOK, BuffersOK, LoopOK, TypeOK, Event

\* Shape holds in the initial state.
LEMMA ShapeInit == Init => Shape
<1> SUFFICES ASSUME Init PROVE Shape
  OBVIOUS
<1> USE ServerAssumption
<1>1. KernelOK
  BY DEF Init, KernelOK, Gen
<1>2. BuffersOK
  BY DEF Init, BuffersOK
<1>3. LoopOK
  BY NoEventTyped DEF Init, LoopOK, Gen
<1>4. Batch /\ Hand
  BY DEF Init, Batch, Hand, Busy, RecvPC, SendPC
<1>5. QED
  BY <1>1, <1>2, <1>3, <1>4 DEF Shape

(***************************************************************************)
(* The actions by what they do.                                            *)
(***************************************************************************)
\* The steps that close the connection the loop is busy with.
Closing == \E also \in {{}, {"send_error"}} :
  /\ Busy /\ CloseConn(cur.fd, also)
  /\ UNCHANGED <<events, cur, done, todo, counts>>
  /\ \/ /\ pc \in {"recv_run", "alloc"} /\ pc' = AfterRecv
        /\ UNCHANGED <<pool, buf>>
     \/ pc = "recv" /\ pc' = AfterRecv /\ GiveBackBuf
     \/ /\ pc = "respond" /\ pc' = "request"
        /\ "send_error" \in also
        /\ pool # <<>> /\ pool' = Tail(pool) /\ UNCHANGED buf
     \/ pc \in SendPC /\ pc' = "dispatch" /\ UNCHANGED <<pool, buf>>

\* recv_run and send_run find their connection in the map.
Found ==
  /\ pc \in {"recv_run", "send_run"} /\ cgen[cur.fd] # 0
  /\ pc' = IF pc = "recv_run" THEN "alloc" ELSE "send_buf"
  /\ UNCHANGED <<kernel, program, events, cur, buf, done, todo, history, counts>>

\* AllocRecv gets a buffer.
Allocated ==
  /\ pc = "alloc" /\ pool # <<>>
  /\ buf' = Head(pool) /\ pool' = Tail(pool) /\ pc' = "recv"
  /\ UNCHANGED <<kernel, cgen, partial, sendq, history, events, cur, done, todo, counts>>

\* The error paths of recv_run, do_response and send_run close the connection.
LEMMA Closes == RecvEnds \/ RespondFails \/ SendFails => Closing
BY DEF RecvEnds, RespondFails, SendFails, Closing, Busy, RecvPC, SendPC

\* recv_run and send_run find their connection, or close the descriptor.
LEMMA RunCases == RecvRun \/ SendRun => Closing \/ Found
<1>1. RecvRun => Closing \/ Found
  BY DEF RecvRun, Closing, Found, Busy, RecvPC, program
<1>2. SendRun => Closing \/ Found
  BY DEF SendRun, Closing, Found, Busy, SendPC, program
<1>3. QED
  BY <1>1, <1>2

\* recv_run gets a buffer, or closes its connection.
LEMMA AllocCases == AllocRecv => Closing \/ Allocated
BY DEF AllocRecv, Closing, Allocated, Busy, RecvPC

\* Every step of the system, with the ones that close gathered in one.
LEMMA StepCases ==
  ASSUME Next
  PROVE  \/ Environment \/ EpollWait \/ BatchDone \/ Accept \/ AcceptFails
         \/ AcceptStops \/ ClientEvent \/ Closing \/ Found \/ Allocated
         \/ RecvAgain \/ RecvInterrupted \/ RecvChunk \/ DoRequest
         \/ RespondNoBuffer \/ RespondSent \/ RespondQueued \/ FinishRequests
         \/ SendErase \/ SendDone
BY Closes, RunCases, AllocCases DEF Next, Server, Trouble

(***************************************************************************)
(* Shape is kept, one part after the other.                                *)
(***************************************************************************)
LEMMA Updated ==
  ASSUME NEW S, NEW T, NEW g \in [S -> T], NEW x, NEW v \in T
  PROVE  [g EXCEPT ![x] = v] \in [S -> T]
OBVIOUS

\* No guards are a sequence of buffers.
LEMMA NoGuards == <<>> \in Seq(Buffer)
BY EmptySeq

\* What the clients and the kernel do keeps KernelOK.
LEMMA KernelEnvironment == ASSUME Shape, Environment PROVE KernelOK'
<1> USE ServerAssumption DEF Gen, counts
<1> KernelOK
  BY DEF Shape
<1>1. CASE Connect
  BY <1>1 DEF Connect, KernelOK
<1>2. ASSUME NEW f \in Fd, Arrive(f) PROVE KernelOK'
  BY <1>2 DEF Arrive, KernelOK
<1>3. ASSUME NEW f \in Fd, Drain(f) PROVE KernelOK'
  BY <1>3 DEF Drain, KernelOK
<1>4. ASSUME NEW f \in Fd, NEW how \in {"fin", "rst"}, Hangup(f, how) PROVE KernelOK'
  BY <1>4 DEF Hangup, KernelOK
<1>5. QED
  BY <1>1, <1>2, <1>3, <1>4 DEF Environment

\* Every step keeps KernelOK.
LEMMA KernelStep == ASSUME Shape, Next PROVE KernelOK'
<1> USE ServerAssumption DEF kernel, counts
<1> KernelOK
  BY DEF Shape
<1> Busy => cur.fd \in Fd
  BY DEF Shape, Batch
<1>1. CASE EpollWait
  <2>1. ready' \in [Fd -> BOOLEAN]
    BY <1>1 DEF EpollWait
  <2>2. UNCHANGED <<backlog, sgen, unread, fin, full, conns, chunks>>
    BY <1>1 DEF EpollWait
  <2>3. QED
    BY <2>1, <2>2 DEF KernelOK
<1>2. CASE Accept
  BY <1>2 DEF Accept, KernelOK, Gen
<1>3. CASE AcceptStops
  BY <1>3 DEF AcceptStops, KernelOK, Gen
<1>4. CASE Closing
  <2>1. PICK also \in {{}, {"send_error"}} : CloseConn(cur.fd, also)
    BY <1>4 DEF Closing
  <2>2. UNCHANGED counts /\ cur.fd \in Fd
    BY <1>4 DEF Closing
  <2>3. QED
    <3>1. /\ sgen' = [sgen EXCEPT ![cur.fd] = 0]
          /\ unread' = [unread EXCEPT ![cur.fd] = 0]
          /\ fin' = [fin EXCEPT ![cur.fd] = "no"]
          /\ full' = [full EXCEPT ![cur.fd] = FALSE]
          /\ ready' = [ready EXCEPT ![cur.fd] = FALSE]
          /\ UNCHANGED backlog
      BY <2>1 DEF CloseConn
    <3>2. QED
      BY <2>2, <3>1 DEF KernelOK, Gen
<1>5. CASE RecvChunk
  <2>1. /\ unread' = [unread EXCEPT ![cur.fd] = @ - 1]
        /\ unread[cur.fd] > 0 /\ cur.fd \in Fd
        /\ UNCHANGED <<backlog, sgen, fin, full, ready, conns, chunks>>
    BY <1>5 DEF RecvChunk, Busy, RecvPC
  <2>2. QED
    BY <2>1 DEF KernelOK
<1>6. CASE RespondQueued
  <2>1. UNCHANGED <<backlog, sgen, unread, fin, ready, conns, chunks>>
    BY <1>6 DEF RespondQueued
  <2>2. full' \in [Fd -> BOOLEAN]
    BY <1>6 DEF RespondQueued, KernelOK
  <2>3. QED
    BY <2>1, <2>2 DEF KernelOK
<1>7. ASSUME UNCHANGED <<kernel, conns, chunks>> PROVE KernelOK'
  BY <1>7 DEF KernelOK
<1>8. BatchDone \/ AcceptFails \/ ClientEvent \/ Found \/ Allocated \/ RecvAgain
        \/ RecvInterrupted => UNCHANGED <<kernel, conns, chunks>>
  BY DEF BatchDone, AcceptFails, ClientEvent, Found, Allocated, RecvAgain, RecvInterrupted
<1>9. DoRequest \/ RespondNoBuffer \/ RespondSent \/ FinishRequests
        \/ SendErase \/ SendDone => UNCHANGED <<kernel, conns, chunks>>
  BY DEF DoRequest, RespondNoBuffer, RespondSent, FinishRequests, SendErase, SendDone
<1>10. QED
  BY <1>1, <1>2, <1>3, <1>4, <1>5, <1>6, <1>7, <1>8, <1>9, StepCases, KernelEnvironment

\* What the guards of a chunk that completes k requests do: i of them are
\* for these requests, j for the one after.
Chunk(k, i, j) ==
  /\ IF k = 0 THEN i = 0 ELSE i > 0
  /\ todo' \in 0..MaxReq
  /\ done' = IF k = 0 THEN <<>> ELSE partial[cur.fd] \o Copies(i)
  /\ partial' = [partial EXCEPT ![cur.fd] = IF k = 0 THEN @ \o Copies(j) ELSE Copies(j)]
  /\ pc' = IF k = 0 THEN "alloc" ELSE "request"
  /\ history' = history \cup (IF i + j = 0 THEN {"framing"} ELSE {})
                        \cup (IF i + j > 1 THEN {"split"} ELSE {})

\* What a chunk does, with the numbers of its guards named.
LEMMA ChunkCases ==
  ASSUME RecvChunk PROVE \E k, i \in Nat, j \in 0..2 : Chunk(k, i, j)
<1>1. PICK k \in 0..MaxReq, j \in 0..2 :
      \E i \in (IF k > 0 /\ partial[cur.fd] # <<>> THEN {2*k - 1, 2*k} ELSE {2*k}) :
        /\ todo' = k
        /\ done' = IF k = 0 THEN <<>> ELSE partial[cur.fd] \o Copies(i)
        /\ partial' = [partial EXCEPT ![cur.fd] = IF k = 0 THEN @ \o Copies(j) ELSE Copies(j)]
        /\ pc' = IF k = 0 THEN "alloc" ELSE "request"
        /\ history' = history \cup (IF i + j = 0 THEN {"framing"} ELSE {})
                              \cup (IF i + j > 1 THEN {"split"} ELSE {})
  BY Zenon DEF RecvChunk
<1>2. PICK i \in (IF k > 0 /\ partial[cur.fd] # <<>> THEN {2*k - 1, 2*k} ELSE {2*k}) :
        /\ todo' = k
        /\ done' = IF k = 0 THEN <<>> ELSE partial[cur.fd] \o Copies(i)
        /\ partial' = [partial EXCEPT ![cur.fd] = IF k = 0 THEN @ \o Copies(j) ELSE Copies(j)]
        /\ pc' = IF k = 0 THEN "alloc" ELSE "request"
        /\ history' = history \cup (IF i + j = 0 THEN {"framing"} ELSE {})
                              \cup (IF i + j > 1 THEN {"split"} ELSE {})
  BY <1>1
<1>3. k \in Nat /\ i \in Nat /\ IF k = 0 THEN i = 0 ELSE i > 0
  BY ServerAssumption
<1>4. Chunk(k, i, j)
  BY <1>2, <1>3 DEF Chunk
<1>5. QED
  BY <1>3, <1>4

\* Every step keeps BuffersOK.
LEMMA BuffersStep == ASSUME Shape, Next PROVE BuffersOK'
<1> USE ServerAssumption DEF program, loop
<1> BuffersOK /\ Hand
  BY DEF Shape
<1> Busy => cur.fd \in Fd
  BY DEF Shape, Batch
<1>1. CASE Accept
  <2>1. partial' \in [Fd -> Seq(Buffer)] /\ sendq' \in [Fd -> Seq(Buffer)]
    <3>1. PICK f \in Fd : CreateConn(f, conns - backlog + 1)
      BY <1>1 DEF Accept
    <3>2. CASE cgen[f] # 0
      BY <3>1, <3>2 DEF CreateConn, BuffersOK
    <3>3. CASE cgen[f] = 0
      <4>1. partial' = [partial EXCEPT ![f] = <<>>] /\ sendq' = [sendq EXCEPT ![f] = <<>>]
        BY <3>1, <3>3 DEF CreateConn
      <4>2. QED
        BY <4>1, NoGuards, Updated, Zenon DEF BuffersOK
    <3>4. QED
      BY <3>2, <3>3
  <2>2. UNCHANGED <<pool, done, buf, history>>
    BY <1>1 DEF Accept
  <2>3. QED
    BY <2>1, <2>2 DEF BuffersOK
<1>2. CASE Closing
  <2>1. PICK also \in {{}, {"send_error"}} : CloseConn(cur.fd, also)
    BY <1>2 DEF Closing
  <2>2. /\ partial' \in [Fd -> Seq(Buffer)] /\ sendq' \in [Fd -> Seq(Buffer)]
        /\ history' \subseteq {"split", "framing", "send_error", "close_held"}
    <3>1. /\ partial' = [partial EXCEPT ![cur.fd] = <<>>]
          /\ sendq' = [sendq EXCEPT ![cur.fd] = <<>>]
          /\ history' \subseteq history \cup also \cup {"close_held"}
      BY <2>1 DEF CloseConn
    <3>2. history' \subseteq {"split", "framing", "send_error", "close_held"}
      BY <3>1 DEF BuffersOK
    <3>3. QED
      BY <3>1, <3>2, NoGuards, Updated, Zenon DEF BuffersOK
  <2>3. pool' \in Seq(Buffer) /\ buf' \in Buffer \cup {NoBuf}
    <3>1. CASE UNCHANGED <<pool, buf>>
      BY <3>1 DEF BuffersOK
    <3>2. CASE pc = "recv" /\ GiveBackBuf
      BY <3>2, AppendProperties DEF GiveBackBuf, BuffersOK, Hand
    <3>3. CASE pool # <<>> /\ pool' = Tail(pool) /\ UNCHANGED buf
      BY <3>3, HeadTailProperties DEF BuffersOK
    <3>4. QED
      BY <1>2, <3>1, <3>2, <3>3 DEF Closing
  <2>4. UNCHANGED done
    BY <1>2 DEF Closing
  <2>5. QED
    BY <2>2, <2>3, <2>4 DEF BuffersOK
<1>3. CASE Allocated
  BY <1>3, HeadTailProperties DEF Allocated, BuffersOK
<1>4. CASE RecvAgain \/ RecvInterrupted
  <2>1. pc = "recv" /\ GiveBackBuf /\ UNCHANGED <<partial, sendq, done, history>>
    BY <1>4 DEF RecvAgain, RecvInterrupted
  <2>2. QED
    BY <2>1, AppendProperties DEF GiveBackBuf, BuffersOK, Hand
<1>5. CASE RecvChunk
  <2>1. buf \in Buffer /\ partial[cur.fd] \in Seq(Buffer)
    BY <1>5 DEF RecvChunk, Hand, BuffersOK, Busy, RecvPC
  <2>2. ASSUME NEW n \in Nat PROVE Copies(n) \in Seq(Buffer)
    BY <2>1 DEF Copies
  <2>3. PICK k \in Nat, i \in Nat, j \in 0..2 : Chunk(k, i, j)
    BY <1>5, ChunkCases
  <2>5. Copies(i) \in Seq(Buffer) /\ Copies(j) \in Seq(Buffer)
    BY <2>2
  <2>6. /\ partial[cur.fd] \o Copies(i) \in Seq(Buffer)
        /\ partial[cur.fd] \o Copies(j) \in Seq(Buffer)
    BY <2>1, <2>5, ConcatProperties
  <2>7. partial' \in [Fd -> Seq(Buffer)] /\ done' \in Seq(Buffer)
    <3>1. (IF k = 0 THEN partial[cur.fd] \o Copies(j) ELSE Copies(j)) \in Seq(Buffer)
      BY <2>5, <2>6
    <3>2. done' \in Seq(Buffer)
      BY <2>3, <2>6, NoGuards DEF Chunk
    <3>3. QED
      BY <2>3, <3>1, <3>2, Updated, Zenon DEF Chunk, BuffersOK
  <2>8. UNCHANGED <<sendq, pool>> /\ buf' = NoBuf
    BY <1>5 DEF RecvChunk
  <2>9. QED
    BY <2>3, <2>7, <2>8 DEF Chunk, BuffersOK
<1>6. CASE RespondSent
  <2>1. pool # <<>> /\ pool' = Append(Tail(pool), Head(pool))
    BY <1>6 DEF RespondSent
  <2>2. pool' \in Seq(Buffer)
    BY <2>1, HeadTailProperties, AppendProperties DEF BuffersOK
  <2>3. QED
    BY <1>6, <2>2 DEF RespondSent, BuffersOK
<1>7. CASE RespondQueued
  <2>1. /\ pool # <<>> /\ pool' = Tail(pool)
        /\ sendq' = [sendq EXCEPT ![cur.fd] = Append(@, Head(pool))]
        /\ UNCHANGED <<partial, buf, done, history>>
        /\ cur.fd \in Fd
    BY <1>7 DEF RespondQueued, Busy, RecvPC
  <2>2. pool' \in Seq(Buffer) /\ Append(sendq[cur.fd], Head(pool)) \in Seq(Buffer)
    BY <2>1, HeadTailProperties, AppendProperties DEF BuffersOK
  <2>3. QED
    BY <2>1, <2>2 DEF BuffersOK
<1>8. CASE FinishRequests
  BY <1>8, ConcatProperties DEF FinishRequests, BuffersOK
<1>9. CASE SendErase
  <2>1. /\ sendq[cur.fd] # <<>> /\ pool' = Append(pool, Head(sendq[cur.fd]))
        /\ sendq' = [sendq EXCEPT ![cur.fd] = Tail(@)]
        /\ UNCHANGED <<partial, buf, done, history>>
        /\ cur.fd \in Fd
    BY <1>9 DEF SendErase, Busy, SendPC
  <2>2. pool' \in Seq(Buffer) /\ Tail(sendq[cur.fd]) \in Seq(Buffer)
    BY <2>1, HeadTailProperties, AppendProperties DEF BuffersOK
  <2>3. QED
    BY <2>1, <2>2 DEF BuffersOK
<1>10. ASSUME UNCHANGED <<partial, sendq, pool, done, buf, history>> PROVE BuffersOK'
  BY <1>10 DEF BuffersOK
<1>11. Environment => UNCHANGED <<partial, sendq, pool, done, buf, history>>
  BY DEF Environment, Connect, Arrive, Drain, Hangup
<1>12. EpollWait \/ BatchDone \/ AcceptFails \/ AcceptStops \/ ClientEvent \/ Found
        => UNCHANGED <<partial, sendq, pool, done, buf, history>>
  BY DEF EpollWait, BatchDone, AcceptFails, AcceptStops, ClientEvent, Found
<1>13. DoRequest \/ RespondNoBuffer \/ SendDone
        => UNCHANGED <<partial, sendq, pool, done, buf, history>>
  BY DEF DoRequest, RespondNoBuffer, SendDone
<1>14. QED
  BY <1>1, <1>2, <1>3, <1>4, <1>5, <1>6, <1>7, <1>8, <1>9, <1>10, <1>11, <1>12,
     <1>13, StepCases

\* The events that epoll_wait reports have their sockets' state.
LEMMA Reported ==
  ASSUME Shape, EpollWait
  PROVE  /\ events' \subseteq Event
         /\ \A e \in events' : e # NoEvent =>
              /\ e.fd \in Fd /\ sgen[e.fd] # 0 /\ ready[e.fd]
              /\ e.gen = sgen[e.fd] /\ e.in = Readable(e.fd) /\ e.out = ~full[e.fd]
         /\ \A f \in Fd : sgen[f] # 0 /\ ready[f] => \E e \in events' :
              e.fd = f /\ e.in = Readable(f) /\ e.out = ~full[f]
<1> DEFINE hot == {f \in Fd : sgen[f] # 0 /\ ready[f]}
           ev(f) == [fd |-> f, gen |-> sgen[f], in |-> Readable(f), out |-> ~full[f]]
           client == {ev(f) : f \in hot}
<1>1. events' = client \cup (IF backlog > 0 THEN {NoEvent} ELSE {})
  BY DEF EpollWait
<1>2. ASSUME NEW f \in hot
      PROVE  /\ ev(f) \in Event
             /\ ev(f).fd = f /\ ev(f).gen = sgen[f]
             /\ ev(f).in = Readable(f) /\ ev(f).out = ~full[f]
  <2>1. sgen[f] \in Gen /\ Readable(f) \in BOOLEAN /\ (~full[f]) \in BOOLEAN
    BY DEF Shape, KernelOK, Readable
  <2>2. QED
    BY <2>1 DEF Event
<1> HIDE DEF ev
<1>3. events' \subseteq Event
  BY <1>1, <1>2, NoEventTyped
<1>4. ASSUME NEW e \in events', e # NoEvent
      PROVE  /\ e.fd \in Fd /\ sgen[e.fd] # 0 /\ ready[e.fd]
             /\ e.gen = sgen[e.fd] /\ e.in = Readable(e.fd) /\ e.out = ~full[e.fd]
  <2>1. PICK f \in hot : e = ev(f)
    BY <1>1, <1>4
  <2>2. QED
    BY <1>2, <2>1
<1>5. ASSUME NEW f \in Fd, sgen[f] # 0, ready[f]
      PROVE  \E e \in events' : e.fd = f /\ e.in = Readable(f) /\ e.out = ~full[f]
  <2>1. f \in hot /\ ev(f) \in events'
    BY <1>1, <1>5
  <2>2. QED
    BY <1>2, <2>1
<1>6. QED
  BY <1>3, <1>4, <1>5

\* Every step keeps LoopOK.
LEMMA LoopStep == ASSUME Shape, Next PROVE LoopOK'
<1> USE ServerAssumption DEF kernel, program, loop, counts
<1> LoopOK
  BY DEF Shape
<1> Busy => cur.fd \in Fd
  BY DEF Shape, Batch
<1> pc' \in {"wait", "dispatch", "exit", "recv_run", "alloc", "recv", "request",
             "respond", "send_run", "send_buf"}
      <=> pc' \in {"wait", "dispatch", "exit"} \cup RecvPC \cup SendPC
  BY DEF RecvPC, SendPC
<1>1. CASE EpollWait
  BY <1>1, Reported DEF EpollWait, LoopOK
<1>2. CASE BatchDone
  BY <1>2, NoEventTyped DEF BatchDone, LoopOK
<1>3. CASE Accept
  <2>1. PICK f \in Fd : CreateConn(f, conns - backlog + 1)
    BY <1>3 DEF Accept
  <2>2. conns - backlog + 1 \in Gen
    BY <1>3 DEF Shape, KernelOK, Gen, Accept
  <2>3. cgen' \in [Fd -> Gen]
    BY <2>1, <2>2 DEF CreateConn, LoopOK
  <2>4. QED
    BY <1>3, <2>3 DEF Accept, LoopOK
<1>4. CASE AcceptFails \/ AcceptStops
  BY <1>4 DEF AcceptFails, AcceptStops, LoopOK
<1>5. CASE ClientEvent
  BY <1>5 DEF ClientEvent, LoopOK
<1>6. CASE Closing
  <2>1. PICK also \in {{}, {"send_error"}} : CloseConn(cur.fd, also)
    BY <1>6 DEF Closing
  <2>2. cgen' \in [Fd -> Gen]
    <3>1. cgen' = [cgen EXCEPT ![cur.fd] = 0] /\ 0 \in Gen
      BY <2>1 DEF CloseConn, Gen
    <3>2. QED
      BY <3>1, Updated, Zenon DEF LoopOK
  <2>3. pc' \in {"send_run", "dispatch", "request"} /\ UNCHANGED <<events, cur, todo, intr>>
    BY <1>6 DEF Closing, AfterRecv
  <2>4. QED
    BY <2>2, <2>3 DEF LoopOK
<1>7. CASE Found \/ Allocated
  BY <1>7 DEF Found, Allocated, LoopOK
<1>8. CASE RecvAgain
  BY <1>8 DEF RecvAgain, AfterRecv, LoopOK
<1>9. CASE RecvInterrupted
  BY <1>9 DEF RecvInterrupted, LoopOK
<1>10. CASE RecvChunk
  <2>1. pc' \in {"alloc", "request"} /\ todo' \in 0..MaxReq
    BY <1>10, ChunkCases DEF Chunk
  <2>2. UNCHANGED <<cgen, events, cur, intr>>
    BY <1>10 DEF RecvChunk
  <2>3. QED
    BY <2>1, <2>2 DEF LoopOK
<1>11. CASE DoRequest
  BY <1>11 DEF DoRequest, LoopOK
<1>12. CASE RespondQueued
  <2>1. intr' \in 0..MaxIntr
    BY <1>12 DEF RespondQueued, LoopOK
  <2>2. pc' = "request" /\ UNCHANGED <<cgen, events, cur, todo>>
    BY <1>12 DEF RespondQueued
  <2>3. QED
    BY <2>1, <2>2 DEF LoopOK
<1>13. CASE RespondNoBuffer \/ RespondSent \/ FinishRequests
  BY <1>13 DEF RespondNoBuffer, RespondSent, FinishRequests, LoopOK
<1>14. CASE SendErase \/ SendDone
  BY <1>14 DEF SendErase, SendDone, LoopOK
<1>15. CASE Environment
  BY <1>15 DEF Environment, Connect, Arrive, Drain, Hangup, LoopOK
<1>16. QED
  BY <1>1, <1>2, <1>3, <1>4, <1>5, <1>6, <1>7, <1>8, <1>9, <1>10, <1>11, <1>12,
     <1>13, <1>14, <1>15, StepCases

\* What recv_run and send_run do from one event to the next: they keep the
\* batch, and the event they work on.
LEMMA WorkFrame ==
  ASSUME Next, Busy
  PROVE  /\ UNCHANGED <<events, cur>>
         /\ pc # "wait" /\ pc' # "wait"
         /\ pc' \in RecvPC \cup SendPC \cup {"dispatch"}
<1> USE DEF loop
<1>1. ~(EpollWait \/ BatchDone \/ Accept \/ AcceptFails \/ AcceptStops \/ ClientEvent)
      /\ pc # "wait"
  BY DEF EpollWait, BatchDone, Accept, AcceptFails, AcceptStops, ClientEvent, Busy,
         RecvPC, SendPC
<1>2. CASE Environment
  <2>1. UNCHANGED <<events, cur, pc>>
    BY <1>2 DEF Environment, Connect, Arrive, Drain, Hangup
  <2>2. QED
    BY <1>1, <2>1 DEF Busy
<1>3. CASE Closing
  BY <1>1, <1>3 DEF Closing, AfterRecv, RecvPC, SendPC
<1>4. CASE Found \/ Allocated \/ RecvAgain \/ RecvInterrupted
  BY <1>1, <1>4 DEF Found, Allocated, RecvAgain, RecvInterrupted, AfterRecv, RecvPC, SendPC
<1>5. CASE RecvChunk
  <2>1. pc' \in {"alloc", "request"}
    BY <1>5, ChunkCases DEF Chunk
  <2>2. QED
    BY <1>1, <1>5, <2>1 DEF RecvChunk, RecvPC
<1>6. CASE DoRequest \/ RespondNoBuffer \/ RespondSent \/ RespondQueued \/ FinishRequests
  BY <1>1, <1>6 DEF DoRequest, RespondNoBuffer, RespondSent, RespondQueued,
                    FinishRequests, RecvPC
<1>7. CASE SendErase \/ SendDone
  BY <1>1, <1>7 DEF SendErase, SendDone, Busy, SendPC
<1>8. QED
  BY <1>1, <1>2, <1>3, <1>4, <1>5, <1>6, <1>7, StepCases

\* Every step keeps Batch.
LEMMA BatchStep == ASSUME Shape, Next PROVE Batch'
<1> Batch /\ LoopOK
  BY DEF Shape
<1>1. CASE Busy
  BY <1>1, WorkFrame, Zenon DEF Batch, Busy
<1>2. CASE EpollWait
  <2>1. \A e \in events' : e # NoEvent => e.fd \in Fd
    BY <1>2, Reported
  <2>2. ASSUME NEW d \in events', NEW e \in events', d.fd = e.fd PROVE d = e
    <3>1. CASE d = NoEvent \/ e = NoEvent
      BY <2>1, <2>2, <3>1, NoEventTyped
    <3>2. CASE d # NoEvent /\ e # NoEvent
      <4>1. d.gen = e.gen /\ d.in = e.in /\ d.out = e.out
        BY <1>2, <2>2, <3>2, Reported
      <4>2. d \in Event /\ e \in Event
        BY <1>2, Reported
      <4>3. QED
        BY <2>2, <4>1, <4>2 DEF Event
    <3>3. QED
      BY <3>1, <3>2
  <2>3. pc' = "dispatch"
    BY <1>2 DEF EpollWait
  <2>4. QED
    BY <2>1, <2>2, <2>3 DEF Batch, Busy, RecvPC, SendPC
<1>3. CASE BatchDone
  BY <1>3 DEF BatchDone, Batch, Busy, RecvPC, SendPC
<1>4. CASE Accept \/ AcceptFails \/ AcceptStops
  <2>1. events' \subseteq events /\ pc' \in {"dispatch", "exit"}
    BY <1>4 DEF Accept, AcceptFails, AcceptStops
  <2>2. QED
    BY <2>1 DEF Batch, Busy, RecvPC, SendPC
<1>5. CASE ClientEvent
  <2>1. PICK e \in events \ {NoEvent} :
          events' = events \ {e} /\ cur' = e /\ pc' \in {"recv_run", "send_run", "dispatch"}
    BY <1>5 DEF ClientEvent
  <2>2. QED
    BY <2>1 DEF Batch
<1>6. CASE ~Busy /\ Environment
  <2>1. UNCHANGED <<events, cur, pc>>
    BY <1>6 DEF Environment, Connect, Arrive, Drain, Hangup, loop
  <2>2. QED
    BY <2>1 DEF Batch, Busy
<1>7. Closing \/ Found \/ Allocated \/ RecvAgain \/ RecvInterrupted \/ RecvChunk \/ DoRequest
      \/ RespondNoBuffer \/ RespondSent \/ RespondQueued \/ FinishRequests
      \/ SendErase \/ SendDone => Busy
  BY DEF Closing, Found, Allocated, RecvAgain, RecvInterrupted, RecvChunk, DoRequest,
         RespondNoBuffer, RespondSent, RespondQueued, FinishRequests, SendErase,
         SendDone, Busy, RecvPC, SendPC
<1>8. QED
  BY <1>1, <1>2, <1>3, <1>4, <1>5, <1>6, <1>7, StepCases

\* Every step keeps Hand.
LEMMA HandStep == ASSUME Shape, Next PROVE Hand'
<1> USE ServerAssumption DEF kernel, program, loop, counts
<1> Hand
  BY DEF Shape
<1>1. CASE Environment
  <2>1. UNCHANGED <<pc, buf, done>>
    BY <1>1 DEF Environment, Connect, Arrive, Drain, Hangup
  <2>2. QED
    BY <2>1 DEF Hand
<1>2. CASE EpollWait \/ BatchDone \/ Accept \/ AcceptFails \/ AcceptStops \/ ClientEvent
  <2>1. pc \in {"wait", "dispatch"} /\ UNCHANGED <<buf, done>>
        /\ pc' \in {"wait", "dispatch", "exit", "recv_run", "send_run"}
    BY <1>2 DEF EpollWait, BatchDone, Accept, AcceptFails, AcceptStops, ClientEvent
  <2>2. QED
    BY <2>1 DEF Hand
<1>3. CASE Closing
  BY <1>3 DEF Closing, AfterRecv, GiveBackBuf, Hand, SendPC
<1>4. CASE Found
  BY <1>4 DEF Found, Hand
<1>5. CASE Allocated
  <2>1. Head(pool) # NoBuf
    <3>1. pool # <<>> /\ pool \in Seq(Buffer)
      BY <1>5 DEF Allocated, Shape, BuffersOK
    <3>2. QED
      BY SMTT(30), <3>1, HeadTailProperties
  <2>2. QED
    BY <1>5, <2>1 DEF Allocated, Hand
<1>6. CASE RecvAgain \/ RecvInterrupted
  BY <1>6 DEF RecvAgain, RecvInterrupted, AfterRecv, GiveBackBuf, Hand
<1>7. CASE RecvChunk
  <2>1. (pc' = "alloc" /\ done' = <<>>) \/ pc' = "request"
    BY <1>7, ChunkCases DEF Chunk
  <2>2. QED
    BY <1>7, <2>1 DEF RecvChunk, Hand
<1>8. CASE DoRequest \/ RespondNoBuffer \/ RespondSent \/ RespondQueued \/ FinishRequests
  <2>1. /\ pc \in {"request", "respond"} /\ pc' \in {"alloc", "request", "respond"}
        /\ pc' = "alloc" => done' = <<>>
        /\ UNCHANGED buf
    BY <1>8 DEF DoRequest, RespondNoBuffer, RespondSent, RespondQueued, FinishRequests
  <2>2. QED
    BY <2>1 DEF Hand
<1>9. CASE SendErase \/ SendDone
  BY <1>9 DEF SendErase, SendDone, Hand
<1>10. QED
  BY <1>1, <1>2, <1>3, <1>4, <1>5, <1>6, <1>7, <1>8, <1>9, StepCases

\* Every step preserves Shape.
LEMMA ShapeStep == Shape /\ [Next]_vars => Shape'
<1>1. ASSUME Shape, Next PROVE Shape'
  BY <1>1, KernelStep, BuffersStep, LoopStep, BatchStep, HandStep DEF Shape
<1>2. ASSUME Shape, UNCHANGED vars PROVE Shape'
  <2>1. KernelOK' /\ BuffersOK' /\ LoopOK'
    BY <1>2 DEF Shape, KernelOK, BuffersOK, LoopOK, vars, kernel, program, loop, counts
  <2>2. Batch' /\ Hand'
    BY <1>2 DEF Shape, Batch, Hand, Busy, vars, loop
  <2>3. QED
    BY <2>1, <2>2 DEF Shape
<1>3. QED
  BY <1>1, <1>2

(***************************************************************************)
(* Events, the map and the kernel.                                         *)
(***************************************************************************)
\* An event is about an open socket, and the one it was reported for.
Current == \A e \in events : e # NoEvent => e.gen # 0 /\ sgen[e.fd] = e.gen

\* Only an open connection has guards.
Closed == \A f \in Fd : sgen[f] = 0 => sendq[f] = <<>> /\ partial[f] = <<>>

Sockets == MapMatchesSockets /\ Current /\ Closed

\* Sockets holds in the initial state.
LEMMA SocketsInit == Init => Sockets
BY DEF Init, Sockets, MapMatchesSockets, Current, Closed

\* Closing a connection takes it out of the map and out of the kernel.
LEMMA SocketsClosing == ASSUME Shape, Sockets, Closing PROVE Sockets'
<1>1. /\ cur.fd \in Fd /\ \A e \in events : e.fd # cur.fd
      /\ \A e \in events : e # NoEvent => e.fd \in Fd
  BY DEF Closing, Shape, Batch
<1>2. /\ sgen' = [sgen EXCEPT ![cur.fd] = 0] /\ cgen' = [cgen EXCEPT ![cur.fd] = 0]
      /\ sendq' = [sendq EXCEPT ![cur.fd] = <<>>]
      /\ partial' = [partial EXCEPT ![cur.fd] = <<>>]
      /\ events' = events
  BY DEF Closing, CloseConn
<1>3. /\ sgen \in [Fd -> Gen] /\ sendq \in [Fd -> Seq(Buffer)]
      /\ partial \in [Fd -> Seq(Buffer)]
  BY DEF Shape, KernelOK, BuffersOK
<1>4. MapMatchesSockets'
  BY <1>2 DEF Sockets, MapMatchesSockets
<1>5. Current'
  BY <1>1, <1>2, <1>3 DEF Sockets, Current
<1>6. Closed'
  BY <1>1, <1>2, <1>3 DEF Sockets, Closed
<1>7. QED
  BY <1>4, <1>5, <1>6 DEF Sockets

\* accept puts the new connection into both.
LEMMA SocketsAccept == ASSUME Shape, Sockets, Accept PROVE Sockets'
<1>1. PICK f \in Fd : /\ sgen[f] = 0
                      /\ sgen' = [sgen EXCEPT ![f] = conns - backlog + 1]
                      /\ CreateConn(f, conns - backlog + 1)
  BY DEF Accept
<1>2. conns - backlog + 1 # 0 /\ events' \subseteq events /\ sgen \in [Fd -> Gen]
  BY DEF Shape, KernelOK, Gen, Accept
<1>3. cgen[f] = 0 /\ cgen = sgen
  BY <1>1 DEF Sockets, MapMatchesSockets
<1>4. /\ cgen' = [cgen EXCEPT ![f] = conns - backlog + 1]
      /\ partial' = [partial EXCEPT ![f] = <<>>]
      /\ sendq' = [sendq EXCEPT ![f] = <<>>]
  BY <1>1, <1>3 DEF CreateConn
<1>5. MapMatchesSockets'
  BY <1>1, <1>3, <1>4 DEF MapMatchesSockets
<1>6. Current'
  <2> SUFFICES ASSUME NEW e \in events', e # NoEvent PROVE e.gen # 0 /\ sgen'[e.fd] = e.gen
    BY DEF Current
  <2>1. e \in events /\ e.fd \in Fd /\ e.gen # 0 /\ sgen[e.fd] = e.gen
    BY <1>2 DEF Sockets, Current, Shape, Batch
  <2>2. e.fd # f
    BY <1>1, <2>1
  <2>3. QED
    BY <1>1, <1>2, <2>1, <2>2
<1>7. Closed'
  BY <1>1, <1>2, <1>4 DEF Sockets, Closed, Shape, BuffersOK
<1>8. QED
  BY <1>5, <1>6, <1>7 DEF Sockets

\* Every step preserves Sockets: one step of the proof per group of actions.
LEMMA SocketsStep == Shape /\ Sockets /\ [Next]_vars => Sockets'
<1> SUFFICES ASSUME Shape, Sockets, [Next]_vars PROVE Sockets'
  OBVIOUS
<1> USE DEF kernel, program, loop
<1> Busy => cur.fd \in Fd
  BY DEF Shape, Batch
\* The steps that open and close no connection, and give none a guard.
<1>1. ASSUME UNCHANGED <<sgen, cgen, sendq, partial>>, events' \subseteq events PROVE Sockets'
  BY <1>1 DEF Sockets, MapMatchesSockets, Current, Closed
<1>2. CASE UNCHANGED vars
  BY <1>1, <1>2 DEF vars
<1>3. CASE Environment
  BY <1>1, <1>3 DEF Environment, Connect, Arrive, Drain, Hangup
<1>4. CASE EpollWait
  <2>1. UNCHANGED <<sgen, cgen, sendq, partial>>
    BY <1>4 DEF EpollWait
  <2>2. Current'
    BY <1>4, <2>1, Reported DEF Current
  <2>3. QED
    BY <2>1, <2>2 DEF Sockets, MapMatchesSockets, Closed
<1>5. CASE BatchDone \/ AcceptFails \/ AcceptStops \/ ClientEvent \/ Found \/ Allocated
  BY <1>1, <1>5 DEF BatchDone, AcceptFails, AcceptStops, ClientEvent, Found, Allocated
<1>6. CASE RecvAgain \/ RecvInterrupted \/ DoRequest \/ RespondNoBuffer \/ RespondSent
           \/ FinishRequests \/ SendDone
  BY <1>1, <1>6 DEF RecvAgain, RecvInterrupted, DoRequest, RespondNoBuffer, RespondSent,
                    FinishRequests, SendDone
\* The steps that give an open connection a guard, or take one away.
<1>7. ASSUME UNCHANGED <<sgen, cgen, events>>, cur.fd \in Fd, sgen[cur.fd] # 0,
             \A f \in Fd \ {cur.fd} : sendq'[f] = sendq[f] /\ partial'[f] = partial[f]
      PROVE  Sockets'
  BY <1>7 DEF Sockets, MapMatchesSockets, Current, Closed
<1>8. CASE RecvChunk
  <2>1. cur.fd \in Fd /\ sgen[cur.fd] # 0 /\ UNCHANGED <<sgen, cgen, events, sendq>>
    BY <1>8 DEF RecvChunk, Busy, RecvPC
  <2>2. \A f \in Fd \ {cur.fd} : partial'[f] = partial[f]
    BY <1>8, ChunkCases DEF Chunk, Shape, BuffersOK
  <2>3. QED
    BY <1>7, <2>1, <2>2
<1>9. CASE RespondQueued
  BY <1>7, <1>9 DEF RespondQueued, Busy, RecvPC, Shape, BuffersOK
<1>10. CASE SendErase
  <2>1. sgen[cur.fd] # 0 /\ cur.fd \in Fd
    BY <1>10 DEF SendErase, Sockets, Closed, Busy, SendPC
  <2>2. QED
    BY <1>7, <1>10, <2>1 DEF SendErase, Shape, BuffersOK
<1>11. QED
  BY <1>2, <1>3, <1>4, <1>5, <1>6, <1>8, <1>9, <1>10, SocketsAccept, SocketsClosing,
     StepCases

(***************************************************************************)
(* Edges.                                                                  *)
(***************************************************************************)
\* A client's event without EPOLLOUT is about a socket that was full: it is
\* full still, or it has had another edge since, or it has been closed.
WriteEdge ==
  /\ \A e \in events : e # NoEvent /\ ~e.out => full[e.fd] \/ ready[e.fd]
  /\ pc \in RecvPC /\ ~cur.out => full[cur.fd] \/ ready[cur.fd] \/ sgen[cur.fd] = 0

Edges == WriteEdge /\ NoMissedInput /\ NoMissedOutput

\* Edges holds in the initial state.
LEMMA EdgesInit == Init => Edges
BY DEF Init, Edges, WriteEdge, NoMissedInput, NoMissedOutput, RecvPC

\* Steps within recv_run, and within send_run, that change nothing of the
\* sockets, the events and the send queues.
LEMMA EdgesQuiet ==
  ASSUME Edges, UNCHANGED <<sgen, unread, fin, full, ready, sendq, events, cur>>,
         \/ pc \in RecvPC /\ pc' \in RecvPC
         \/ pc \in SendPC /\ pc' \in SendPC
         \/ pc' = pc
  PROVE  Edges'
<1>1. pc' = "exit" <=> pc = "exit"
  BY DEF RecvPC, SendPC
<1>2. (pc' \in RecvPC <=> pc \in RecvPC) /\ (pc' \in SendPC <=> pc \in SendPC)
  BY DEF RecvPC, SendPC
<1>3. WriteEdge'
  BY <1>2 DEF Edges, WriteEdge
<1>4. NoMissedInput'
  BY <1>1, <1>2 DEF Edges, NoMissedInput, Readable, Running
<1>5. NoMissedOutput'
  BY <1>1, <1>2 DEF Edges, NoMissedOutput, Running
<1>6. QED
  BY <1>3, <1>4, <1>5 DEF Edges

\* What the environment does to a socket it reports with an edge.
LEMMA EdgesEnvironment == ASSUME Shape, Sockets, Edges, Environment PROVE Edges'
<1>1. UNCHANGED <<sgen, sendq, events, cur, pc>>
  BY DEF Environment, Connect, Arrive, Drain, Hangup, program, loop
<1>2. \A f \in Fd : \/ UNCHANGED <<unread[f], fin[f], full[f], ready[f]>>
                    \/ ready'[f]
  <2>1. CASE Connect
    BY <2>1 DEF Connect
  <2>2. ASSUME NEW f \in Fd, Arrive(f) \/ Drain(f) \/ \E how \in {"fin", "rst"} : Hangup(f, how)
        PROVE  \A g \in Fd : UNCHANGED <<unread[g], fin[g], full[g], ready[g]>> \/ ready'[g]
    BY <2>2 DEF Arrive, Drain, Hangup, Shape, KernelOK
  <2>3. QED
    BY <2>1, <2>2 DEF Environment
<1>3. /\ \A e \in events : e # NoEvent => e.fd \in Fd
      /\ pc \in RecvPC => cur.fd \in Fd
  BY DEF Shape, Batch, Busy
<1>4. WriteEdge'
  BY <1>1, <1>2, <1>3 DEF Edges, WriteEdge
<1>5. NoMissedInput'
  BY <1>1, <1>2 DEF Edges, NoMissedInput, Readable, Running
<1>6. NoMissedOutput'
  BY <1>1, <1>2 DEF Edges, NoMissedOutput, Running
<1>7. QED
  BY <1>4, <1>5, <1>6 DEF Edges

\* epoll_wait turns the edges it takes into events.
LEMMA EdgesWait == ASSUME Shape, Sockets, Edges, EpollWait PROVE Edges'
<1>1. /\ pc = "wait" /\ pc' = "dispatch" /\ events = {}
      /\ UNCHANGED <<sgen, unread, fin, full, sendq, cur>>
  BY DEF EpollWait, Shape, Batch, program
<1>2. pc \notin RecvPC /\ pc' \notin RecvPC /\ pc \notin SendPC /\ pc # "exit"
  BY <1>1 DEF RecvPC, SendPC
<1>3. WriteEdge'
  BY <1>1, <1>2, Reported DEF WriteEdge
<1>4. NoMissedInput'
  <2> SUFFICES ASSUME NEW f \in Fd, sgen[f] # 0, Readable(f)
               PROVE  \E e \in events' : e.fd = f /\ e.in
    BY <1>1 DEF NoMissedInput, Readable
  <2>1. ready[f]
    BY <1>1, <1>2 DEF Edges, NoMissedInput, Running
  <2>2. QED
    BY <2>1, Reported
<1>5. NoMissedOutput'
  <2> SUFFICES ASSUME NEW f \in Fd, sendq[f] # <<>>
               PROVE  full[f] \/ \E e \in events' : e.fd = f /\ e.out
    BY <1>1 DEF NoMissedOutput
  <2>1. full[f] \/ ready[f]
    BY <1>1, <1>2 DEF Edges, NoMissedOutput, Running
  <2>2. sgen[f] # 0
    BY DEF Sockets, Closed
  <2>3. QED
    BY <2>1, <2>2, Reported
<1>6. QED
  BY <1>3, <1>4, <1>5 DEF Edges

\* A connection that is accepted has its first edge to come.
LEMMA EdgesAccept == ASSUME Shape, Sockets, Edges, Accept PROVE Edges'
<1>1. PICK f \in Fd : /\ sgen[f] = 0
                      /\ sgen' = [sgen EXCEPT ![f] = conns - backlog + 1]
                      /\ ready' = [ready EXCEPT ![f] = TRUE]
                      /\ CreateConn(f, conns - backlog + 1)
  BY DEF Accept
<1>2. /\ events' = events \ {NoEvent} /\ pc = "dispatch"
      /\ UNCHANGED <<unread, fin, full, cur, pc>>
  BY DEF Accept
<1>3. pc \notin RecvPC /\ pc \notin SendPC /\ pc # "exit"
  BY <1>2 DEF RecvPC, SendPC
<1>4. /\ ready \in [Fd -> BOOLEAN] /\ sgen \in [Fd -> Gen]
      /\ \A e \in events : e # NoEvent => e.fd \in Fd
  BY DEF Shape, KernelOK, Batch
<1>5. \A g \in Fd : (g = f /\ ready'[g]) \/ UNCHANGED <<sgen[g], ready[g], sendq[g]>>
  BY <1>1, <1>4 DEF CreateConn, Shape, BuffersOK
<1>6. WriteEdge'
  BY <1>2, <1>3, <1>4, <1>5 DEF Edges, WriteEdge
<1>7. \A e \in events : e.fd \in Fd => e \in events'
  BY <1>2, NoEventTyped
<1>8. NoMissedInput'
  BY <1>2, <1>3, <1>5, <1>7 DEF Edges, NoMissedInput, Readable, Running
<1>9. NoMissedOutput'
  BY <1>2, <1>3, <1>5, <1>7 DEF Edges, NoMissedOutput, Running
<1>10. QED
  BY <1>6, <1>8, <1>9 DEF Edges

\* The end of a batch, and an accept that finds nothing, drop no client event.
LEMMA EdgesDispatch ==
  ASSUME Shape, Edges, BatchDone \/ AcceptFails \/ AcceptStops PROVE Edges'
<1>1. /\ pc = "dispatch" /\ pc' \in {"wait", "dispatch", "exit"}
      /\ UNCHANGED <<sgen, unread, fin, full, ready, sendq>>
      /\ events' \subseteq events
      /\ pc' # "exit" => \A e \in events : e # NoEvent => e \in events'
  BY DEF BatchDone, AcceptFails, AcceptStops, kernel, program
<1>2. /\ pc \notin RecvPC /\ pc \notin SendPC /\ pc # "exit"
      /\ pc' \notin RecvPC /\ pc' \notin SendPC
  BY <1>1 DEF RecvPC, SendPC
<1>3. WriteEdge'
  BY <1>1, <1>2 DEF Edges, WriteEdge
<1>4. NoMissedInput'
  BY <1>1, <1>2, NoEventTyped DEF Edges, NoMissedInput, Readable, Running
<1>5. NoMissedOutput'
  BY <1>1, <1>2, NoEventTyped DEF Edges, NoMissedOutput, Running
<1>6. QED
  BY <1>3, <1>4, <1>5 DEF Edges

\* An event that is taken out of the batch is the one at work.
LEMMA EdgesClientEvent == ASSUME Shape, Edges, ClientEvent PROVE Edges'
<1>1. PICK e \in events \ {NoEvent} :
        /\ events' = events \ {e} /\ cur' = e
        /\ pc' = IF e.in THEN "recv_run" ELSE IF e.out THEN "send_run" ELSE "dispatch"
  BY DEF ClientEvent
<1>2. pc = "dispatch" /\ UNCHANGED <<sgen, unread, fin, full, ready, sendq>>
  BY DEF ClientEvent, kernel, program
<1>3. /\ pc \notin RecvPC /\ pc \notin SendPC /\ pc # "exit"
      /\ e.in => pc' \in RecvPC
      /\ pc' \in RecvPC => e.in
      /\ e.out /\ ~e.in => pc' \in SendPC
  BY <1>1, <1>2 DEF RecvPC, SendPC
<1>4. \A d \in events : d.fd = e.fd => d = e
  BY <1>1 DEF Shape, Batch
<1>5. WriteEdge'
  BY <1>1, <1>2, <1>3 DEF Edges, WriteEdge
<1>6. NoMissedInput'
  BY <1>1, <1>2, <1>3, <1>4 DEF Edges, NoMissedInput, Readable, Running
<1>7. NoMissedOutput'
  BY <1>1, <1>2, <1>3, <1>4 DEF Edges, NoMissedOutput, Running
<1>8. QED
  BY <1>5, <1>6, <1>7 DEF Edges

\* A closed socket has no input, and its connection no queue.
LEMMA EdgesClosing == ASSUME Shape, Edges, Closing PROVE Edges'
<1>1. /\ cur.fd \in Fd /\ \A e \in events : e.fd # cur.fd
      /\ \A e \in events : e # NoEvent => e.fd \in Fd
      /\ pc # "exit"
  BY DEF Closing, Shape, Batch, Busy, RecvPC, SendPC
<1>2. UNCHANGED <<events, cur>>
  BY DEF Closing
<1>3. PICK also : CloseConn(cur.fd, also)
  BY DEF Closing
<1>4. /\ sgen'[cur.fd] = 0 /\ sendq'[cur.fd] = <<>>
      /\ \A f \in Fd \ {cur.fd} : UNCHANGED <<sgen[f], unread[f], fin[f], full[f],
                                               ready[f], sendq[f]>>
  <2>1. sgen'[cur.fd] = 0 /\ sendq'[cur.fd] = <<>>
    BY <1>1, <1>3 DEF CloseConn, Shape, KernelOK, BuffersOK
  <2>2. \A f \in Fd \ {cur.fd} : UNCHANGED <<sgen[f], unread[f], fin[f], sendq[f]>>
    BY <1>1, <1>3 DEF CloseConn, Shape, KernelOK, BuffersOK
  <2>3. \A f \in Fd \ {cur.fd} : UNCHANGED <<full[f], ready[f]>>
    BY <1>1, <1>3 DEF CloseConn, Shape, KernelOK
  <2>4. QED
    BY <2>1, <2>2, <2>3
<1>5. WriteEdge'
  BY <1>1, <1>2, <1>4 DEF Edges, WriteEdge
<1>6. NoMissedInput'
  BY <1>1, <1>2, <1>4 DEF Edges, NoMissedInput, Readable, Running
<1>7. NoMissedOutput'
  BY <1>1, <1>2, <1>4 DEF Edges, NoMissedOutput, Running
<1>8. QED
  BY <1>5, <1>6, <1>7 DEF Edges

\* recv_run ends when there is nothing left to read, and goes on to send_run
\* when the event says that the socket can be written to.
LEMMA EdgesAgain == ASSUME Shape, Edges, RecvAgain PROVE Edges'
<1>1. /\ pc = "recv" /\ ~Readable(cur.fd)
      /\ pc' = IF cur.out THEN "send_run" ELSE "dispatch"
      /\ UNCHANGED <<sgen, unread, fin, full, ready, sendq, events, cur>>
  BY DEF RecvAgain, AfterRecv, kernel
<1>2. /\ pc \in RecvPC /\ pc' \notin RecvPC /\ pc # "exit"
      /\ cur.out => pc' \in SendPC
      /\ pc \notin SendPC
  BY <1>1 DEF RecvPC, SendPC
<1>3. WriteEdge'
  BY <1>1, <1>2 DEF Edges, WriteEdge
<1>4. NoMissedInput'
  BY <1>1, <1>2 DEF Edges, NoMissedInput, Readable, Running
<1>5. NoMissedOutput'
  BY <1>1, <1>2 DEF Edges, NoMissedOutput, Running
<1>6. QED
  BY <1>3, <1>4, <1>5 DEF Edges

\* Reading a chunk leaves recv_run at work on the rest.
LEMMA EdgesChunk == ASSUME Shape, Edges, RecvChunk PROVE Edges'
<1>1. /\ pc = "recv" /\ cur.fd \in Fd
      /\ unread' = [unread EXCEPT ![cur.fd] = @ - 1]
      /\ UNCHANGED <<sgen, fin, full, ready, sendq, events, cur>>
  BY DEF RecvChunk, Shape, Batch, Busy, RecvPC
<1>2. pc \in RecvPC /\ pc' \in RecvPC /\ pc # "exit" /\ pc \notin SendPC
  BY <1>1, ChunkCases DEF Chunk, RecvPC, SendPC
<1>3. \A f \in Fd \ {cur.fd} : unread'[f] = unread[f]
  BY <1>1 DEF Shape, KernelOK
<1>4. WriteEdge'
  BY <1>1, <1>2 DEF Edges, WriteEdge
<1>5. NoMissedInput'
  BY <1>1, <1>2, <1>3 DEF Edges, NoMissedInput, Readable, Running
<1>6. NoMissedOutput'
  BY <1>1, <1>2 DEF Edges, NoMissedOutput, Running
<1>7. QED
  BY <1>4, <1>5, <1>6 DEF Edges

\* A response is queued when the socket is full, or, after an interrupted
\* call, with the event's EPOLLOUT or an edge still to come.
LEMMA EdgesQueued == ASSUME Shape, Sockets, Edges, RespondQueued PROVE Edges'
<1>1. /\ pc = "respond" /\ pc' = "request" /\ cur.fd \in Fd /\ sgen[cur.fd] # 0
      /\ sendq' = [sendq EXCEPT ![cur.fd] = Append(@, Head(pool))]
      /\ full' = [full EXCEPT ![cur.fd] = TRUE] \/ full' = full
      /\ UNCHANGED <<sgen, unread, fin, ready, events, cur>>
  BY DEF RespondQueued, Shape, Batch, Busy, RecvPC
<1>2. pc \in RecvPC /\ pc' \in RecvPC /\ pc # "exit" /\ pc \notin SendPC
  BY <1>1 DEF RecvPC, SendPC
<1>3. /\ \A f \in Fd \ {cur.fd} : sendq'[f] = sendq[f]
      /\ \A f \in Fd : full[f] => full'[f]
  BY <1>1 DEF Shape, KernelOK, BuffersOK
<1>4. \A e \in events : e # NoEvent => e.fd \in Fd
  BY DEF Shape, Batch
<1>5. WriteEdge'
  BY <1>1, <1>2, <1>3, <1>4 DEF Edges, WriteEdge
<1>6. NoMissedInput'
  BY <1>1, <1>2 DEF Edges, NoMissedInput, Readable, Running
<1>7. NoMissedOutput'
  <2> SUFFICES ASSUME NEW f \in Fd, sendq'[f] # <<>>
               PROVE  \/ full'[f] \/ ready[f]
                      \/ \E e \in events : e.fd = f /\ e.out
                      \/ cur.fd = f /\ cur.out
    BY <1>1, <1>2 DEF NoMissedOutput, Running
  <2>1. CASE f = cur.fd
    BY <1>1, <1>2, <1>3, <2>1 DEF Edges, WriteEdge
  <2>2. CASE f # cur.fd
    BY <1>1, <1>2, <1>3, <2>2 DEF Edges, NoMissedOutput, Running
  <2>3. QED
    BY <2>1, <2>2
<1>8. QED
  BY <1>5, <1>6, <1>7 DEF Edges

\* SendBuf stays at work until its queue is empty or the socket full.
LEMMA EdgesSend == ASSUME Shape, Edges, SendErase \/ SendDone PROVE Edges'
<1>1. /\ pc = "send_buf" /\ cur.fd \in Fd
      /\ UNCHANGED <<sgen, unread, fin, full, ready, events, cur>>
  BY DEF SendErase, SendDone, Shape, Batch, Busy, SendPC, kernel, loop
<1>2. \A f \in Fd \ {cur.fd} : sendq'[f] = sendq[f]
  BY <1>1 DEF SendErase, SendDone, Shape, BuffersOK, program
<1>3. pc' = pc \/ (pc' = "dispatch" /\ sendq'[cur.fd] = <<>>)
  BY DEF SendErase, SendDone, loop, program
<1>4. /\ pc \notin RecvPC /\ pc' \notin RecvPC /\ pc # "exit"
      /\ pc \in SendPC /\ (pc' \in SendPC \/ sendq'[cur.fd] = <<>>)
  BY <1>1, <1>3 DEF RecvPC, SendPC
<1>5. WriteEdge'
  BY <1>1, <1>4 DEF Edges, WriteEdge
<1>6. NoMissedInput'
  BY <1>1, <1>4 DEF Edges, NoMissedInput, Readable, Running
<1>7. NoMissedOutput'
  BY <1>1, <1>2, <1>4 DEF Edges, NoMissedOutput, Running
<1>8. QED
  BY <1>5, <1>6, <1>7 DEF Edges

\* Every step preserves Edges: one step of the proof per group of actions.
LEMMA EdgesStep == Shape /\ Sockets /\ Edges /\ [Next]_vars => Edges'
<1> SUFFICES ASSUME Shape, Sockets, Edges, [Next]_vars PROVE Edges'
  OBVIOUS
<1>1. CASE UNCHANGED vars
  BY <1>1, EdgesQuiet DEF vars, kernel, program, loop
<1>2. CASE Found \/ Allocated \/ RecvInterrupted \/ DoRequest \/ RespondNoBuffer
           \/ RespondSent \/ FinishRequests
  <2>1. UNCHANGED <<sgen, unread, fin, full, ready, sendq, events, cur>>
    BY <1>2 DEF Found, Allocated, RecvInterrupted, DoRequest, RespondNoBuffer,
                RespondSent, FinishRequests, kernel, program
  <2>2. \/ /\ pc \in {"recv_run", "alloc", "recv", "request", "respond"}
           /\ pc' \in {"alloc", "recv", "request", "respond"}
        \/ pc = "send_run" /\ pc' = "send_buf"
    BY <1>2 DEF Found, Allocated, RecvInterrupted, DoRequest, RespondNoBuffer,
                RespondSent, FinishRequests
  <2>3. QED
    BY <2>1, <2>2, EdgesQuiet DEF RecvPC, SendPC
<1>3. QED
  BY <1>1, <1>2, StepCases, EdgesEnvironment, EdgesWait, EdgesAccept, EdgesDispatch,
     EdgesClientEvent, EdgesClosing, EdgesAgain, EdgesChunk, EdgesQueued, EdgesSend

(***************************************************************************)
(* Theorems about the loop.                                                *)
(***************************************************************************)
\* At every step, of the server as of the clients, the layers hold.
LEMMA ServerInvariant == Spec => [](Shape /\ Sockets /\ Edges)
<1>1. Init => Shape /\ Sockets /\ Edges
  BY ShapeInit, SocketsInit, EdgesInit
<1>2. Shape /\ Sockets /\ Edges /\ [Next]_vars => (Shape /\ Sockets /\ Edges)'
  BY ShapeStep, SocketsStep, EdgesStep
<1>3. QED
  BY <1>1, <1>2, PTL DEF Spec

\* The variables of the kernel and of the event loop keep their types; in
\* particular no buffer and no counter leaves its range.
THEOREM ServerTypes == Spec => []TypeOK
<1>1. Shape => TypeOK
  BY ShapeTypes
<1>2. QED
  BY <1>1, ServerInvariant, PTL

\* The map of connections (MConnManager) and the open sockets always agree,
\* for any number of descriptors used again after a close.
THEOREM MapAgrees == Spec => []MapMatchesSockets
<1>1. Sockets => MapMatchesSockets
  BY DEF Sockets
<1>2. QED
  BY <1>1, ServerInvariant, PTL

\* accept_run handles no event of a batch for a connection other than the
\* one epoll_wait reported it for.
THEOREM EventsCurrent == Spec => []NoStaleEvent
<1>1. Shape /\ Sockets => NoStaleEvent
  BY DEF Shape, Batch, Sockets, Current, NoStaleEvent
<1>2. QED
  BY <1>1, ServerInvariant, PTL

\* With edge-triggered events accept_run, recv_run and send_run forget
\* neither input that has arrived nor a response that was queued.
THEOREM EdgesSeen == Spec => []NoMissedEdge
<1>1. Edges => NoMissedEdge
  BY DEF Edges, NoMissedEdge
<1>2. QED
  BY <1>1, ServerInvariant, PTL

(***************************************************************************)
(* Sequences as sets without repetition.                                   *)
(***************************************************************************)
LEMMA EmptyFacts == Range(<<>>) = {} /\ IsInjective(<<>>)
BY DEF Range, IsInjective

\* What an element adds at the end.
LEMMA AppendFacts ==
  ASSUME NEW S, NEW s \in Seq(S), NEW x \in S
  PROVE  /\ Range(Append(s, x)) = Range(s) \cup {x}
         /\ IsInjective(s) /\ x \notin Range(s) => IsInjective(Append(s, x))
<1> DEFINE t == Append(s, x)
<1>1. t \in Seq(S) /\ Len(t) = Len(s) + 1 /\ Len(s) \in Nat
  BY AppendProperties, LenProperties
<1>2. (\A i \in 1..Len(s) : t[i] = s[i]) /\ t[Len(s) + 1] = x
  BY AppendProperties
<1>3. DOMAIN t = 1..(Len(s) + 1) /\ DOMAIN s = 1..Len(s)
  BY <1>1, LenProperties
<1> HIDE DEF t
<1>4. \A i \in DOMAIN t : i \in DOMAIN s \/ i = Len(s) + 1
  BY <1>1, <1>3
<1>5. Range(t) = Range(s) \cup {x}
  <2>1. Range(t) \subseteq Range(s) \cup {x}
    BY <1>2, <1>3, <1>4 DEF Range
  <2>2. Range(s) \subseteq Range(t)
    BY <1>1, <1>2, <1>3 DEF Range
  <2>3. x \in Range(t)
    BY <1>1, <1>2, <1>3 DEF Range
  <2>4. QED
    BY <2>1, <2>2, <2>3
<1>6. ASSUME IsInjective(s), x \notin Range(s) PROVE IsInjective(t)
  BY <1>2, <1>3, <1>4, <1>6 DEF IsInjective, Range
<1>7. QED
  BY <1>5, <1>6 DEF t

\* What the head and the tail of a sequence have of it.
LEMMA HeadTailFacts ==
  ASSUME NEW S, NEW s \in Seq(S), s # <<>>
  PROVE  /\ Range(s) = {Head(s)} \cup Range(Tail(s))
         /\ IsInjective(s) => IsInjective(Tail(s)) /\ Head(s) \notin Range(Tail(s))
<1> DEFINE t == Tail(s)
<1>1. t \in Seq(S) /\ Len(t) = Len(s) - 1 /\ Len(s) \in Nat \ {0} /\ Head(s) = s[1]
  BY HeadTailProperties, LenProperties, EmptySeq
<1>2. \A i \in 1..Len(t) : t[i] = s[i + 1]
  BY HeadTailProperties
<1>3. DOMAIN t = 1..(Len(s) - 1) /\ DOMAIN s = 1..Len(s)
  BY <1>1, LenProperties
<1> HIDE DEF t
<1>4. \A i \in DOMAIN s : i = 1 \/ (i - 1 \in DOMAIN t /\ t[i - 1] = s[i])
  BY <1>1, <1>2, <1>3
<1>5. \A i \in DOMAIN t : i + 1 \in DOMAIN s /\ t[i] = s[i + 1] /\ i \in Nat \ {0}
  BY <1>1, <1>2, <1>3
<1>6. Range(s) = {Head(s)} \cup Range(t)
  <2>1. Range(s) \subseteq {Head(s)} \cup Range(t)
    BY <1>1, <1>4 DEF Range
  <2>2. Range(t) \subseteq Range(s)
    BY <1>5 DEF Range
  <2>3. Head(s) \in Range(s)
    BY <1>1, <1>3 DEF Range
  <2>4. QED
    BY <2>1, <2>2, <2>3
<1>7. ASSUME IsInjective(s) PROVE IsInjective(t)
  BY <1>5, <1>7 DEF IsInjective
<1>8. ASSUME IsInjective(s) PROVE Head(s) \notin Range(t)
  <2> SUFFICES ASSUME NEW i \in DOMAIN t, t[i] = Head(s) PROVE FALSE
    BY DEF Range
  <2>1. i + 1 \in DOMAIN s /\ 1 \in DOMAIN s /\ s[i + 1] = s[1] /\ i \in Nat \ {0}
    BY <1>1, <1>3, <1>5
  <2>2. i + 1 = 1
    BY <1>8, <2>1 DEF IsInjective
  <2>3. QED
    BY <2>1, <2>2
<1>9. QED
  BY <1>6, <1>7, <1>8 DEF t

\* Two sequences that share nothing, one after the other.
LEMMA ConcatInjective ==
  ASSUME NEW S, NEW s \in Seq(S), NEW t \in Seq(S), IsInjective(s), IsInjective(t),
         Range(s) \cap Range(t) = {}
  PROVE  IsInjective(s \o t)
<1> DEFINE u == s \o t
<1>1. u \in Seq(S) /\ Len(u) = Len(s) + Len(t) /\ Len(s) \in Nat /\ Len(t) \in Nat
  BY ConcatProperties, LenProperties
<1>2. \A i \in 1..Len(s) + Len(t) : u[i] = IF i <= Len(s) THEN s[i] ELSE t[i - Len(s)]
  BY ConcatProperties
<1>3. DOMAIN u = 1..Len(s) + Len(t) /\ DOMAIN s = 1..Len(s) /\ DOMAIN t = 1..Len(t)
  BY <1>1, LenProperties
<1> HIDE DEF u
<1>4. ASSUME NEW i \in DOMAIN u
      PROVE  \/ i \in DOMAIN s /\ u[i] = s[i] /\ u[i] \in Range(s)
             \/ i - Len(s) \in DOMAIN t /\ u[i] = t[i - Len(s)] /\ u[i] \in Range(t)
  <2>1. CASE i <= Len(s)
    BY <1>1, <1>2, <1>3, <2>1 DEF Range
  <2>2. CASE i > Len(s)
    <3>1. i - Len(s) \in DOMAIN t /\ u[i] = t[i - Len(s)]
      BY <1>1, <1>2, <1>3, <2>2
    <3>2. QED
      BY <3>1 DEF Range
  <2>3. QED
    BY <1>1, <1>3, <2>1, <2>2
<1>5. ASSUME NEW i \in DOMAIN u, NEW j \in DOMAIN u, u[i] = u[j] PROVE i = j
  <2>1. CASE i \in DOMAIN s /\ j \in DOMAIN s /\ u[i] = s[i] /\ u[j] = s[j]
    BY <1>5, <2>1 DEF IsInjective
  <2>2. CASE /\ i - Len(s) \in DOMAIN t /\ j - Len(s) \in DOMAIN t
             /\ u[i] = t[i - Len(s)] /\ u[j] = t[j - Len(s)]
    <3>1. i - Len(s) = j - Len(s)
      BY <1>5, <2>2 DEF IsInjective
    <3>2. i \in Int /\ j \in Int
      BY <1>1, <1>3
    <3>3. QED
      BY <1>1, <3>1, <3>2
  <2>3. QED
    BY <1>4, <1>5, <2>1, <2>2
<1>6. QED
  BY <1>5 DEF IsInjective, u

(***************************************************************************)
(* Moving buffers between places.  Here a distribution of the buffers is a *)
(* function from places to sequences.                                      *)
(***************************************************************************)
Spread == [Place -> Seq(Buffer)]

\* Every buffer is in at most one place, and once; and in at least one.
Exclusive(A) ==
  /\ \A l \in Place : IsInjective(A[l])
  /\ \A l, m \in Place : l # m => Range(A[l]) \cap Range(A[m]) = {}
Whole(A) == \A b \in Buffer : \E l \in Place : b \in Range(A[l])

\* The first buffer at one place goes to the end of another.
LEMMA MoveOne ==
  ASSUME NEW A \in Spread, NEW B \in Spread, NEW p \in Place, NEW q \in Place \ {p},
         A[p] # <<>>, B[p] = Tail(A[p]), B[q] = Append(A[q], Head(A[p])),
         \A l \in Place \ {p, q} : B[l] = A[l]
  PROVE  (Exclusive(A) => Exclusive(B)) /\ (Whole(A) => Whole(B))
<1> DEFINE x == Head(A[p])
<1>1. A[p] \in Seq(Buffer) /\ A[q] \in Seq(Buffer) /\ x \in Buffer
  BY HeadTailProperties DEF Spread
<1>2. /\ Range(A[p]) = {x} \cup Range(B[p])
      /\ IsInjective(A[p]) => IsInjective(B[p]) /\ x \notin Range(B[p])
  BY <1>1, HeadTailFacts
<1>3. /\ Range(B[q]) = Range(A[q]) \cup {x}
      /\ IsInjective(A[q]) /\ x \notin Range(A[q]) => IsInjective(B[q])
  BY <1>1, AppendFacts
<1> HIDE DEF x
<1>4. ASSUME Exclusive(A) PROVE Exclusive(B)
  <2>1. x \notin Range(A[q]) /\ x \notin Range(B[p])
    BY <1>2, <1>4 DEF Exclusive
  <2>2. \A l \in Place : IsInjective(B[l])
    BY <1>2, <1>3, <1>4, <2>1 DEF Exclusive
  <2>3. \A l \in Place : l # q => Range(B[l]) \subseteq Range(A[l]) /\ x \notin Range(B[l])
    BY <1>2, <1>4, <2>1 DEF Exclusive
  <2>4. ASSUME NEW l \in Place, NEW m \in Place, l # m
        PROVE  Range(B[l]) \cap Range(B[m]) = {}
    <3>1. Range(A[l]) \cap Range(A[m]) = {}
      BY <1>4, <2>4 DEF Exclusive
    <3>2. CASE l # q /\ m # q
      BY <2>3, <3>1, <3>2
    <3>3. CASE l = q
      BY <1>3, <2>3, <2>4, <3>1, <3>3
    <3>4. CASE m = q
      BY <1>3, <2>3, <2>4, <3>1, <3>4
    <3>5. QED
      BY <3>2, <3>3, <3>4
  <2>5. QED
    BY <2>2, <2>4 DEF Exclusive
<1>5. ASSUME Whole(A) PROVE Whole(B)
  <2> SUFFICES ASSUME NEW b \in Buffer PROVE \E l \in Place : b \in Range(B[l])
    BY DEF Whole
  <2>1. PICK l \in Place : b \in Range(A[l])
    BY <1>5 DEF Whole
  <2>2. QED
    BY <1>2, <1>3, <2>1
<1>6. QED
  BY <1>4, <1>5

\* All buffers at one place go to the end of another.
LEMMA MoveAll ==
  ASSUME NEW A \in Spread, NEW B \in Spread, NEW p \in Place, NEW q \in Place \ {p},
         B[p] = <<>>, B[q] = A[q] \o A[p], \A l \in Place \ {p, q} : B[l] = A[l]
  PROVE  (Exclusive(A) => Exclusive(B)) /\ (Whole(A) => Whole(B))
<1>1. A[p] \in Seq(Buffer) /\ A[q] \in Seq(Buffer)
  BY DEF Spread
<1>2. Range(B[q]) = Range(A[q]) \cup Range(A[p]) /\ Range(B[p]) = {}
  BY <1>1, RangeConcatenation, EmptyFacts
<1>3. ASSUME Exclusive(A) PROVE Exclusive(B)
  <2>1. IsInjective(B[q])
    <3>1. /\ IsInjective(A[p]) /\ IsInjective(A[q])
          /\ Range(A[q]) \cap Range(A[p]) = {}
      BY <1>3 DEF Exclusive
    <3>2. IsInjective(A[q] \o A[p])
      BY <1>1, <3>1, ConcatInjective
    <3>3. QED
      BY <3>2
  <2>2. \A l \in Place : IsInjective(B[l])
    BY <1>3, <2>1, EmptyFacts DEF Exclusive
  <2>3. ASSUME NEW l \in Place, NEW m \in Place, l # m
        PROVE  Range(B[l]) \cap Range(B[m]) = {}
    <3>1. /\ Range(A[l]) \cap Range(A[m]) = {}
          /\ l # p => Range(A[l]) \cap Range(A[p]) = {}
          /\ m # p => Range(A[m]) \cap Range(A[p]) = {}
      BY <1>3, <2>3 DEF Exclusive
    <3>2. QED
      BY <1>2, <2>3, <3>1
  <2>4. QED
    BY <2>2, <2>3 DEF Exclusive
<1>4. ASSUME Whole(A) PROVE Whole(B)
  <2> SUFFICES ASSUME NEW b \in Buffer PROVE \E l \in Place : b \in Range(B[l])
    BY DEF Whole
  <2>1. PICK l \in Place : b \in Range(A[l])
    BY <1>4 DEF Whole
  <2>2. QED
    BY <1>2, <2>1
<1>5. QED
  BY <1>3, <1>4

\* Losing buffers shares none.
LEMMA Lose ==
  ASSUME NEW A \in Spread, NEW B \in Spread, Exclusive(A),
         \A l \in Place : \/ B[l] = A[l] \/ B[l] = <<>>
                          \/ A[l] # <<>> /\ B[l] = Tail(A[l])
  PROVE  Exclusive(B)
<1>1. ASSUME NEW l \in Place PROVE IsInjective(B[l]) /\ Range(B[l]) \subseteq Range(A[l])
  <2>1. A[l] \in Seq(Buffer) /\ IsInjective(A[l])
    BY DEF Spread, Exclusive
  <2>2. CASE A[l] # <<>> /\ B[l] = Tail(A[l])
    BY <2>1, <2>2, HeadTailFacts
  <2>3. QED
    BY <2>1, <2>2, EmptyFacts
<1>2. QED
  BY <1>1 DEF Exclusive

\* With no less at any place taken together, none is lost.
LEMMA KeepWhole ==
  ASSUME NEW A, NEW B, Whole(A),
         \A l \in Place : \A b \in Range(A[l]) : \E m \in Place : b \in Range(B[m])
  PROVE  Whole(B)
BY DEF Whole

(***************************************************************************)
(* Where the server's buffers are.                                         *)
(***************************************************************************)
Located == [l \in Place |-> At(l)]
InPool == <<"pool", Listen>>
InHand == <<"hand", Listen>>
InDone == <<"done", Listen>>
InPartial(f) == <<"partial", f>>
InSendq(f) == <<"sendq", f>>

\* The places, by name, are different.
LEMMA Places ==
  /\ Place = {InPool, InHand, InDone} \cup {InPartial(f) : f \in Fd}
                                      \cup {InSendq(f) : f \in Fd}
  /\ InPool # InHand /\ InPool # InDone /\ InHand # InDone
  /\ \A f \in Fd : /\ InPartial(f) \notin {InPool, InHand, InDone}
                   /\ InSendq(f) \notin {InPool, InHand, InDone}
                   /\ \A g \in Fd : InPartial(f) # InSendq(g)
                   /\ \A g \in Fd \ {f} : InPartial(f) # InPartial(g) /\ InSendq(f) # InSendq(g)
<1> USE DEF InPool, InHand, InDone, InPartial, InSendq
<1>1. Place \subseteq {InPool, InHand, InDone} \cup {InPartial(f) : f \in Fd}
                                               \cup {InSendq(f) : f \in Fd}
  BY DEF Place
<1>2. {InPool, InHand, InDone} \cup {InPartial(f) : f \in Fd}
                               \cup {InSendq(f) : f \in Fd} \subseteq Place
  BY DEF Place
<1>3. QED
  BY <1>1, <1>2

InTheHand == IF buf = NoBuf THEN <<>> ELSE <<buf>>

\* What is in each place.
LEMMA LocatedAt ==
  /\ Located[InPool] = pool /\ Located[InHand] = InTheHand /\ Located[InDone] = done
  /\ \A f \in Fd : Located[InPartial(f)] = partial[f] /\ Located[InSendq(f)] = sendq[f]
<1>1. /\ At(InPool) = pool /\ At(InHand) = InTheHand /\ At(InDone) = done
      /\ \A f \in Fd : At(InPartial(f)) = partial[f] /\ At(InSendq(f)) = sendq[f]
  BY DEF At, InPool, InHand, InDone, InPartial, InSendq, InTheHand
<1>2. QED
  BY <1>1, Places DEF Located

\* And after a step.
LEMMA LocatedAtPrime ==
  /\ Located'[InPool] = pool' /\ Located'[InHand] = InTheHand' /\ Located'[InDone] = done'
  /\ \A f \in Fd : Located'[InPartial(f)] = partial'[f] /\ Located'[InSendq(f)] = sendq'[f]
<1>1. /\ At(InPool)' = pool' /\ At(InHand)' = InTheHand' /\ At(InDone)' = done'
      /\ \A f \in Fd : At(InPartial(f))' = partial'[f] /\ At(InSendq(f))' = sendq'[f]
  BY DEF At, InPool, InHand, InDone, InPartial, InSendq, InTheHand
<1>2. QED
  BY <1>1, Places DEF Located

\* Every place holds a sequence of buffers.
LEMMA LocatedTyped == BuffersOK => Located \in Spread
<1> SUFFICES ASSUME BuffersOK, NEW l \in Place PROVE At(l) \in Seq(Buffer)
  BY DEF Located, Spread
<1>1. InTheHand \in Seq(Buffer)
  BY NoGuards DEF BuffersOK, InTheHand
<1>2. Located[l] \in Seq(Buffer)
  <2>1. CASE l \in {InPool, InHand, InDone}
    BY <1>1, <2>1, LocatedAt DEF BuffersOK
  <2>2. ASSUME NEW f \in Fd, l = InPartial(f) \/ l = InSendq(f)
        PROVE  Located[l] \in Seq(Buffer)
    BY <2>2, LocatedAt DEF BuffersOK
  <2>3. QED
    BY <2>1, <2>2, Places
<1>3. QED
  BY <1>2 DEF Located

\* The invariants of RpcServer say it position by position.
LEMMA ExclusiveForm ==
  ASSUME BuffersOK
  PROVE  Exclusive(Located) <=>
           \A l, m \in Place : \A i \in 1..Len(At(l)), j \in 1..Len(At(m)) :
             At(l)[i] = At(m)[j] => l = m /\ i = j
<1>1. ASSUME NEW l \in Place
      PROVE  Located[l] = At(l) /\ DOMAIN At(l) = 1..Len(At(l))
  BY <1>1, LocatedTyped, LenProperties DEF Located, Spread
<1>2. ASSUME NEW l \in Place
      PROVE  \A x : x \in Range(At(l)) <=> \E i \in 1..Len(At(l)) : At(l)[i] = x
  BY <1>1 DEF Range
<1>3. ASSUME Exclusive(Located), NEW l \in Place, NEW m \in Place,
             NEW i \in 1..Len(At(l)), NEW j \in 1..Len(At(m)), At(l)[i] = At(m)[j]
      PROVE  l = m /\ i = j
  <2>1. l = m
    <3>1. At(l)[i] \in Range(Located[l]) /\ At(l)[i] \in Range(Located[m])
      BY <1>1, <1>2, <1>3
    <3>2. QED
      BY <1>3, <3>1 DEF Exclusive
  <2>2. QED
    BY <1>1, <1>3, <2>1 DEF Exclusive, IsInjective
<1>4. ASSUME \A l, m \in Place : \A i \in 1..Len(At(l)), j \in 1..Len(At(m)) :
               At(l)[i] = At(m)[j] => l = m /\ i = j
      PROVE  Exclusive(Located)
  <2>1. \A l \in Place : IsInjective(Located[l])
    BY <1>1, <1>4 DEF IsInjective
  <2>2. \A l, m \in Place : l # m => Range(Located[l]) \cap Range(Located[m]) = {}
    BY <1>1, <1>2, <1>4
  <2>3. QED
    BY <2>1, <2>2 DEF Exclusive
<1>5. QED
  BY <1>3, <1>4

\* Whole says of Located what WholeUnlessLost says of At.
LEMMA WholeForm ==
  ASSUME BuffersOK
  PROVE  Whole(Located) <=>
           \A b \in Buffer : \E l \in Place : \E i \in 1..Len(At(l)) : At(l)[i] = b
<1>1. ASSUME NEW l \in Place
      PROVE  Located[l] = At(l) /\ DOMAIN At(l) = 1..Len(At(l))
  BY <1>1, LocatedTyped, LenProperties DEF Located, Spread
<1>2. QED
  BY <1>1 DEF Whole, Range

\* And after a step.
LEMMA LocatedTypedPrime == BuffersOK' => Located' \in Spread
<1>1. (BuffersOK => Located \in Spread)'
  BY LocatedTyped, PTL
<1>2. QED
  BY <1>1 DEF Spread, Place

\* As long as no chunk is cut in two the buffers are exclusive, and as long
\* as nothing is lost, all there.
OneUser == "split" \notin history => Exclusive(Located)
NoneLost == history \subseteq {"split"} => Whole(Located)

\* What a step that only moves buffers keeps.
Kept == (Exclusive(Located) => Exclusive(Located')) /\ (Whole(Located) => Whole(Located'))

\* All buffers are in the pool in the initial state.
LEMMA UsersInit == Init => OneUser /\ NoneLost
<1> SUFFICES ASSUME Init PROVE Exclusive(Located) /\ Whole(Located)
  BY DEF OneUser, NoneLost
<1>1. Located[InPool] = FirstPool /\ \A l \in Place \ {InPool} : Located[l] = <<>>
  BY LocatedAt, Places DEF Init, InTheHand
<1>2. /\ FirstPool \in Seq(Buffer) /\ DOMAIN FirstPool = 1..Len(FirstPool)
      /\ IsInjective(FirstPool)
      /\ \A b \in Buffer : b \in Range(FirstPool)
  <2>1. FirstPool \in Seq(Buffer) /\ DOMAIN FirstPool = 1..Len(FirstPool)
    BY ServerAssumption, LenProperties
  <2>2. IsInjective(FirstPool)
    BY <2>1, ServerAssumption DEF IsInjective
  <2>3. \A b \in Buffer : b \in Range(FirstPool)
    BY <2>1, ServerAssumption DEF Range
  <2>4. QED
    BY <2>1, <2>2, <2>3
<1>3. Exclusive(Located)
  BY <1>1, <1>2, EmptyFacts DEF Exclusive
<1>4. Whole(Located)
  BY <1>1, <1>2, Places DEF Whole
<1>5. QED
  BY <1>3, <1>4

\* A step that moves no buffer.
LEMMA UsersSame ==
  ASSUME UNCHANGED <<pool, done, buf>>,
         \A f \in Fd : UNCHANGED <<partial[f], sendq[f]>>
  PROVE  Kept
<1>1. Located' = Located
  <2>1. \A l \in Place : At(l)' = At(l)
    BY DEF At, Place
  <2>2. QED
    BY <2>1 DEF Located
<1>2. QED
  BY <1>1 DEF Kept

\* AllocRecv: from the pool to the hand.
LEMMA UsersAllocated ==
  ASSUME Shape, BuffersOK', Allocated PROVE Kept
<1>1. /\ Located \in Spread /\ Located' \in Spread
      /\ InPool \in Place /\ InHand \in Place \ {InPool}
  BY LocatedTyped, LocatedTypedPrime, Places DEF Shape
<1>2. /\ pool # <<>> /\ pool' = Tail(pool) /\ buf = NoBuf /\ buf' = Head(pool)
      /\ buf' # NoBuf /\ UNCHANGED <<done, partial, sendq>>
  BY SMTT(30), HeadTailProperties, ServerAssumption DEF Allocated, Shape, Hand, BuffersOK
<1>3. Located'[InHand] = Append(Located[InHand], Head(Located[InPool]))
  BY <1>2, LocatedAt, LocatedAtPrime DEF InTheHand
<1>4. \A l \in Place \ {InPool, InHand} : Located'[l] = Located[l]
  BY <1>2, LocatedAt, LocatedAtPrime, Places
<1>5. Located[InPool] # <<>> /\ Located'[InPool] = Tail(Located[InPool])
  BY <1>2, LocatedAt, LocatedAtPrime
<1>6. QED
  BY <1>1, <1>3, <1>4, <1>5, MoveOne DEF Kept

\* GiveBack, from the hand to the pool, when the rest is as in A.
LEMMA UsersGiveBack ==
  ASSUME Shape, BuffersOK', pc = "recv", GiveBackBuf,
         NEW A \in Spread, A[InPool] = pool, A[InHand] = <<buf>>,
         \A l \in Place \ {InPool, InHand} : Located'[l] = A[l]
  PROVE  (Exclusive(A) => Exclusive(Located')) /\ (Whole(A) => Whole(Located'))
<1>1. Located' \in Spread /\ InHand \in Place /\ InPool \in Place \ {InHand}
  BY LocatedTypedPrime, Places
<1>2. pool' = Append(pool, buf) /\ buf' = NoBuf
  BY DEF GiveBackBuf
<1>3. /\ Head(A[InHand]) = buf /\ Tail(A[InHand]) = <<>> /\ A[InHand] # <<>>
  OBVIOUS
<1>4. /\ Located'[InHand] = Tail(A[InHand])
      /\ Located'[InPool] = Append(A[InPool], Head(A[InHand]))
  BY <1>2, <1>3, LocatedAtPrime DEF InTheHand
<1>5. \A l \in Place \ {InHand, InPool} : Located'[l] = A[l]
  OBVIOUS
<1>6. QED
  BY <1>1, <1>3, <1>4, <1>5, MoveOne

\* While it receives, recv_run has a buffer in its hand.
LEMMA HandFull == ASSUME Shape, pc = "recv" PROVE Located[InHand] = <<buf>> /\ buf \in Buffer
BY LocatedAt DEF Shape, Hand, BuffersOK, InTheHand

\* Otherwise it has none.
LEMMA HandEmpty == ASSUME Shape, pc # "recv" PROVE Located[InHand] = <<>> /\ buf = NoBuf
BY LocatedAt DEF Shape, Hand, InTheHand

\* recv_run gives its buffer back when there is nothing to receive.
LEMMA UsersAgain == ASSUME Shape, BuffersOK', RecvAgain \/ RecvInterrupted PROVE Kept
<1>1. pc = "recv" /\ GiveBackBuf /\ UNCHANGED <<done, partial, sendq>>
  BY DEF RecvAgain, RecvInterrupted
<1>2. \A l \in Place \ {InPool, InHand} : Located'[l] = Located[l]
  BY <1>1, LocatedAt, LocatedAtPrime, Places
<1>3. Located \in Spread /\ Located[InPool] = pool
  BY LocatedTyped, LocatedAt DEF Shape
<1>4. QED
  BY <1>1, <1>2, <1>3, HandFull, UsersGiveBack DEF Kept

\* Closing a connection loses what it guards, and says so.
LEMMA UsersClosing ==
  ASSUME Shape, BuffersOK', Closing PROVE (OneUser => OneUser') /\ (NoneLost => NoneLost')
<1>1. PICK also \in {{}, {"send_error"}} :
        /\ Busy /\ CloseConn(cur.fd, also) /\ UNCHANGED done
        /\ \/ UNCHANGED <<pool, buf>>
           \/ pc = "recv" /\ GiveBackBuf
           \/ /\ "send_error" \in also
              /\ pool # <<>> /\ pool' = Tail(pool) /\ UNCHANGED buf
  BY DEF Closing
<1>2. cur.fd \in Fd
  BY <1>1 DEF Shape, Batch
<1>3. /\ partial' = [partial EXCEPT ![cur.fd] = <<>>]
      /\ sendq' = [sendq EXCEPT ![cur.fd] = <<>>]
      /\ history \subseteq history' /\ also \subseteq history'
      /\ "close_held" \notin history' => partial[cur.fd] \o sendq[cur.fd] = <<>>
  BY <1>1 DEF CloseConn
<1>4. \A f \in Fd : /\ partial'[f] = IF f = cur.fd THEN <<>> ELSE partial[f]
                    /\ sendq'[f] = IF f = cur.fd THEN <<>> ELSE sendq[f]
  BY <1>3 DEF Shape, BuffersOK
<1>5. Located \in Spread /\ Located' \in Spread
  BY LocatedTyped, LocatedTypedPrime DEF Shape
<1>6. \A l \in Place \ {InPool, InHand} : Located'[l] = Located[l] \/ Located'[l] = <<>>
  BY <1>1, <1>4, LocatedAt, LocatedAtPrime, Places
<1>7. ASSUME Exclusive(Located) PROVE Exclusive(Located')
  <2>1. CASE pc = "recv" /\ GiveBackBuf
    <3> DEFINE A == [l \in Place |-> IF l \in {InPool, InHand} THEN Located[l] ELSE Located'[l]]
    <3>1. A \in Spread
      BY <1>5 DEF Spread
    <3>2. Exclusive(A)
      <4>1. \A l \in Place : A[l] = Located[l] \/ A[l] = <<>>
        BY <1>6
      <4>2. QED
        BY <1>5, <1>7, <3>1, <4>1, Lose
    <3>3. A[InPool] = pool /\ A[InHand] = <<buf>>
      BY <2>1, LocatedAt, HandFull, Places
    <3>4. \A l \in Place \ {InPool, InHand} : Located'[l] = A[l]
      OBVIOUS
    <3> HIDE DEF A
    <3>5. QED
      BY <2>1, <3>1, <3>2, <3>3, <3>4, UsersGiveBack
  <2>2. CASE UNCHANGED <<pool, buf>> \/ (pool # <<>> /\ pool' = Tail(pool) /\ UNCHANGED buf)
    <3>1. Located'[InHand] = Located[InHand]
      BY <2>2, LocatedAt, LocatedAtPrime DEF InTheHand
    <3>2. \/ Located'[InPool] = Located[InPool]
          \/ Located[InPool] # <<>> /\ Located'[InPool] = Tail(Located[InPool])
      BY <2>2, LocatedAt, LocatedAtPrime
    <3>3. QED
      BY <1>5, <1>6, <1>7, <3>1, <3>2, Lose
  <2>3. QED
    BY <1>1, <2>1, <2>2
<1>8. ASSUME Whole(Located), history' \subseteq {"split"} PROVE Whole(Located')
  <2>1. partial[cur.fd] = <<>> /\ sendq[cur.fd] = <<>>
    <3>1. partial[cur.fd] \in Seq(Buffer) /\ sendq[cur.fd] \in Seq(Buffer)
      BY <1>2 DEF Shape, BuffersOK
    <3>2. partial[cur.fd] \o sendq[cur.fd] = <<>>
      BY <1>3, <1>8
    <3>3. QED
      BY <3>1, <3>2, ConcatEqualIffEmpty
  <2>2. \A f \in Fd : UNCHANGED <<partial[f], sendq[f]>>
    BY <1>4, <2>1
  <2>3. "send_error" \notin also
    BY <1>3, <1>8
  <2>4. CASE UNCHANGED <<pool, buf>>
    BY <1>1, <1>8, <2>2, <2>4, UsersSame DEF Kept
  <2>5. CASE pc = "recv" /\ GiveBackBuf
    <3>1. \A l \in Place \ {InPool, InHand} : Located'[l] = Located[l]
      BY <1>1, <2>2, LocatedAt, LocatedAtPrime, Places
    <3>2. Located[InPool] = pool
      BY LocatedAt
    <3>3. QED
      BY <1>5, <1>8, <2>5, <3>1, <3>2, HandFull, UsersGiveBack
  <2>6. QED
    BY <1>1, <2>3, <2>4, <2>5
<1>9. OneUser => OneUser'
  BY <1>3, <1>7 DEF OneUser, Exclusive
<1>10. NoneLost => NoneLost'
  BY <1>3, <1>8 DEF NoneLost, Whole
<1>11. QED
  BY <1>9, <1>10

\* RespondQueued: from the pool to the send queue.
LEMMA UsersQueued == ASSUME Shape, BuffersOK', RespondQueued PROVE Kept
<1>1. cur.fd \in Fd
  BY DEF RespondQueued, Shape, Batch, Busy, RecvPC
<1>2. /\ pool # <<>> /\ pool' = Tail(pool)
      /\ sendq'[cur.fd] = Append(sendq[cur.fd], Head(pool))
      /\ \A f \in Fd \ {cur.fd} : sendq'[f] = sendq[f]
      /\ UNCHANGED <<buf, done, partial>>
  BY <1>1 DEF RespondQueued, Shape, BuffersOK
<1>3. /\ Located \in Spread /\ Located' \in Spread
      /\ InPool \in Place /\ InSendq(cur.fd) \in Place \ {InPool}
  BY <1>1, LocatedTyped, LocatedTypedPrime, Places DEF Shape
<1>4. /\ Located[InPool] # <<>> /\ Located'[InPool] = Tail(Located[InPool])
      /\ Located'[InSendq(cur.fd)] = Append(Located[InSendq(cur.fd)], Head(Located[InPool]))
  BY <1>1, <1>2, LocatedAt, LocatedAtPrime
<1>5. \A l \in Place \ {InPool, InSendq(cur.fd)} : Located'[l] = Located[l]
  BY <1>1, <1>2, LocatedAt, LocatedAtPrime, Places DEF InTheHand
<1>6. QED
  BY <1>3, <1>4, <1>5, MoveOne DEF Kept

\* SendErase: from the send queue to the pool.
LEMMA UsersErase == ASSUME Shape, BuffersOK', SendErase PROVE Kept
<1>1. cur.fd \in Fd
  BY DEF SendErase, Shape, Batch, Busy, SendPC
<1>2. /\ sendq[cur.fd] # <<>> /\ pool' = Append(pool, Head(sendq[cur.fd]))
      /\ sendq'[cur.fd] = Tail(sendq[cur.fd])
      /\ \A f \in Fd \ {cur.fd} : sendq'[f] = sendq[f]
      /\ UNCHANGED <<buf, done, partial>>
  BY <1>1 DEF SendErase, Shape, BuffersOK, loop
<1>3. /\ Located \in Spread /\ Located' \in Spread
      /\ InSendq(cur.fd) \in Place /\ InPool \in Place \ {InSendq(cur.fd)}
  BY <1>1, LocatedTyped, LocatedTypedPrime, Places DEF Shape
<1>4. /\ Located[InSendq(cur.fd)] # <<>>
      /\ Located'[InSendq(cur.fd)] = Tail(Located[InSendq(cur.fd)])
      /\ Located'[InPool] = Append(Located[InPool], Head(Located[InSendq(cur.fd)]))
  BY <1>1, <1>2, LocatedAt, LocatedAtPrime
<1>5. \A l \in Place \ {InSendq(cur.fd), InPool} : Located'[l] = Located[l]
  BY <1>1, <1>2, LocatedAt, LocatedAtPrime, Places DEF InTheHand
<1>6. QED
  BY <1>3, <1>4, <1>5, MoveOne DEF Kept

\* FinishRequests: all of the complete requests' buffers to the pool.
LEMMA UsersFinish == ASSUME Shape, BuffersOK', FinishRequests PROVE Kept
<1>1. pool' = pool \o done /\ done' = <<>> /\ UNCHANGED <<buf, partial, sendq>>
  BY DEF FinishRequests
<1>2. /\ Located \in Spread /\ Located' \in Spread
      /\ InDone \in Place /\ InPool \in Place \ {InDone}
  BY LocatedTyped, LocatedTypedPrime, Places DEF Shape
<1>3. Located'[InDone] = <<>> /\ Located'[InPool] = Located[InPool] \o Located[InDone]
  BY <1>1, LocatedAt, LocatedAtPrime
<1>4. \A l \in Place \ {InDone, InPool} : Located'[l] = Located[l]
  BY <1>1, LocatedAt, LocatedAtPrime, Places DEF InTheHand
<1>5. QED
  BY <1>2, <1>3, <1>4, MoveAll DEF Kept

\* RespondSent: from the pool to do_response's hand and back.
LEMMA UsersSent == ASSUME Shape, BuffersOK', RespondSent PROVE Kept
<1>1. /\ pool # <<>> /\ pool' = Append(Tail(pool), Head(pool)) /\ pc # "recv"
      /\ UNCHANGED <<buf, done, partial, sendq>>
  BY DEF RespondSent
<1>2. /\ Located \in Spread /\ Located' \in Spread
      /\ InPool \in Place \ {InHand} /\ InHand \in Place \ {InPool}
  BY LocatedTyped, LocatedTypedPrime, Places DEF Shape
<1>3. Head(pool) \in Buffer /\ Tail(pool) \in Seq(Buffer)
  BY <1>1, HeadTailProperties DEF Shape, BuffersOK
<1> DEFINE A == [Located EXCEPT ![InPool] = Tail(pool), ![InHand] = <<Head(pool)>>]
<1>4. A \in Spread /\ A[InPool] = Tail(pool) /\ A[InHand] = <<Head(pool)>>
  <2>1. <<Head(pool)>> \in Seq(Buffer)
    BY <1>3
  <2>2. QED
    BY <1>2, <1>3, <2>1 DEF Spread
<1>5. \A l \in Place \ {InPool, InHand} : A[l] = Located[l]
  BY <1>2 DEF Spread
<1> HIDE DEF A
<1>6. /\ Located[InPool] # <<>> /\ A[InPool] = Tail(Located[InPool])
      /\ A[InHand] = Append(Located[InHand], Head(Located[InPool]))
  BY <1>1, <1>4, LocatedAt, HandEmpty
<1>7. (Exclusive(Located) => Exclusive(A)) /\ (Whole(Located) => Whole(A))
  BY <1>2, <1>4, <1>5, <1>6, MoveOne
<1>8. /\ A[InHand] # <<>> /\ Located'[InHand] = Tail(A[InHand])
      /\ Located'[InPool] = Append(A[InPool], Head(A[InHand]))
  BY <1>1, <1>4, LocatedAtPrime, HandEmpty DEF InTheHand
<1>9. \A l \in Place \ {InHand, InPool} : Located'[l] = A[l]
  BY <1>1, <1>5, LocatedAt, LocatedAtPrime, Places
<1>10. (Exclusive(A) => Exclusive(Located')) /\ (Whole(A) => Whole(Located'))
  BY <1>2, <1>4, <1>8, <1>9, MoveOne
<1>11. QED
  BY <1>7, <1>10 DEF Kept

\* The guards of a chunk are all of the one buffer.
LEMMA CopiesFacts ==
  ASSUME Shape, pc = "recv", NEW n \in Nat
  PROVE  /\ Copies(n) \in Seq(Buffer)
         /\ n = 0 => Copies(n) = <<>>
         /\ n = 1 => Copies(n) = <<buf>>
         /\ n > 0 => Range(Copies(n)) = {buf}
<1>1. buf \in Buffer
  BY HandFull
<1>2. Copies(n) \in Seq(Buffer) /\ Len(Copies(n)) = n /\ DOMAIN Copies(n) = 1..n
      /\ \A i \in 1..n : Copies(n)[i] = buf
  BY <1>1 DEF Copies
<1>3. n = 0 => Copies(n) = <<>>
  BY <1>2, EmptySeq
<1>4. n = 1 => Copies(n) = <<buf>>
  <2>1. <<buf>> \in Seq(Buffer) /\ Len(<<buf>>) = 1 /\ <<buf>>[1] = buf
    BY <1>1
  <2>2. QED
    BY <1>2, <2>1, SeqEqual
<1>5. n > 0 => Range(Copies(n)) = {buf}
  BY <1>2 DEF Range
<1>6. QED
  BY <1>2, <1>3, <1>4, <1>5

\* The pieces of a chunk: from the hand to the complete requests and to the
\* partial one, and from the partial one to the complete ones.
LEMMA UsersChunk ==
  ASSUME Shape, BuffersOK', RecvChunk PROVE (OneUser => OneUser') /\ (NoneLost => NoneLost')
<1>1. pc = "recv" /\ buf' = NoBuf /\ UNCHANGED <<pool, sendq>> /\ cur.fd \in Fd
  BY DEF RecvChunk, Shape, Batch, Busy, RecvPC
<1>2. PICK k \in Nat, i \in Nat, j \in 0..2 : Chunk(k, i, j)
  BY ChunkCases
<1> DEFINE f == cur.fd
           P == InPartial(f)
<1>3. /\ done = <<>> /\ buf \in Buffer /\ partial[f] \in Seq(Buffer)
      /\ Located[InHand] = <<buf>> /\ Located[InDone] = <<>> /\ Located[P] = partial[f]
  BY <1>1, HandFull, LocatedAt DEF Shape, Hand, BuffersOK
<1>4. /\ Located \in Spread /\ Located' \in Spread
      /\ P \in Place \ {InHand, InDone} /\ InHand \in Place \ {P, InDone}
      /\ InDone \in Place \ {InHand, P}
  BY <1>1, LocatedTyped, LocatedTypedPrime, Places DEF Shape
<1>5. /\ partial'[f] = IF k = 0 THEN partial[f] \o Copies(j) ELSE Copies(j)
      /\ \A g \in Fd \ {f} : partial'[g] = partial[g]
  BY <1>1, <1>2 DEF Chunk, Shape, BuffersOK
<1>6. /\ Located'[InHand] = <<>>
      /\ Located'[InDone] = IF k = 0 THEN <<>> ELSE partial[f] \o Copies(i)
      /\ Located'[P] = IF k = 0 THEN partial[f] \o Copies(j) ELSE Copies(j)
  BY <1>1, <1>2, <1>5, LocatedAtPrime DEF InTheHand, Chunk
<1>7. \A l \in Place \ {InHand, InDone, P} : Located'[l] = Located[l]
  BY <1>1, <1>5, LocatedAt, LocatedAtPrime, Places
<1>8. /\ history \subseteq history'
      /\ i + j > 1 => "split" \in history'
      /\ i + j = 0 => "framing" \in history'
      /\ IF k = 0 THEN i = 0 ELSE i > 0
  BY <1>2 DEF Chunk
<1> HIDE DEF P, f
<1>9. CASE k = 0 /\ j = 0
  <2>1. Located'[P] = Located[P] /\ Located'[InDone] = Located[InDone]
    BY <1>1, <1>3, <1>6, <1>9, CopiesFacts, ConcatEmptySeq
  <2>2. \A l \in Place : Located'[l] = Located[l] \/ Located'[l] = <<>>
    BY <1>6, <1>7, <2>1
  <2>3. Exclusive(Located) => Exclusive(Located')
    BY <1>4, <2>2, Lose
  <2>4. "framing" \in history'
    BY <1>8, <1>9
  <2>5. QED
    BY <1>8, <2>3, <2>4 DEF OneUser, NoneLost, Exclusive
<1>10. CASE k = 0 /\ j = 1
  <2>1. Located'[P] = Append(Located[P], Head(Located[InHand]))
    <3>1. Located'[P] = partial[f] \o <<buf>>
      BY <1>1, <1>6, <1>10, CopiesFacts
    <3>2. Head(Located[InHand]) = buf
      BY <1>3
    <3>3. QED
      BY <1>3, <3>1, <3>2, AppendIsConcat
  <2>2. Located'[InHand] = Tail(Located[InHand]) /\ Located[InHand] # <<>>
    BY <1>3, <1>6
  <2>3. \A l \in Place \ {InHand, P} : Located'[l] = Located[l]
    BY <1>3, <1>6, <1>7, <1>10
  <2>4. Kept
    BY <1>4, <2>1, <2>2, <2>3, MoveOne DEF Kept
  <2>5. QED
    BY <1>8, <2>4 DEF Kept, OneUser, NoneLost, Exclusive, Whole
<1>11. CASE k # 0 /\ i = 1 /\ j = 0
  <2> DEFINE A == [Located EXCEPT ![P] = <<>>, ![InDone] = partial[f]]
  <2>1. A \in Spread /\ A[P] = <<>> /\ A[InDone] = partial[f] /\ A[InHand] = <<buf>>
    BY <1>3, <1>4, NoGuards DEF Spread
  <2>2. \A l \in Place \ {P, InDone} : A[l] = Located[l]
    BY <1>4 DEF Spread
  <2> HIDE DEF A
  <2>3. A[InDone] = Located[InDone] \o Located[P]
    BY <1>3, <2>1, ConcatEmptySeq
  <2>4. (Exclusive(Located) => Exclusive(A)) /\ (Whole(Located) => Whole(A))
    BY <1>4, <2>1, <2>2, <2>3, MoveAll
  <2>5. Located'[InDone] = Append(A[InDone], Head(A[InHand]))
    <3>1. Located'[InDone] = partial[f] \o <<buf>>
      <4>1. Copies(i) = <<buf>>
        BY <1>1, <1>11, CopiesFacts
      <4>2. QED
        BY <1>6, <1>11, <4>1
    <3>2. Head(A[InHand]) = buf
      BY <2>1
    <3>3. QED
      BY <1>3, <2>1, <3>1, <3>2, AppendIsConcat
  <2>6. Located'[P] = A[P]
    BY <1>1, <1>6, <1>11, <2>1, CopiesFacts
  <2>7. Located'[InHand] = Tail(A[InHand]) /\ A[InHand] # <<>>
    BY <1>6, <2>1
  <2>8. \A l \in Place \ {InHand, InDone} : Located'[l] = A[l]
    BY <1>7, <2>2, <2>6
  <2>9. (Exclusive(A) => Exclusive(Located')) /\ (Whole(A) => Whole(Located'))
    BY <1>4, <2>1, <2>5, <2>7, <2>8, MoveOne
  <2>10. Kept
    BY <2>4, <2>9 DEF Kept
  <2>11. QED
    BY <1>8, <2>10 DEF Kept, OneUser, NoneLost, Exclusive, Whole
<1>12. CASE i + j > 1
  <2>1. /\ Range(Located[InHand]) = {buf} /\ Range(Located[InDone]) = {}
        /\ Range(Located[P]) = Range(partial[f])
    BY <1>3, EmptyFacts DEF Range
  <2>2. IF k = 0 THEN Range(Located'[P]) = Range(partial[f]) \cup {buf}
                 ELSE Range(Located'[InDone]) = Range(partial[f]) \cup {buf}
    <3>1. CASE k = 0
      <4>1. j > 0
        BY <1>8, <1>12, <3>1
      <4>2. Copies(j) \in Seq(Buffer) /\ Range(Copies(j)) = {buf}
        BY <1>1, <4>1, CopiesFacts
      <4>3. QED
        BY <1>3, <1>6, <3>1, <4>2, RangeConcatenation
    <3>2. CASE k # 0
      <4>1. Copies(i) \in Seq(Buffer) /\ Range(Copies(i)) = {buf}
        BY <1>1, <1>8, <3>2, CopiesFacts
      <4>2. QED
        BY <1>3, <1>6, <3>2, <4>1, RangeConcatenation
    <3>3. QED
      BY <3>1, <3>2
  <2>3. \A l \in Place : \A b \in Range(Located[l]) : \E m \in Place : b \in Range(Located'[m])
    BY <1>4, <1>7, <2>1, <2>2
  <2>4. Whole(Located) => Whole(Located')
    BY <2>3, KeepWhole
  <2>5. QED
    BY <1>8, <1>12, <2>4 DEF OneUser, NoneLost, Whole
<1>13. QED
  BY <1>8, <1>9, <1>10, <1>11, <1>12

\* Every step preserves OneUser and NoneLost: one step of the proof per group of
\* actions.
LEMMA UsersStep == Shape /\ Sockets /\ Shape' /\ OneUser /\ NoneLost /\ [Next]_vars
                     => OneUser' /\ NoneLost'
<1> SUFFICES ASSUME Shape, Sockets, Shape', OneUser, NoneLost, [Next]_vars
             PROVE  OneUser' /\ NoneLost'
  OBVIOUS
<1> USE DEF kernel, program, loop
<1>1. BuffersOK'
  BY DEF Shape
<1>2. ASSUME Kept, history' = history PROVE OneUser' /\ NoneLost'
  BY <1>2 DEF Kept, OneUser, NoneLost, Exclusive, Whole
<1>3. CASE UNCHANGED vars
  BY <1>2, <1>3, UsersSame DEF vars
<1>4. CASE Environment
  BY <1>2, <1>4, UsersSame DEF Environment, Connect, Arrive, Drain, Hangup
<1>5. CASE EpollWait \/ BatchDone \/ AcceptFails \/ AcceptStops \/ ClientEvent \/ Found
           \/ DoRequest \/ RespondNoBuffer \/ SendDone
  <2>1. UNCHANGED <<pool, done, buf, partial, sendq, history>>
    BY <1>5 DEF EpollWait, BatchDone, AcceptFails, AcceptStops, ClientEvent, Found,
                DoRequest, RespondNoBuffer, SendDone
  <2>2. QED
    BY <1>2, <2>1, UsersSame
<1>6. CASE Accept
  <2>1. UNCHANGED <<pool, done, buf, history>>
    BY <1>6 DEF Accept
  <2>2. PICK f \in Fd : sgen[f] = 0 /\ CreateConn(f, conns - backlog + 1)
    BY <1>6 DEF Accept
  <2>3. \A g \in Fd : UNCHANGED <<partial[g], sendq[g]>>
    BY <2>2 DEF CreateConn, Sockets, Closed, Shape, BuffersOK
  <2>4. QED
    BY <1>2, <2>1, <2>3, UsersSame
<1>7. CASE Allocated
  BY <1>1, <1>2, <1>7, UsersAllocated DEF Allocated
<1>8. CASE RecvAgain \/ RecvInterrupted
  BY <1>1, <1>2, <1>8, UsersAgain DEF RecvAgain, RecvInterrupted
<1>9. CASE RespondSent \/ RespondQueued
  BY <1>1, <1>2, <1>9, UsersSent, UsersQueued DEF RespondSent, RespondQueued
<1>10. CASE FinishRequests \/ SendErase
  BY <1>1, <1>2, <1>10, UsersFinish, UsersErase DEF FinishRequests, SendErase
<1>11. QED
  BY <1>1, <1>3, <1>4, <1>5, <1>6, <1>7, <1>8, <1>9, <1>10, UsersClosing, UsersChunk,
     StepCases

\* OneUser and NoneLost hold in every state.
LEMMA UsersInvariant == Spec => [](Shape /\ Sockets /\ OneUser /\ NoneLost)
<1>1. Init => Shape /\ Sockets /\ OneUser /\ NoneLost
  BY ShapeInit, SocketsInit, UsersInit
<1>2. Shape /\ Sockets /\ OneUser /\ NoneLost /\ [Next]_vars
        => (Shape /\ Sockets /\ OneUser /\ NoneLost)'
  BY ShapeStep, SocketsStep, UsersStep
<1>3. QED
  BY <1>1, <1>2, PTL DEF Spec

\* As long as recv_run cut no chunk into two guards, no buffer of
\* MBufferPool is in two places: no two connections, and no request and its
\* response, share one.
THEOREM BuffersExclusive == Spec => []ExclusiveUnlessSplit
<1>1. Shape /\ OneUser => ExclusiveUnlessSplit
  BY ExclusiveForm DEF Shape, OneUser, ExclusiveUnlessSplit
<1>2. QED
  BY <1>1, UsersInvariant, PTL

\* MBufferPool loses a buffer only in the three ways the history records: a
\* chunk without a guard, a response that could not be sent, a connection
\* closed while it guards buffers.
THEOREM BuffersWhole == Spec => []WholeUnlessLost
<1>1. Shape /\ NoneLost => WholeUnlessLost
  BY WholeForm DEF Shape, NoneLost, WholeUnlessLost
<1>2. QED
  BY <1>1, UsersInvariant, PTL
=============================================================================
