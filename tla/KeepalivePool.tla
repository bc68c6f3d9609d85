--------------------------- MODULE KeepalivePool ----------------------------
(***************************************************************************)
(* gencode/openresty-app/common: rds.lua (redis) and db.lua (mysql).       *)
(* Every operation connects, prepares the connection, sends one command    *)
(* and gives the connection to the keepalive pool of the worker.  Each of  *)
(* these calls yields, so the requests of the worker interleave between    *)
(* them.  A connection that was neither pooled nor closed belongs to its   *)
(* request until nginx ends it.                                            *)
(*                                                                         *)
(* The cosockets and the resty client libraries are external: a redis      *)
(* client closes its socket when a reply times out; a mysql client that    *)
(* still owes a reply, and a redis client that has subscribed, refuse      *)
(* set_keepalive; with a backlog (db_config) connect waits while pool_size *)
(* connections are open, without one (redis) it never waits.               *)
(***************************************************************************)
EXTENDS Naturals, Sequences, FiniteSets

CONSTANTS
  Requests,    \* the requests (light threads) of the worker
  PoolSize,    \* pool_size (100 in the code)
  MaxConns,    \* bound: connections open at a time
  MaxOps       \* bound: operations a request performs

ASSUME PoolAssumption == PoolSize \in Nat \ {0} /\ MaxConns \in Nat /\ MaxOps \in Nat

Conns == 1..MaxConns
None == 0
Database == 0                \* redis_config.database
Databases == {0, 1}

VARIABLES
  store,       \* which of the two files: "redis" or "mysql"
  pc,          \* pc[r]: where request r is
  ops,         \* ops[r]: the operations it has begun
  cur,         \* cur[r]: red or db, the connection of its operation
  held,        \* held[r]: the connections that belong to it
  conn,        \* conn[c]: the state of connection c
  pool         \* the idle connections, the one last used first

vars == <<store, pc, ops, cur, held, conn, pool>>

Conn == [open : BOOLEAN,
         db : Databases,                     \* the database selected
         init : {"none", "ok", "failed"},    \* the last SELECT / SET NAMES
         stuck : BOOLEAN,                    \* set_keepalive would refuse it
         reused : BOOLEAN]                   \* get_reused_times() > 0
Closed == [open |-> FALSE, db |-> 0, init |-> "none", stuck |-> FALSE, reused |-> FALSE]
Fresh == [Closed EXCEPT !.open = TRUE]

TypeOK == /\ store \in {"redis", "mysql"}
          /\ pc \in [Requests -> {"idle", "connect", "init", "work", "release"}]
          /\ ops \in [Requests -> 0..MaxOps]
          /\ cur \in [Requests -> Conns \cup {None}]
          /\ held \in [Requests -> SUBSET Conns]
          /\ conn \in [Conns -> Conn]
          /\ pool \in Seq(Conns)
          /\ \A r \in Requests :
               IF pc[r] \in {"idle", "connect"} THEN cur[r] = None ELSE cur[r] \in held[r]

Init == /\ store \in {"redis", "mysql"}
        /\ pc = [r \in Requests |-> "idle"]
        /\ ops = [r \in Requests |-> 0]
        /\ cur = [r \in Requests |-> None]
        /\ held = [r \in Requests |-> {}]
        /\ conn = [c \in Conns |-> Closed]
        /\ pool = <<>>

Opened == {c \in Conns : conn[c].open}
Free == {c \in Conns : ~conn[c].open /\ \A r \in Requests : c \notin held[r]}

\* The request calls the next operation: M.get, M.set, ..., M.select, ...
Begin(r) ==
  /\ pc[r] = "idle"
  /\ ops[r] < MaxOps
  /\ ops' = [ops EXCEPT ![r] = @ + 1]
  /\ pc' = [pc EXCEPT ![r] = "connect"]
  /\ UNCHANGED <<store, cur, held, conn, pool>>

\* The operation returns to the request, with a result or with nil, err.
Return(r) == pc' = [pc EXCEPT ![r] = "idle"] /\ cur' = [cur EXCEPT ![r] = None]

Own(r, c) == /\ cur' = [cur EXCEPT ![r] = c]
             /\ held' = [held EXCEPT ![r] = @ \cup {c}]

\* Mutant: a pooled connection is as good as a prepared one.
ConnectPooledReady(r) ==
  /\ pc[r] = "connect"
  /\ pool # <<>>
  /\ Own(r, Head(pool))
  /\ pool' = Tail(pool)
  /\ conn' = [conn EXCEPT ![Head(pool)].reused = TRUE]
  /\ pc' = [pc EXCEPT ![r] = "work"]
  /\ UNCHANGED <<store, ops>>

\* Mutant: the connection stays in the pool while it is used.
ConnectPooledShared(r) ==
  /\ pc[r] = "connect"
  /\ pool # <<>>
  /\ Own(r, Head(pool))
  /\ conn' = [conn EXCEPT ![Head(pool)].reused = TRUE]
  /\ pc' = [pc EXCEPT ![r] = IF store = "mysql" THEN "work" ELSE "init"]
  /\ UNCHANGED <<store, ops, pool>>

\* connect takes a connection from the pool.  get_redis goes on with SELECT,
\* get_db, seeing that it is reused, with the query.
ConnectPooled(r) ==
  /\ pc[r] = "connect"
  /\ pool # <<>>
  /\ Own(r, Head(pool))
  /\ pool' = Tail(pool)
  /\ conn' = [conn EXCEPT ![Head(pool)].reused = TRUE]
  /\ pc' = [pc EXCEPT ![r] = IF store = "mysql" THEN "work" ELSE "init"]
  /\ UNCHANGED <<store, ops>>

\* Whether connect may open a connection now or must queue.
CanOpen == store = "redis" \/ Cardinality(Opened) < PoolSize

\* connect opens a connection: it is prepared by SELECT or SET NAMES.
ConnectNew(r) ==
  /\ pc[r] = "connect"
  /\ pool = <<>>
  /\ CanOpen
  /\ \E c \in Free :
       /\ \A d \in Free : c <= d
       /\ Own(r, c)
       /\ conn' = [conn EXCEPT ![c] = Fresh]
  /\ pc' = [pc EXCEPT ![r] = "init"]
  /\ UNCHANGED <<store, ops, pool>>

\* connect is refused or times out, in the queue too.
ConnectFails(r) ==
  /\ pc[r] = "connect"
  /\ Return(r)
  /\ UNCHANGED <<store, ops, held, conn, pool>>

\* get_redis: SELECT succeeds.
Select(r) ==
  /\ store = "redis"
  /\ pc[r] = "init"
  /\ conn' = [conn EXCEPT ![cur[r]] = [@ EXCEPT !.db = Database, !.init = "ok"]]
  /\ pc' = [pc EXCEPT ![r] = "work"]
  /\ UNCHANGED <<store, ops, cur, held, pool>>

\* The client library closes the connection.
Close(r, c) == /\ conn' = [conn EXCEPT ![c] = Closed]
               /\ held' = [held EXCEPT ![r] = @ \ {c}]

\* get_redis: SELECT fails; nil is returned and the connection, unless the
\* failure closed it, is not released.
SelectFails(r) ==
  /\ store = "redis"
  /\ pc[r] = "init"
  /\ \/ conn' = [conn EXCEPT ![cur[r]].init = "failed"] /\ UNCHANGED held
     \/ Close(r, cur[r])
  /\ Return(r)
  /\ UNCHANGED <<store, ops, pool>>

\* get_db: SET NAMES on a new connection.  Its result is not looked at: it may
\* have been refused, or its reply may still be to come.
SetNames(r) ==
  /\ store = "mysql"
  /\ pc[r] = "init"
  /\ \/ conn' = [conn EXCEPT ![cur[r]].init = "ok"]
     \/ \E late \in BOOLEAN :
          conn' = [conn EXCEPT ![cur[r]] = [@ EXCEPT !.init = "failed", !.stuck = late]]
  /\ pc' = [pc EXCEPT ![r] = "work"]
  /\ UNCHANGED <<store, ops, cur, held, pool>>

\* The command is answered, with a result or an error.  M.command may run
\* any redis command, SELECT and SUBSCRIBE too.
Command(r) ==
  /\ pc[r] = "work"
  /\ \/ UNCHANGED conn
     \/ /\ store = "redis"
        /\ \/ \E d \in Databases : conn' = [conn EXCEPT ![cur[r]].db = d]
           \/ conn' = [conn EXCEPT ![cur[r]].stuck = TRUE]
  /\ pc' = [pc EXCEPT ![r] = "release"]
  /\ UNCHANGED <<store, ops, cur, held, pool>>

\* Mutant: an operation whose command failed returns at once.
CommandFailsReturns(r) ==
  /\ pc[r] = "work"
  /\ Return(r)
  /\ UNCHANGED <<store, ops, held, conn, pool>>

\* The socket fails, or the reply times out, which a mysql connection
\* survives.  The error is returned only after the release.
CommandFails(r) ==
  /\ pc[r] = "work"
  /\ \/ conn' = [conn EXCEPT ![cur[r]] = [Closed EXCEPT !.stuck = TRUE]]
     \/ store = "mysql" /\ conn' = [conn EXCEPT ![cur[r]].stuck = TRUE]
  /\ pc' = [pc EXCEPT ![r] = "release"]
  /\ UNCHANGED <<store, ops, cur, held, pool>>

\* build_where_clause or pairs(params.data) raises an error after get_db: the
\* pcall of router.route ends the request.
Raise(r) ==
  /\ store = "mysql"
  /\ pc[r] = "work"
  /\ conn' = [c \in Conns |-> IF c \in held[r] THEN Closed ELSE conn[c]]
  /\ held' = [held EXCEPT ![r] = {}]
  /\ ops' = [ops EXCEPT ![r] = 0]
  /\ Return(r)
  /\ UNCHANGED <<store, pool>>

\* set_keepalive puts the connection into the pool; when the pool is full the
\* one unused for the longest time is closed.
Release(r) ==
  /\ pc[r] = "release"
  /\ ~conn[cur[r]].stuck
  /\ held' = [held EXCEPT ![r] = @ \ {cur[r]}]
  /\ IF Len(pool) < PoolSize
     THEN pool' = <<cur[r]>> \o pool /\ UNCHANGED conn
     ELSE /\ pool' = <<cur[r]>> \o SubSeq(pool, 1, PoolSize - 1)
          /\ conn' = [conn EXCEPT ![pool[PoolSize]] = Closed]
  /\ Return(r)
  /\ UNCHANGED <<store, ops>>

\* set_keepalive is refused: logged (redis) or not even looked at (mysql).
ReleaseRefused(r) ==
  /\ pc[r] = "release"
  /\ conn[cur[r]].stuck
  /\ IF conn[cur[r]].open THEN UNCHANGED <<held, conn>> ELSE Close(r, cur[r])
  /\ Return(r)
  /\ UNCHANGED <<store, ops, pool>>

\* The request ends; nginx closes what still belongs to it.
EndRequest(r) ==
  /\ pc[r] = "idle"
  /\ ops[r] > 0
  /\ conn' = [c \in Conns |-> IF c \in held[r] THEN Closed ELSE conn[c]]
  /\ held' = [held EXCEPT ![r] = {}]
  /\ ops' = [ops EXCEPT ![r] = 0]
  /\ UNCHANGED <<store, pc, cur, pool>>

\* max_idle_timeout, or the server closes an idle connection.
IdleClosed ==
  \E i \in 1..Len(pool) :
    /\ conn' = [conn EXCEPT ![pool[i]] = Closed]
    /\ pool' = SubSeq(pool, 1, i - 1) \o SubSeq(pool, i + 1, Len(pool))
    /\ UNCHANGED <<store, pc, ops, cur, held>>

Step(r) == \/ ConnectPooled(r) \/ ConnectNew(r) \/ ConnectFails(r)
           \/ Select(r) \/ SelectFails(r) \/ SetNames(r)
           \/ Command(r) \/ CommandFails(r) \/ Raise(r)
           \/ Release(r) \/ ReleaseRefused(r) \/ EndRequest(r)

Next == IdleClosed \/ \E r \in Requests : Begin(r) \/ Step(r)

Spec == Init /\ [][Next]_vars

(***************************************************************************)
(* Properties.                                                             *)
(***************************************************************************)
Pooled == {pool[i] : i \in 1..Len(pool)}

\* Two requests never use one connection, none is used while it is pooled,
\* and every open one is somewhere: with one request, or once in the pool,
\* which keeps its size.
OneOwner ==
  /\ TypeOK
  /\ Len(pool) <= PoolSize
  /\ \A i, j \in 1..Len(pool) : pool[i] = pool[j] => i = j
  /\ \A r \in Requests : held[r] \cap Pooled = {}
  /\ \A r, s \in Requests : r # s => held[r] \cap held[s] = {}
  /\ Opened \subseteq Pooled \cup UNION {held[r] : r \in Requests}
  /\ Pooled \subseteq Opened

\* A command finds its connection prepared, whoever had it before: redis has
\* the configured database selected, whatever M.command selected in it, and
\* no mysql query runs where SET NAMES was never tried, reused or not.  (One
\* that was refused is not tried again: init "failed".)
Prepared ==
  \A r \in Requests : pc[r] = "work" =>
    IF store = "redis" THEN conn[cur[r]].db = Database ELSE conn[cur[r]].init # "none"

\* A request that is not inside an operation keeps connections only for the
\* reasons the error paths give: SELECT failed in get_redis, or set_keepalive
\* was refused.  Every other path has pooled or closed what it used.
KeptOnlyAfterFailure ==
  \A r \in Requests : pc[r] \in {"idle", "connect"} =>
    \A c \in held[r] : conn[c].stuck \/ (store = "redis" /\ conn[c].init = "failed")
=============================================================================
