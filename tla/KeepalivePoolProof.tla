------------------------- MODULE KeepalivePoolProof -------------------------
(***************************************************************************)
(* Proofs about KeepalivePool, for any number of requests and operations   *)
(* and any size of the pool.  OneOwner is not inductive: set_keepalive     *)
(* pools what the request has, which must then be open; Prepared needs to  *)
(* know what is in the pool.  So InUse says what holds of a connection at  *)
(* each point of an operation, and PooledReady what holds while it is idle.*)
(***************************************************************************)
EXTENDS KeepalivePool, SequenceTheorems, TLAPS

Typed ==
  /\ store \in {"redis", "mysql"}
  /\ pc \in [Requests -> {"idle", "connect", "init", "work", "release"}]
  /\ ops \in [Requests -> 0..MaxOps]
  /\ cur \in [Requests -> Conns \cup {None}]
  /\ held \in [Requests -> SUBSET Conns]
  /\ conn \in [Conns -> Conn]

\* The operation of a request is on a connection that belongs to it.
Placed == \A r \in Requests :
  IF pc[r] \in {"idle", "connect"} THEN cur[r] = None ELSE cur[r] \in held[r]

PoolOK ==
  /\ pool \in Seq(Conns) /\ Len(pool) <= PoolSize
  /\ \A i, j \in 1..Len(pool) : pool[i] = pool[j] => i = j

Owners ==
  /\ \A r \in Requests : held[r] \cap Pooled = {}
  /\ \A r, s \in Requests : r # s => held[r] \cap held[s] = {}
  /\ \A c \in Conns : conn[c].open => c \in Pooled \/ \E r \in Requests : c \in held[r]

\* The connection of an operation is open until the command fails, and
\* prepared once the operation has got to its command; what a request has
\* besides it, an error path has left there.
UseOK(r) ==
  /\ pc[r] \in {"init", "work"} => conn[cur[r]].open
  /\ pc[r] = "work" => IF store = "redis" THEN conn[cur[r]].db = Database
                                          ELSE conn[cur[r]].init # "none"
  /\ pc[r] = "release" => \/ conn[cur[r]].stuck
                          \/ /\ conn[cur[r]].open
                             /\ store = "mysql" => conn[cur[r]].init # "none"
  /\ \A c \in held[r] \ {cur[r]} :
       conn[c].stuck \/ (store = "redis" /\ conn[c].init = "failed")
InUse == \A r \in Requests : UseOK(r)

\* An idle connection is open, and a mysql one has been sent SET NAMES.
PooledReady ==
  \A c \in Pooled : conn[c].open /\ (store = "mysql" => conn[c].init # "none")

IInv == Typed /\ Placed /\ PoolOK /\ Owners /\ InUse /\ PooledReady

\* None is no connection.
LEMMA NoneNoConn == None \notin Conns /\ Conns \subseteq Nat /\ MaxConns \in Nat
BY PoolAssumption DEF None, Conns

\* What a closed and a fresh connection are.
LEMMA ClosedTyped ==
  /\ Closed \in Conn /\ ~Closed.open /\ ~Closed.stuck /\ Closed.init = "none"
  /\ Fresh \in Conn /\ Fresh.open
BY DEF Closed, Fresh, Conn, Databases

\* The pool holds connections.
LEMMA PooledConns == ASSUME pool \in Seq(Conns) PROVE Pooled \subseteq Conns
BY ElementOfSeq DEF Pooled

\* IInv holds in the initial state.
LEMMA InitInv == Init => IInv
<1> SUFFICES ASSUME Init PROVE IInv
  OBVIOUS
<1>1. Typed /\ Placed
  BY PoolAssumption, ClosedTyped DEF Init, Typed, Placed
<1>2. PoolOK /\ Pooled = {}
  BY PoolAssumption, EmptySeq DEF Init, PoolOK, Pooled
<1>3. Owners /\ InUse /\ PooledReady
  BY <1>2, ClosedTyped DEF Init, Owners, InUse, UseOK, PooledReady
<1>4. QED
  BY <1>1, <1>2, <1>3 DEF IInv

(***************************************************************************)
(* What the calls do to the pool.                                          *)
(***************************************************************************)
LEMMA PoolSame == ASSUME PoolOK, UNCHANGED pool PROVE PoolOK' /\ Pooled' = Pooled
BY DEF PoolOK, Pooled

\* connect takes the first connection.
LEMMA PoolTake ==
  ASSUME PoolOK, pool # <<>>, pool' = Tail(pool)
  PROVE  /\ PoolOK' /\ Head(pool) \in Pooled /\ Head(pool) \in Conns
         /\ Pooled' = Pooled \ {Head(pool)}
<1>1. /\ pool \in Seq(Conns) /\ pool' \in Seq(Conns) /\ Len(pool) \in Nat \ {0}
      /\ Len(pool') = Len(pool) - 1 /\ Head(pool) = pool[1] /\ Head(pool) \in Conns
      /\ \A i \in 1..Len(pool') : pool'[i] = pool[i + 1]
  BY HeadTailProperties, LenProperties, EmptySeq DEF PoolOK
<1>2. \A i \in 1..Len(pool') : i + 1 \in 1..Len(pool) /\ i \in Nat \ {0}
  BY <1>1
<1>3. PoolOK'
  <2>1. ASSUME NEW i \in 1..Len(pool'), NEW j \in 1..Len(pool'), pool'[i] = pool'[j]
        PROVE  i = j
    <3>1. i + 1 = j + 1
      BY <1>1, <1>2, <2>1 DEF PoolOK
    <3>2. QED
      BY <1>2, <3>1
  <2>2. Len(pool') <= PoolSize
    BY <1>1, PoolAssumption DEF PoolOK
  <2>3. QED
    BY <1>1, <2>1, <2>2 DEF PoolOK
<1>4. 1 \in 1..Len(pool) /\ Head(pool) \in Pooled
  BY <1>1 DEF Pooled
<1>5. Pooled' \subseteq Pooled \ {Head(pool)}
  <2> SUFFICES ASSUME NEW i \in 1..Len(pool') PROVE pool'[i] \in Pooled \ {Head(pool)}
    BY DEF Pooled
  <2>1. pool'[i] = pool[i + 1] /\ i + 1 \in 1..Len(pool) /\ i + 1 # 1
    BY <1>1, <1>2
  <2>2. pool[i + 1] # pool[1]
    BY <1>4, <2>1 DEF PoolOK
  <2>3. QED
    BY <1>1, <2>1, <2>2 DEF Pooled
<1>6. Pooled \ {Head(pool)} \subseteq Pooled'
  <2> SUFFICES ASSUME NEW i \in 1..Len(pool), pool[i] # pool[1] PROVE pool[i] \in Pooled'
    BY <1>1 DEF Pooled
  <2>1. i - 1 \in 1..Len(pool') /\ (i - 1) + 1 = i
    BY <1>1
  <2>2. pool'[i - 1] = pool[i]
    BY <1>1, <2>1
  <2>3. QED
    BY <2>1, <2>2 DEF Pooled
<1>7. QED
  BY <1>1, <1>3, <1>4, <1>5, <1>6

\* set_keepalive puts one in front of the first n.
LEMMA PoolPush ==
  ASSUME PoolOK, NEW c \in Conns \ Pooled, NEW n \in 0..Len(pool), n < PoolSize,
         pool' = <<c>> \o SubSeq(pool, 1, n)
  PROVE  PoolOK' /\ Pooled' = {c} \cup {pool[i] : i \in 1..n}
<1> DEFINE s == SubSeq(pool, 1, n)
<1>1. /\ pool \in Seq(Conns) /\ Len(pool) \in Nat /\ n \in Nat
      /\ \A i \in 1..n : i \in 1..Len(pool) /\ pool[i] \in Conns
  BY LenProperties, ElementOfSeq DEF PoolOK
<1>2. s \in Seq(Conns) /\ Len(s) = n /\ \A i \in 1..n : s[i] = pool[i]
  <2>1. \A i \in 1..n : 1 + i - 1 = i
    BY <1>1
  <2>2. QED
    BY <1>1, <2>1, SubSeqProperties
<1>3. <<c>> \in Seq(Conns) /\ Len(<<c>>) = 1 /\ <<c>>[1] = c
  OBVIOUS
<1>4. pool' \in Seq(Conns) /\ Len(pool') = n + 1
  BY <1>1, <1>2, <1>3, ConcatProperties
<1>5. pool'[1] = c
  BY <1>1, <1>2, <1>3, ConcatProperties
<1>6. ASSUME NEW i \in 2..n + 1 PROVE pool'[i] = pool[i - 1] /\ i - 1 \in 1..n
  <2>1. i \in 1..1 + n /\ ~(i <= 1) /\ i - 1 \in 1..n
    BY <1>1
  <2>2. (<<c>> \o s)[i] = s[i - 1]
    BY <1>2, <1>3, <2>1, ConcatProperties
  <2>3. QED
    BY <1>2, <2>1, <2>2
<1>7. \A i \in 1..n + 1 : i = 1 \/ i \in 2..n + 1
  BY <1>1
<1>8. Pooled' = {c} \cup {pool[i] : i \in 1..n}
  <2>1. Pooled' \subseteq {c} \cup {pool[i] : i \in 1..n}
    BY <1>4, <1>5, <1>6, <1>7 DEF Pooled
  <2>2. c \in Pooled'
    BY <1>1, <1>4, <1>5 DEF Pooled
  <2>3. ASSUME NEW i \in 1..n PROVE pool[i] \in Pooled'
    <3>1. i + 1 \in 2..n + 1 /\ (i + 1) - 1 = i /\ i + 1 \in 1..n + 1
      BY <1>1
    <3>2. pool'[i + 1] = pool[i]
      BY <1>6, <3>1
    <3>3. QED
      BY <1>4, <3>1, <3>2 DEF Pooled
  <2>4. QED
    BY <2>1, <2>2, <2>3
<1>9. ASSUME NEW i \in 1..n + 1, NEW j \in 1..n + 1, pool'[i] = pool'[j] PROVE i = j
  <2>1. CASE i # 1 /\ j # 1
    <3>1. i - 1 = j - 1
      BY <1>1, <1>6, <1>7, <1>9, <2>1 DEF PoolOK
    <3>2. QED
      BY <1>1, <3>1
  <2>2. \A k \in 2..n + 1 : pool'[k] # c
    BY <1>1, <1>6 DEF Pooled
  <2>3. QED
    BY <1>5, <1>7, <1>9, <2>1, <2>2
<1>10. QED
  BY SMTT(30), <1>1, <1>4, <1>8, <1>9, PoolAssumption DEF PoolOK

\* An idle connection is taken out from anywhere.
LEMMA PoolRemove ==
  ASSUME PoolOK, NEW i \in 1..Len(pool),
         pool' = SubSeq(pool, 1, i - 1) \o SubSeq(pool, i + 1, Len(pool))
  PROVE  PoolOK' /\ Pooled' = Pooled \ {pool[i]} /\ pool[i] \in Pooled
<1> DEFINE n == Len(pool)
           s == SubSeq(pool, 1, i - 1)
           t == SubSeq(pool, i + 1, n)
<1>1. pool \in Seq(Conns) /\ n \in Nat /\ i \in 1..n /\ \A k \in 1..n : pool[k] \in Conns
  BY LenProperties, ElementOfSeq DEF PoolOK
<1> HIDE DEF n
<1>2. s \in Seq(Conns) /\ Len(s) = i - 1 /\ \A k \in 1..i - 1 : s[k] = pool[k]
  <2>1. (\A k \in 1..i - 1 : pool[k] \in Conns /\ 1 + k - 1 = k) /\ i - 1 \in Int
    BY <1>1
  <2>2. QED
    BY <1>1, <2>1, SubSeqProperties
<1>3. t \in Seq(Conns) /\ Len(t) = n - i /\ \A k \in 1..n - i : t[k] = pool[i + k]
  <2>1. /\ \A k \in i + 1..n : pool[k] \in Conns
        /\ i + 1 \in Int /\ n - (i + 1) + 1 = n - i /\ (i + 1 > n => n - i = 0)
        /\ \A k \in 1..n - i : (i + 1) + k - 1 = i + k
    BY <1>1
  <2>2. QED
    BY <1>1, <2>1, SubSeqProperties
<1>4. pool' = s \o t
  BY DEF n
<1> HIDE DEF s, t
<1>5. pool' \in Seq(Conns) /\ Len(pool') = n - 1
  <2>1. s \o t \in Seq(Conns) /\ Len(s \o t) = Len(s) + Len(t)
    BY <1>2, <1>3, ConcatProperties
  <2>2. (i - 1) + (n - i) = n - 1
    BY <1>1
  <2>3. QED
    BY <1>2, <1>3, <1>4, <2>1, <2>2
<1>6. ASSUME NEW k \in 1..n - 1 PROVE pool'[k] = IF k < i THEN pool[k] ELSE pool[k + 1]
  <2>1. k \in 1..Len(s) + Len(t)
    BY <1>1, <1>2, <1>3
  <2>2. pool'[k] = IF k <= Len(s) THEN s[k] ELSE t[k - Len(s)]
    <3>1. \A m \in 1..Len(s) + Len(t) :
            (s \o t)[m] = IF m <= Len(s) THEN s[m] ELSE t[m - Len(s)]
      BY <1>2, <1>3, ConcatProperties
    <3>2. QED
      BY <1>4, <2>1, <3>1
  <2>3. CASE k < i
    <3>1. k <= i - 1 /\ k \in 1..i - 1
      BY <1>1, <2>3
    <3>2. QED
      BY <1>2, <2>2, <2>3, <3>1
  <2>4. CASE ~(k < i)
    <3>1. k - (i - 1) \in 1..n - i /\ i + (k - (i - 1)) = k + 1 /\ ~(k <= i - 1)
      BY <1>1, <2>4
    <3>2. t[k - (i - 1)] = pool[k + 1]
      BY <1>3, <3>1
    <3>3. QED
      BY <1>2, <2>2, <2>4, <3>1, <3>2
  <2>5. QED
    BY <2>3, <2>4
<1>7. PoolOK'
  <2>1. ASSUME NEW j \in 1..n - 1, NEW k \in 1..n - 1, pool'[j] = pool'[k] PROVE j = k
    <3> DEFINE up(m) == IF m < i THEN m ELSE m + 1
    <3>1. up(j) \in 1..n /\ up(k) \in 1..n
      BY <1>1
    <3>2. pool'[j] = pool[up(j)] /\ pool'[k] = pool[up(k)]
      BY <1>6
    <3>3. up(j) = up(k)
      <4> HIDE DEF up
      <4>1. QED
        BY <2>1, <3>1, <3>2 DEF PoolOK, n
    <3>4. QED
      BY <1>1, <3>3
  <2>2. n - 1 <= PoolSize
    BY <1>1, PoolAssumption DEF PoolOK, n
  <2>3. QED
    BY <1>5, <2>1, <2>2 DEF PoolOK
<1>8. pool[i] \in Pooled
  BY <1>1 DEF Pooled, n
<1>9. Pooled' \subseteq Pooled \ {pool[i]}
  <2> SUFFICES ASSUME NEW k \in 1..n - 1 PROVE pool'[k] \in Pooled \ {pool[i]}
    BY <1>5 DEF Pooled
  <2>1. CASE k < i
    <3>1. k \in 1..n /\ k # i
      BY <1>1, <2>1
    <3>2. pool'[k] = pool[k]
      BY <1>6, <2>1
    <3>3. QED
      BY <1>1, <3>1, <3>2 DEF Pooled, PoolOK, n
  <2>2. CASE ~(k < i)
    <3>1. k + 1 \in 1..n /\ k + 1 # i
      BY <1>1, <2>2
    <3>2. pool'[k] = pool[k + 1]
      BY <1>6, <2>2
    <3>3. QED
      BY <1>1, <3>1, <3>2 DEF Pooled, PoolOK, n
  <2>3. QED
    BY <2>1, <2>2
<1>10. Pooled \ {pool[i]} \subseteq Pooled'
  <2> SUFFICES ASSUME NEW k \in 1..n, pool[k] # pool[i] PROVE pool[k] \in Pooled'
    BY DEF Pooled, n
  <2>1. CASE k < i
    <3>1. k \in 1..n - 1
      BY <1>1, <2>1
    <3>2. pool'[k] = pool[k]
      BY <1>6, <2>1, <3>1
    <3>3. QED
      BY <1>5, <3>1, <3>2 DEF Pooled
  <2>2. CASE k > i
    <3>1. k - 1 \in 1..n - 1 /\ ~(k - 1 < i) /\ (k - 1) + 1 = k
      BY <1>1, <2>2
    <3>2. pool'[k - 1] = pool[k]
      BY <1>6, <3>1
    <3>3. QED
      BY <1>5, <3>1, <3>2 DEF Pooled
  <2>3. QED
    BY <1>1, <2>1, <2>2
<1>11. QED
  BY <1>7, <1>8, <1>9, <1>10

(***************************************************************************)
(* What a request does leaves the others alone.                            *)
(***************************************************************************)
LEMMA CurHeld ==
  ASSUME Typed, Placed, NEW r \in Requests, pc[r] \notin {"idle", "connect"}
  PROVE  cur[r] \in held[r] /\ cur[r] \in Conns
BY DEF Typed, Placed

\* A request whose own state and connections a step leaves alone is not
\* disturbed by it.
LEMMA OtherUse ==
  ASSUME Typed, Placed, NEW s \in Requests, UseOK(s),
         pc'[s] = pc[s], cur'[s] = cur[s], held'[s] = held[s], store' = store,
         \A c \in held[s] : conn'[c] = conn[c]
  PROVE  UseOK(s)'
<1>1. pc[s] \notin {"idle", "connect"} => conn'[cur'[s]] = conn[cur[s]]
  BY CurHeld
<1>2. QED
  BY <1>1 DEF UseOK

\* A step of an operation that has its connection, on this connection alone.
LEMMA InPlace ==
  ASSUME IInv, NEW r \in Requests, UNCHANGED <<store, held, pool>>,
         ops' \in [Requests -> 0..MaxOps],
         pc' \in [Requests -> {"idle", "connect", "init", "work", "release"}],
         cur' \in [Requests -> Conns \cup {None}],
         conn' \in [Conns -> Conn],
         \A s \in Requests \ {r} : pc'[s] = pc[s] /\ cur'[s] = cur[s],
         IF pc'[r] \in {"idle", "connect"} THEN cur'[r] = None ELSE cur'[r] \in held[r],
         \A c \in Conns : conn'[c] = conn[c] \/ (c \in held[r] /\ c = cur[r]),
         UseOK(r)'
  PROVE  IInv'
<1>1. PoolOK' /\ Pooled' = Pooled
  BY PoolSame DEF IInv
<1>2. Typed' /\ Placed'
  BY DEF IInv, Typed, Placed
<1>3. Owners'
  BY <1>1 DEF IInv, Owners, Typed
<1>4. PooledReady'
  <2>1. \A c \in Pooled : conn'[c] = conn[c]
    BY PooledConns DEF IInv, Owners, PoolOK
  <2>2. QED
    BY <1>1, <2>1 DEF IInv, PooledReady
<1>5. ASSUME NEW s \in Requests PROVE UseOK(s)'
  <2>1. CASE s # r
    <3>1. \A c \in held[s] : c \in Conns /\ c \notin held[r]
      BY <2>1 DEF IInv, Owners, Typed
    <3>2. \A c \in held[s] : conn'[c] = conn[c]
      BY <3>1
    <3>3. QED
      BY <2>1, <3>2, OtherUse DEF IInv, InUse
  <2>2. QED
    BY <2>1
<1>6. QED
  BY <1>1, <1>2, <1>3, <1>4, <1>5 DEF IInv, InUse

\* A step that closes connections D of a request and ends its operation.
LEMMA Dropping ==
  ASSUME IInv, NEW r \in Requests, NEW D \in SUBSET held[r],
         UNCHANGED <<store, pool>>, ops' \in [Requests -> 0..MaxOps],
         pc' = [pc EXCEPT ![r] = "idle"], cur' = [cur EXCEPT ![r] = None],
         held' = [held EXCEPT ![r] = held[r] \ D],
         conn' = [c \in Conns |-> IF c \in D THEN Closed ELSE conn[c]],
         pc[r] \notin {"idle", "connect"} => cur[r] \in D
  PROVE  IInv'
<1>1. PoolOK' /\ Pooled' = Pooled
  BY PoolSame DEF IInv
<1>2. /\ \A s \in Requests \ {r} : pc'[s] = pc[s] /\ cur'[s] = cur[s] /\ held'[s] = held[s]
      /\ pc'[r] = "idle" /\ cur'[r] = None /\ held'[r] = held[r] \ D
  BY DEF IInv, Typed
<1>3. /\ \A c \in Conns : conn'[c] = IF c \in D THEN Closed ELSE conn[c]
      /\ conn' \in [Conns -> Conn]
  BY ClosedTyped DEF IInv, Typed
<1>4. Typed'
  <2>1. /\ pc' \in [Requests -> {"idle", "connect", "init", "work", "release"}]
        /\ cur' \in [Requests -> Conns \cup {None}]
        /\ held' \in [Requests -> SUBSET Conns]
    BY DEF IInv, Typed
  <2>2. QED
    BY <1>3, <2>1 DEF IInv, Typed
<1>5. Placed'
  BY <1>2 DEF IInv, Placed
<1>6. D \cap Pooled = {} /\ \A s \in Requests \ {r} : held[s] \cap D = {}
  BY DEF IInv, Owners
<1>7. Owners'
  <2>1. \A s \in Requests : held'[s] \subseteq held[s]
    BY <1>2
  <2>2. \A s \in Requests : held'[s] \cap Pooled' = {}
    BY <1>1, <2>1 DEF IInv, Owners
  <2>3. \A s, t \in Requests : s # t => held'[s] \cap held'[t] = {}
    BY <2>1 DEF IInv, Owners
  <2>4. ASSUME NEW c \in Conns, conn'[c].open
        PROVE  c \in Pooled' \/ \E s \in Requests : c \in held'[s]
    <3>1. c \notin D /\ conn[c].open
      BY <1>3, <2>4, ClosedTyped
    <3>2. c \in Pooled \/ \E s \in Requests : c \in held[s]
      BY <3>1 DEF IInv, Owners
    <3>3. QED
      BY <1>1, <1>2, <3>1, <3>2
  <2>5. QED
    BY <2>2, <2>3, <2>4 DEF Owners
<1>8. PooledReady'
  <2>1. \A c \in Pooled : conn'[c] = conn[c]
    BY <1>3, <1>6, PooledConns DEF IInv, PoolOK
  <2>2. QED
    BY <1>1, <2>1 DEF IInv, PooledReady
<1>9. ASSUME NEW s \in Requests PROVE UseOK(s)'
  <2>1. CASE s # r
    <3>1. \A c \in held[s] : c \in Conns /\ c \notin D
      BY <1>6, <2>1 DEF IInv, Typed
    <3>2. \A c \in held[s] : conn'[c] = conn[c]
      BY <1>3, <3>1
    <3>3. QED
      BY <1>2, <2>1, <3>2, OtherUse DEF IInv, InUse
  <2>2. CASE s = r
    <3>1. \A c \in held'[r] : c \in held[r] \ {cur[r]} /\ c \in Conns /\ conn'[c] = conn[c]
      BY <1>2, <1>3, NoneNoConn DEF IInv, Placed, Typed
    <3>2. \A c \in held'[r] : conn'[c].stuck \/ (store' = "redis" /\ conn'[c].init = "failed")
      <4>1. UseOK(r)
        BY DEF IInv, InUse
      <4>2. \A c \in held[r] \ {cur[r]} :
              conn[c].stuck \/ (store = "redis" /\ conn[c].init = "failed")
        BY <4>1 DEF UseOK
      <4>3. QED
        BY <3>1, <4>2
    <3>3. QED
      BY <1>2, <2>2, <3>2 DEF UseOK
  <2>3. QED
    BY <2>1, <2>2
<1>10. QED
  BY <1>1, <1>4, <1>5, <1>7, <1>8, <1>9 DEF IInv, InUse

(***************************************************************************)
(* The steps.                                                              *)
(***************************************************************************)
LEMMA BeginStep == ASSUME IInv, NEW r \in Requests, Begin(r) \/ ConnectFails(r) PROVE IInv'
<1>1. /\ UNCHANGED <<store, held, pool, conn>>
      /\ pc[r] \in {"idle", "connect"} /\ cur[r] = None /\ cur'[r] = None
      /\ pc' = [pc EXCEPT ![r] = "connect"] \/ pc' = [pc EXCEPT ![r] = "idle"]
      /\ cur' \in [Requests -> Conns \cup {None}]
      /\ \A s \in Requests \ {r} : cur'[s] = cur[s]
  BY DEF Begin, ConnectFails, Return, IInv, Typed, Placed
<1>2. ops' \in [Requests -> 0..MaxOps]
  BY PoolAssumption DEF Begin, ConnectFails, IInv, Typed
<1>3. pc' \in [Requests -> {"idle", "connect", "init", "work", "release"}]
  BY <1>1 DEF IInv, Typed
<1>4. pc'[r] \in {"idle", "connect"} /\ \A s \in Requests \ {r} : pc'[s] = pc[s]
  BY <1>1 DEF IInv, Typed
<1>5. UseOK(r)'
  <2>1. UseOK(r)
    BY DEF IInv, InUse
  <2>2. QED
    BY <1>1, <1>4, <2>1 DEF UseOK
<1>6. conn' \in [Conns -> Conn] /\ \A c \in Conns : conn'[c] = conn[c]
  BY <1>1 DEF IInv, Typed
<1>7. QED
  BY <1>1, <1>2, <1>3, <1>4, <1>5, <1>6, InPlace

\* SELECT and SET NAMES prepare the connection; a command uses it.
LEMMA WorkStep ==
  ASSUME IInv, NEW r \in Requests, Select(r) \/ SetNames(r) \/ Command(r) \/ CommandFails(r)
  PROVE  IInv'
<1> DEFINE c == cur[r]
<1>1. /\ UNCHANGED <<store, held, pool, cur, ops>>
      /\ pc[r] \in {"init", "work"}
      /\ pc' = [pc EXCEPT ![r] = IF pc[r] = "init" THEN "work" ELSE "release"]
  BY DEF Select, SetNames, Command, CommandFails
<1>2. c \in held[r] /\ c \in Conns /\ conn \in [Conns -> Conn] /\ conn[c] \in Conn
  BY <1>1, CurHeld DEF IInv, Typed
<1>3. /\ conn[c].open
      /\ pc[r] = "work" /\ store = "mysql" => conn[c].init # "none"
  BY <1>1 DEF IInv, InUse, UseOK
<1>4. /\ conn' \in [Conns -> Conn]
      /\ \A d \in Conns \ {c} : conn'[d] = conn[d]
      /\ pc[r] = "init" => /\ conn'[c].open
                           /\ IF store = "redis" THEN conn'[c].db = Database
                                                 ELSE conn'[c].init # "none"
      /\ pc[r] = "work" => \/ conn'[c].stuck
                           \/ /\ conn'[c].open
                              /\ store = "mysql" => conn'[c].init # "none"
  <2>1. CASE Select(r)
    BY <1>2, <1>3, <2>1 DEF Select, Conn, Databases, Database
  <2>2. CASE SetNames(r)
    <3>1. PICK i \in {"ok", "failed"}, late \in BOOLEAN :
            conn' = [conn EXCEPT ![c] = [conn[c] EXCEPT !.init = i, !.stuck = late]]
      <4>1. CASE conn' = [conn EXCEPT ![c].init = "ok"]
        <5>1. conn' = [conn EXCEPT ![c] = [conn[c] EXCEPT !.init = "ok",
                                                          !.stuck = conn[c].stuck]]
          BY <1>2, <4>1 DEF Conn
        <5>2. conn[c].stuck \in BOOLEAN
          BY <1>2 DEF Conn
        <5>3. QED
          BY <5>1, <5>2
      <4>2. QED
        BY <2>2, <4>1 DEF SetNames
    <3>2. [conn[c] EXCEPT !.init = i, !.stuck = late] \in Conn
      BY <1>2 DEF Conn
    <3>3. /\ [conn[c] EXCEPT !.init = i, !.stuck = late].open = conn[c].open
          /\ [conn[c] EXCEPT !.init = i, !.stuck = late].init # "none"
      BY <1>2 DEF Conn
    <3>4. QED
      BY <1>2, <1>3, <2>2, <3>1, <3>2, <3>3 DEF SetNames
  <2>3. CASE Command(r)
    <3>1. CASE UNCHANGED conn
      BY <1>2, <1>3, <2>3, <3>1 DEF Command, IInv, Typed
    <3>2. ASSUME NEW d \in Databases, conn' = [conn EXCEPT ![c].db = d], store = "redis"
          PROVE  conn' \in [Conns -> Conn] /\ conn'[c].open
                 /\ \A e \in Conns \ {c} : conn'[e] = conn[e]
      BY <1>2, <1>3, <3>2 DEF Conn
    <3>3. ASSUME conn' = [conn EXCEPT ![c].stuck = TRUE]
          PROVE  conn' \in [Conns -> Conn] /\ conn'[c].stuck
                 /\ \A e \in Conns \ {c} : conn'[e] = conn[e]
      BY <1>2, <3>3 DEF Conn
    <3>4. QED
      BY <2>3, <3>1, <3>2, <3>3 DEF Command, IInv, Typed
  <2>4. CASE CommandFails(r)
    <3>1. [Closed EXCEPT !.stuck = TRUE] \in Conn /\ [Closed EXCEPT !.stuck = TRUE].stuck
      BY DEF Closed, Conn, Databases
    <3>2. [conn[c] EXCEPT !.stuck = TRUE] \in Conn /\ [conn[c] EXCEPT !.stuck = TRUE].stuck
      BY <1>2 DEF Conn
    <3>3. PICK new \in Conn : new.stuck /\ conn' = [conn EXCEPT ![c] = new]
      BY <2>4, <3>1, <3>2 DEF CommandFails
    <3>4. QED
      BY <1>2, <2>4, <3>3 DEF CommandFails
  <2>5. QED
    BY <2>1, <2>2, <2>3, <2>4
<1>5. /\ pc'[r] = IF pc[r] = "init" THEN "work" ELSE "release"
      /\ pc' \in [Requests -> {"idle", "connect", "init", "work", "release"}]
      /\ \A s \in Requests \ {r} : pc'[s] = pc[s]
  BY <1>1 DEF IInv, Typed
<1>6. UseOK(r)'
  <2>1. \A d \in held[r] \ {c} :
          conn[d].stuck \/ (store = "redis" /\ conn[d].init = "failed")
    BY DEF IInv, InUse, UseOK
  <2>2. \A d \in held[r] \ {c} : conn'[d] = conn[d]
    BY <1>4 DEF IInv, Typed
  <2>3. QED
    BY <1>1, <1>4, <1>5, <2>1, <2>2 DEF UseOK
<1>7. /\ ops' \in [Requests -> 0..MaxOps] /\ cur' \in [Requests -> Conns \cup {None}]
      /\ \A s \in Requests : cur'[s] = cur[s]
  BY <1>1 DEF IInv, Typed
<1>8. QED
  BY <1>1, <1>2, <1>4, <1>5, <1>6, <1>7, InPlace

\* The error paths that leave the connection with the request.
LEMMA LeaveStep ==
  ASSUME IInv, NEW r \in Requests, Return(r), UNCHANGED <<store, ops, held, pool>>,
         pc[r] \notin {"idle", "connect"},
         \/ store = "redis" /\ conn' = [conn EXCEPT ![cur[r]].init = "failed"]
         \/ conn[cur[r]].stuck /\ UNCHANGED conn
  PROVE  IInv'
<1> DEFINE c == cur[r]
<1>1. c \in held[r] /\ c \in Conns /\ conn \in [Conns -> Conn] /\ conn[c] \in Conn
  BY CurHeld DEF IInv, Typed
<1>2. /\ conn' \in [Conns -> Conn] /\ \A d \in Conns \ {c} : conn'[d] = conn[d]
      /\ conn'[c].stuck \/ (store = "redis" /\ conn'[c].init = "failed")
  BY <1>1 DEF Conn
<1>3. /\ pc' \in [Requests -> {"idle", "connect", "init", "work", "release"}]
      /\ cur' \in [Requests -> Conns \cup {None}] /\ ops' \in [Requests -> 0..MaxOps]
      /\ pc'[r] = "idle" /\ cur'[r] = None
      /\ \A s \in Requests \ {r} : pc'[s] = pc[s] /\ cur'[s] = cur[s]
  BY DEF Return, IInv, Typed
<1>4. UseOK(r)'
  <2>1. \A d \in held[r] \ {c} :
          conn[d].stuck \/ (store = "redis" /\ conn[d].init = "failed")
    BY DEF IInv, InUse, UseOK
  <2>2. \A d \in held[r] : conn'[d].stuck \/ (store = "redis" /\ conn'[d].init = "failed")
    BY <1>2, <2>1 DEF IInv, Typed
  <2>3. QED
    BY <1>3, <2>2 DEF UseOK
<1>5. QED
  BY <1>1, <1>2, <1>3, <1>4, InPlace

\* The paths on which the client library or nginx closes it.
LEMMA CloseStep ==
  ASSUME IInv, NEW r \in Requests, pc[r] \notin {"idle", "connect"}, Close(r, cur[r]),
         Return(r), UNCHANGED <<store, ops, pool>>
  PROVE  IInv'
<1>1. cur[r] \in held[r] /\ cur[r] \in Conns /\ conn \in [Conns -> Conn]
  BY CurHeld DEF IInv, Typed
<1>2. /\ conn' = [c \in Conns |-> IF c \in {cur[r]} THEN Closed ELSE conn[c]]
      /\ held' = [held EXCEPT ![r] = held[r] \ {cur[r]}]
      /\ {cur[r]} \in SUBSET held[r] /\ ops' \in [Requests -> 0..MaxOps]
  BY <1>1 DEF Close, IInv, Typed
<1>3. QED
  BY <1>1, <1>2, Dropping DEF Return

\* The end of a request, by itself or through an error, preserves IInv.
LEMMA EndStep == ASSUME IInv, NEW r \in Requests, Raise(r) \/ EndRequest(r) PROVE IInv'
<1>1. /\ conn' = [c \in Conns |-> IF c \in held[r] THEN Closed ELSE conn[c]]
      /\ held' = [held EXCEPT ![r] = held[r] \ held[r]]
      /\ UNCHANGED <<store, pool>> /\ ops' \in [Requests -> 0..MaxOps]
  BY PoolAssumption DEF Raise, EndRequest, IInv, Typed
<1>2. pc' = [pc EXCEPT ![r] = "idle"] /\ cur' = [cur EXCEPT ![r] = None]
  <2>1. CASE Raise(r)
    BY <2>1 DEF Raise, Return
  <2>2. CASE EndRequest(r)
    BY <2>2 DEF EndRequest, IInv, Typed, Placed
  <2>3. QED
    BY <2>1, <2>2
<1>3. pc[r] \notin {"idle", "connect"} => cur[r] \in held[r]
  BY CurHeld DEF IInv
<1>4. QED
  BY <1>1, <1>2, <1>3, Dropping

\* connect hands out connection c, new or from the pool.
LEMMA ConnectStep ==
  ASSUME IInv, NEW r \in Requests, NEW c \in Conns, NEW new \in Conn,
         NEW to \in {"init", "work"},
         pc[r] = "connect", Own(r, c), UNCHANGED <<store, ops>>,
         pc' = [pc EXCEPT ![r] = to], conn' = [conn EXCEPT ![c] = new],
         PoolOK', Pooled' = Pooled \ {c},
         \A s \in Requests : c \notin held[s],
         new.open, to = "work" => store = "mysql" /\ new.init # "none"
  PROVE  IInv'
<1>1. /\ \A s \in Requests \ {r} : pc'[s] = pc[s] /\ cur'[s] = cur[s] /\ held'[s] = held[s]
      /\ pc'[r] = to /\ cur'[r] = c /\ held'[r] = held[r] \cup {c}
      /\ cur[r] = None
  BY DEF Own, IInv, Typed, Placed
<1>2. conn'[c] = new /\ \A d \in Conns \ {c} : conn'[d] = conn[d]
  BY DEF IInv, Typed
<1>3. Typed'
  <2>1. /\ pc' \in [Requests -> {"idle", "connect", "init", "work", "release"}]
        /\ cur' \in [Requests -> Conns \cup {None}]
        /\ held' \in [Requests -> SUBSET Conns]
        /\ conn' \in [Conns -> Conn]
    BY DEF Own, IInv, Typed
  <2>2. QED
    BY <2>1 DEF IInv, Typed
<1>4. Placed'
  BY <1>1 DEF IInv, Placed
<1>5. Owners'
  <2>1. \A s \in Requests : held'[s] \cap Pooled' = {}
    BY <1>1 DEF IInv, Owners
  <2>2. \A s, t \in Requests : s # t => held'[s] \cap held'[t] = {}
    BY <1>1 DEF IInv, Owners
  <2>3. ASSUME NEW d \in Conns, conn'[d].open
        PROVE  d \in Pooled' \/ \E s \in Requests : d \in held'[s]
    BY <1>1, <1>2, <2>3 DEF IInv, Owners
  <2>4. QED
    BY <2>1, <2>2, <2>3 DEF Owners
<1>6. PooledReady'
  <2>1. \A d \in Pooled' : d \in Pooled /\ conn'[d] = conn[d]
    BY <1>2, PooledConns DEF IInv, PoolOK
  <2>2. QED
    BY <2>1 DEF IInv, PooledReady
<1>7. ASSUME NEW s \in Requests PROVE UseOK(s)'
  <2>1. CASE s # r
    <3>1. \A d \in held[s] : d \in Conns \ {c}
      BY DEF IInv, Typed
    <3>2. \A d \in held[s] : conn'[d] = conn[d]
      BY <1>2, <3>1
    <3>3. QED
      BY <1>1, <2>1, <3>2, OtherUse DEF IInv, InUse
  <2>2. CASE s = r
    <3>1. \A d \in held[r] \ {cur[r]} :
            conn[d].stuck \/ (store = "redis" /\ conn[d].init = "failed")
      BY DEF IInv, InUse, UseOK
    <3>2. \A d \in held'[r] \ {c} :
            d \in held[r] \ {cur[r]} /\ conn'[d] = conn[d]
      BY <1>1, <1>2, NoneNoConn DEF IInv, Typed
    <3>3. \A d \in held'[r] \ {c} :
            conn'[d].stuck \/ (store' = "redis" /\ conn'[d].init = "failed")
      BY <3>1, <3>2
    <3>4. store' = "redis" => to # "work"
      OBVIOUS
    <3>5. QED
      BY <1>1, <1>2, <2>2, <3>3, <3>4 DEF UseOK
  <2>3. QED
    BY <2>1, <2>2
<1>8. QED
  BY <1>3, <1>4, <1>5, <1>6, <1>7 DEF IInv, InUse

\* Taking a connection from the pool preserves IInv.
LEMMA PooledStep == ASSUME IInv, NEW r \in Requests, ConnectPooled(r) PROVE IInv'
<1> DEFINE c == Head(pool)
           new == [conn[c] EXCEPT !.reused = TRUE]
           to == IF store = "mysql" THEN "work" ELSE "init"
<1>1. /\ pool # <<>> /\ pool' = Tail(pool) /\ Own(r, c) /\ pc[r] = "connect"
      /\ UNCHANGED <<store, ops>> /\ pc' = [pc EXCEPT ![r] = to]
      /\ conn' = [conn EXCEPT ![c] = new]
  BY DEF ConnectPooled
<1>2. PoolOK' /\ c \in Pooled /\ c \in Conns /\ Pooled' = Pooled \ {c}
  BY <1>1, PoolTake DEF IInv
<1>3. conn[c] \in Conn /\ conn[c].open /\ (store = "mysql" => conn[c].init # "none")
  BY <1>2 DEF IInv, Typed, PooledReady
<1>4. new \in Conn /\ new.open /\ (store = "mysql" => new.init # "none")
  BY <1>3 DEF Conn
<1>5. \A s \in Requests : c \notin held[s]
  BY <1>2 DEF IInv, Owners
<1>6. to \in {"init", "work"} /\ (to = "work" => store = "mysql")
  OBVIOUS
<1> HIDE DEF c, new, to
<1>7. QED
  BY <1>1, <1>2, <1>4, <1>5, <1>6, ConnectStep

\* Opening a new connection preserves IInv.
LEMMA NewStep == ASSUME IInv, NEW r \in Requests, ConnectNew(r) PROVE IInv'
<1>1. PICK c \in Free : Own(r, c) /\ conn' = [conn EXCEPT ![c] = Fresh]
  BY DEF ConnectNew
<1>2. c \in Conns /\ ~conn[c].open /\ \A s \in Requests : c \notin held[s]
  BY DEF Free
<1>3. PoolOK' /\ Pooled' = Pooled
  BY PoolSame DEF IInv, ConnectNew
<1>4. c \notin Pooled
  BY <1>2 DEF IInv, PooledReady
<1>5. /\ pc[r] = "connect" /\ pc' = [pc EXCEPT ![r] = "init"] /\ UNCHANGED <<store, ops>>
      /\ Pooled' = Pooled \ {c}
  BY <1>3, <1>4 DEF ConnectNew
<1>6. QED
  BY <1>1, <1>2, <1>3, <1>5, ClosedTyped, ConnectStep

\* set_keepalive: E is what a full pool closes to make room.
LEMMA ReleaseStep == ASSUME IInv, NEW r \in Requests, Release(r) PROVE IInv'
<1> DEFINE c == cur[r]
<1>1. /\ pc[r] = "release" /\ ~conn[c].stuck /\ UNCHANGED <<store, ops>>
      /\ held' = [held EXCEPT ![r] = held[r] \ {c}]
      /\ pc' = [pc EXCEPT ![r] = "idle"] /\ cur' = [cur EXCEPT ![r] = None]
  BY DEF Release, Return
<1>2. c \in held[r] /\ c \in Conns /\ c \notin Pooled
  BY <1>1, CurHeld DEF IInv, Owners
<1>3. conn[c].open /\ (store = "mysql" => conn[c].init # "none")
  BY <1>1 DEF IInv, InUse, UseOK
<1>4. /\ pool \in Seq(Conns) /\ Len(pool) \in Nat /\ Len(pool) <= PoolSize
      /\ PoolSize \in Nat \ {0}
  BY PoolAssumption, LenProperties DEF IInv, PoolOK
<1>5. PICK E \in SUBSET Pooled :
        /\ PoolOK' /\ Pooled' = {c} \cup (Pooled \ E)
        /\ conn' \in [Conns -> Conn]
        /\ \A d \in Conns : conn'[d] = IF d \in E THEN Closed ELSE conn[d]
  <2>1. CASE Len(pool) < PoolSize
    <3>1. pool' = <<c>> \o SubSeq(pool, 1, Len(pool)) /\ UNCHANGED conn
      BY <1>4, <2>1, SubSeqFull DEF Release
    <3>2. PoolOK' /\ Pooled' = {c} \cup Pooled
      <4>1. Len(pool) \in 0..Len(pool) /\ c \in Conns \ Pooled /\ PoolOK
        BY <1>2, <1>4 DEF IInv
      <4>2. PoolOK' /\ Pooled' = {c} \cup {pool[i] : i \in 1..Len(pool)}
        BY <2>1, <3>1, <4>1, PoolPush
      <4>3. QED
        BY <4>2 DEF Pooled
    <3>3. {} \in SUBSET Pooled /\ Pooled' = {c} \cup (Pooled \ {})
      BY <3>2
    <3>4. conn' \in [Conns -> Conn] /\ \A d \in Conns : conn'[d] = conn[d]
      BY <3>1 DEF IInv, Typed
    <3>5. QED
      BY <3>2, <3>3, <3>4
  <2>2. CASE Len(pool) = PoolSize
    <3> DEFINE last == pool[PoolSize]
    <3>1. /\ pool' = <<c>> \o SubSeq(pool, 1, PoolSize - 1)
          /\ conn' = [conn EXCEPT ![last] = Closed]
      BY <1>4, <2>2 DEF Release
    <3>2. PoolSize - 1 \in 0..Len(pool) /\ PoolSize - 1 < PoolSize /\ PoolSize \in 1..Len(pool)
      BY <1>4, <2>2
    <3>3. PoolOK' /\ Pooled' = {c} \cup {pool[i] : i \in 1..PoolSize - 1}
      BY <1>2, <3>1, <3>2, PoolPush DEF IInv
    <3>4. last \in Pooled /\ last \in Conns
      BY <1>4, <3>2, ElementOfSeq DEF Pooled
    <3>5. {pool[i] : i \in 1..PoolSize - 1} = Pooled \ {last}
      <4>1. \A i \in 1..PoolSize - 1 : i \in 1..Len(pool) /\ i # PoolSize
        BY <1>4, <2>2
      <4>2. \A i \in 1..Len(pool) : i \in 1..PoolSize - 1 \/ i = PoolSize
        BY <1>4, <2>2
      <4>3. \A i \in 1..PoolSize - 1 : pool[i] # last
        BY <3>2, <4>1 DEF IInv, PoolOK
      <4>4. QED
        BY <4>1, <4>2, <4>3 DEF Pooled
    <3>6. /\ conn' \in [Conns -> Conn]
          /\ \A d \in Conns : conn'[d] = IF d \in {last} THEN Closed ELSE conn[d]
      BY <3>1, <3>4, ClosedTyped DEF IInv, Typed
    <3>7. {last} \in SUBSET Pooled /\ Pooled' = {c} \cup (Pooled \ {last})
      BY <3>3, <3>4, <3>5
    <3> HIDE DEF last
    <3>8. QED
      BY <3>3, <3>6, <3>7
  <2>3. Len(pool) < PoolSize \/ Len(pool) = PoolSize
    BY <1>4
  <2>4. QED
    BY <2>1, <2>2, <2>3
<1>6. /\ \A s \in Requests \ {r} : pc'[s] = pc[s] /\ cur'[s] = cur[s] /\ held'[s] = held[s]
      /\ pc'[r] = "idle" /\ cur'[r] = None /\ held'[r] = held[r] \ {c}
  BY <1>1 DEF IInv, Typed
<1>7. Typed' /\ Placed'
  <2>1. /\ pc' \in [Requests -> {"idle", "connect", "init", "work", "release"}]
        /\ cur' \in [Requests -> Conns \cup {None}]
        /\ held' \in [Requests -> SUBSET Conns]
    BY <1>1 DEF IInv, Typed
  <2>2. Typed'
    BY <1>1, <1>5, <2>1 DEF IInv, Typed
  <2>3. QED
    BY <1>6, <2>2 DEF IInv, Placed
<1>8. \A s \in Requests : held[s] \cap E = {}
  BY DEF IInv, Owners
<1> HIDE DEF c
<1>9. Owners'
  <2>1. \A s \in Requests : held'[s] \subseteq held[s] /\ c \notin held'[s]
    BY <1>2, <1>6 DEF IInv, Owners
  <2>2. \A s \in Requests : held'[s] \cap Pooled' = {}
    BY <1>5, <2>1 DEF IInv, Owners
  <2>3. \A s, t \in Requests : s # t => held'[s] \cap held'[t] = {}
    BY <2>1 DEF IInv, Owners
  <2>4. ASSUME NEW d \in Conns, conn'[d].open
        PROVE  d \in Pooled' \/ \E s \in Requests : d \in held'[s]
    <3>1. d \notin E /\ conn[d].open
      BY <1>5, <2>4, ClosedTyped
    <3>2. d \in Pooled \/ \E s \in Requests : d \in held[s]
      BY <3>1 DEF IInv, Owners
    <3>3. QED
      BY <1>5, <1>6, <3>1, <3>2
  <2>5. QED
    BY <2>2, <2>3, <2>4 DEF Owners
<1>10. PooledReady'
  <2>1. c \notin E /\ \A d \in Pooled' : d = c \/ (d \in Pooled \ E)
    BY <1>2, <1>5
  <2>2. \A d \in Pooled' : conn'[d] = conn[d]
    BY <1>2, <1>5, <2>1, PooledConns DEF IInv, PoolOK
  <2>3. QED
    BY <1>1, <1>3, <2>1, <2>2 DEF IInv, PooledReady
<1>11. ASSUME NEW s \in Requests PROVE UseOK(s)'
  <2>1. \A d \in held[s] : conn'[d] = conn[d]
    BY <1>5, <1>8 DEF IInv, Typed
  <2>2. CASE s # r
    BY <1>1, <1>6, <2>1, <2>2, OtherUse DEF IInv, InUse
  <2>3. CASE s = r
    <3>1. \A d \in held[r] \ {c} :
            conn[d].stuck \/ (store = "redis" /\ conn[d].init = "failed")
      BY DEF IInv, InUse, UseOK, c
    <3>2. \A d \in held'[r] :
            conn'[d].stuck \/ (store' = "redis" /\ conn'[d].init = "failed")
      BY <1>1, <1>6, <2>1, <2>3, <3>1
    <3>3. QED
      BY <1>6, <2>3, <3>2 DEF UseOK
  <2>4. QED
    BY <2>2, <2>3
<1>12. QED
  BY <1>5, <1>7, <1>9, <1>10, <1>11 DEF IInv, InUse

\* The timeout of an idle connection preserves IInv.
LEMMA IdleStep == ASSUME IInv, IdleClosed PROVE IInv'
<1>1. PICK i \in 1..Len(pool) :
        /\ conn' = [conn EXCEPT ![pool[i]] = Closed]
        /\ pool' = SubSeq(pool, 1, i - 1) \o SubSeq(pool, i + 1, Len(pool))
        /\ UNCHANGED <<store, pc, ops, cur, held>>
  BY DEF IdleClosed
<1> DEFINE x == pool[i]
<1>2. PoolOK' /\ Pooled' = Pooled \ {x} /\ x \in Pooled
  BY <1>1, PoolRemove DEF IInv
<1>3. x \in Conns /\ Pooled \subseteq Conns
  BY <1>2, PooledConns DEF IInv, PoolOK
<1>4. /\ conn' \in [Conns -> Conn]
      /\ \A d \in Conns : conn'[d] = IF d = x THEN Closed ELSE conn[d]
  BY <1>1, <1>3, ClosedTyped DEF IInv, Typed
<1> HIDE DEF x
<1>5. Typed' /\ Placed'
  BY <1>1, <1>4 DEF IInv, Typed, Placed
<1>6. Owners'
  BY <1>1, <1>2, <1>4, ClosedTyped DEF IInv, Owners
<1>7. PooledReady'
  BY <1>1, <1>2, <1>3, <1>4 DEF IInv, PooledReady
<1>8. ASSUME NEW s \in Requests PROVE UseOK(s)'
  <2>1. \A d \in held[s] : conn'[d] = conn[d]
    BY <1>2, <1>4 DEF IInv, Owners, Typed
  <2>2. QED
    BY <1>1, <2>1, OtherUse DEF IInv, InUse
<1>9. QED
  BY <1>2, <1>5, <1>6, <1>7, <1>8 DEF IInv, InUse

\* Every step preserves IInv: one step of the proof per action.
LEMMA StepInv == IInv /\ [Next]_vars => IInv'
<1> SUFFICES ASSUME IInv, [Next]_vars PROVE IInv'
  OBVIOUS
<1>1. CASE UNCHANGED vars
  <2>1. Pooled' = Pooled /\ UNCHANGED <<store, pc, ops, cur, held, conn, pool>>
    BY <1>1 DEF vars, Pooled
  <2>2. Typed' /\ Placed' /\ PoolOK'
    BY <2>1 DEF IInv, Typed, Placed, PoolOK
  <2>3. Owners' /\ PooledReady'
    BY <2>1 DEF IInv, Owners, PooledReady
  <2>4. InUse'
    BY <2>1 DEF IInv, InUse, UseOK
  <2>5. QED
    BY <2>2, <2>3, <2>4 DEF IInv
<1>2. ASSUME NEW r \in Requests, SelectFails(r) PROVE IInv'
  <2>1. CASE conn' = [conn EXCEPT ![cur[r]].init = "failed"] /\ UNCHANGED held
    BY <1>2, <2>1, LeaveStep DEF SelectFails
  <2>2. CASE Close(r, cur[r])
    BY <1>2, <2>2, CloseStep DEF SelectFails
  <2>3. QED
    BY <1>2, <2>1, <2>2 DEF SelectFails
<1>3. ASSUME NEW r \in Requests, ReleaseRefused(r) PROVE IInv'
  <2>1. CASE conn[cur[r]].open
    BY <1>3, <2>1, LeaveStep DEF ReleaseRefused
  <2>2. CASE ~conn[cur[r]].open
    BY <1>3, <2>2, CloseStep DEF ReleaseRefused
  <2>3. QED
    BY <2>1, <2>2
<1>4. QED
  BY <1>1, <1>2, <1>3, BeginStep, WorkStep, EndStep, PooledStep, NewStep, ReleaseStep,
     IdleStep DEF Next, Step

\* IInv holds in every state.
LEMMA Inductive == Spec => []IInv
<1>1. QED
  BY InitInv, StepInv, PTL DEF Spec

(***************************************************************************)
(* Theorems.                                                               *)
(***************************************************************************)
\* Whatever fails in rds.lua or db.lua, a connection is with one request or
\* once in the keepalive pool, never both; an open one is never lost to
\* both; and the pool keeps to pool_size.
THEOREM Owned == Spec => []OneOwner
<1>1. IInv => OneOwner
  <2> SUFFICES ASSUME IInv PROVE OneOwner
    OBVIOUS
  <2>1. TypeOK
    BY DEF IInv, Typed, Placed, PoolOK, TypeOK
  <2>2. Pooled \subseteq Opened
    BY PooledConns DEF IInv, PoolOK, PooledReady, Opened
  <2>3. Opened \subseteq Pooled \cup UNION {held[r] : r \in Requests}
    BY DEF IInv, Owners, Opened
  <2>4. QED
    BY <2>1, <2>2, <2>3 DEF IInv, PoolOK, Owners, OneOwner
<1>2. QED
  BY <1>1, Inductive, PTL

\* Every command of rds.lua finds the configured database selected, and
\* every query of db.lua a connection on which SET NAMES was tried, however
\* the connection was used before it came to the pool.
THEOREM CommandsPrepared == Spec => []Prepared
<1>1. IInv => Prepared
  BY DEF IInv, InUse, UseOK, Prepared
<1>2. QED
  BY <1>1, Inductive, PTL

\* A request outside of an operation still has a connection only after a
\* failed SELECT in get_redis or a set_keepalive that was refused.
THEOREM KeptAfterFailure == Spec => []KeptOnlyAfterFailure
<1>1. IInv => KeptOnlyAfterFailure
  <2> SUFFICES ASSUME IInv, NEW r \in Requests, pc[r] \in {"idle", "connect"},
                      NEW c \in held[r]
               PROVE  conn[c].stuck \/ (store = "redis" /\ conn[c].init = "failed")
    BY DEF KeptOnlyAfterFailure
  <2>1. c # cur[r]
    BY NoneNoConn DEF IInv, Placed, Typed
  <2>2. UseOK(r)
    BY DEF IInv, InUse
  <2>3. QED
    BY <2>1, <2>2 DEF UseOK
<1>2. QED
  BY <1>1, Inductive, PTL
=============================================================================
