--------------------------- MODULE ConnectionPool ---------------------------
(***************************************************************************)
(* utils/connection_pool.h: a queue of connections shared by threads,      *)
(* guarded by the mutex _mtx and the condition variable _non_empty, and    *)
(* the ConnectionGuard that takes a connection with a timeout and gives it *)
(* back at the end of its scope.                                           *)
(*                                                                         *)
(* Each step between two points at which a thread holds or waits for _mtx  *)
(* is an action.  A thread blocked in _non_empty.wait has pc "wait"; it    *)
(* leaves that state when it is notified, when its timeout expires, or     *)
(* spuriously, and must then get _mtx again.                               *)
(***************************************************************************)
EXTENDS Naturals, Sequences, FiniteSets

CONSTANTS
  Thread,        \* the threads that use the pool
  Filler,        \* those that fill it with add_connection and never take
  Connection,    \* the connections
  NULL,          \* the null pointer, and the owner of a free mutex
  CallTimed,     \* the kinds of get_connection callers use: TRUE is timeout > 0
  MaxHeld,       \* bound: connections a thread has when it asks for another
  MaxSpurious    \* bound: spurious wakeups in a behaviour

ASSUME PoolAssumption ==
  /\ NULL \notin Thread
  /\ NULL \notin Connection
  /\ IsFiniteSet(Thread)
  /\ Filler \subseteq Thread
  /\ CallTimed \subseteq BOOLEAN
  /\ MaxHeld \in Nat
  /\ MaxSpurious \in Nat

VARIABLES
  mtx,           \* the thread that holds _mtx, or NULL
  pool,          \* _pool
  pc,            \* pc[t]: where thread t is
  timed,         \* timed[t]: t's call of get_connection has a timeout
  connection,    \* connection[t]: the local or parameter of that name
  held,          \* held[t]: the connections t may use
  fresh,         \* connections that no thread has created yet
  spurious       \* spurious wakeups so far

vars == <<mtx, pool, pc, timed, connection, held, fresh, spurious>>

GetPC == {"get_lock", "get_test", "wait", "relock", "relock_timeout",
          "take", "pop"}
GivePC == {"give_lock", "push", "notify"}
LockedPC == {"get_test", "take", "pop", "push", "notify"}

TypeOK == /\ mtx \in Thread \cup {NULL}
          /\ pool \in Seq(Connection)
          /\ pc \in [Thread -> {"idle"} \cup GetPC \cup GivePC]
          /\ timed \in [Thread -> BOOLEAN]
          /\ connection \in [Thread -> Connection \cup {NULL}]
          /\ held \in [Thread -> SUBSET Connection]
          /\ fresh \in SUBSET Connection
          /\ spurious \in 0..MaxSpurious

Init == /\ mtx = NULL
        /\ pool = <<>>
        /\ pc = [t \in Thread |-> "idle"]
        /\ timed = [t \in Thread |-> FALSE]
        /\ connection = [t \in Thread |-> NULL]
        /\ held = [t \in Thread |-> {}]
        /\ fresh = Connection
        /\ spurious = 0

Goto(t, p) == pc' = [pc EXCEPT ![t] = p]

(***************************************************************************)
(* get_connection(timeout).                                                *)
(***************************************************************************)
GetCall(t, withTimeout) ==
  /\ pc[t] = "idle"
  /\ t \notin Filler
  /\ Cardinality(held[t]) < MaxHeld
  /\ timed' = [timed EXCEPT ![t] = withTimeout]
  /\ connection' = [connection EXCEPT ![t] = NULL]
  /\ Goto(t, "get_lock")
  /\ UNCHANGED <<mtx, pool, held, fresh, spurious>>

\* The std::unique_lock at the head of get_connection.
GetLock(t) ==
  /\ pc[t] = "get_lock"
  /\ mtx = NULL
  /\ mtx' = t
  /\ Goto(t, "get_test")
  /\ UNCHANGED <<pool, timed, connection, held, fresh, spurious>>

\* Mutant: the test and the wait are not one step under _mtx.
TestEmptyKeepsLock(t) ==
  /\ pc[t] = "get_test"
  /\ IF pool = <<>> THEN Goto(t, "wait") ELSE Goto(t, "take")
  /\ UNCHANGED <<mtx, pool, timed, connection, held, fresh, spurious>>

\* while (_pool.empty()): leave the loop, or release _mtx and wait.
TestEmpty(t) ==
  /\ pc[t] = "get_test"
  /\ IF pool = <<>>
     THEN Goto(t, "wait") /\ mtx' = NULL
     ELSE Goto(t, "take") /\ UNCHANGED mtx
  /\ UNCHANGED <<pool, timed, connection, held, fresh, spurious>>

\* wait_for returns cv_status::timeout: break out of the loop.
Timeout(t) ==
  /\ pc[t] = "wait"
  /\ timed[t]
  /\ Goto(t, "relock_timeout")
  /\ UNCHANGED <<mtx, pool, timed, connection, held, fresh, spurious>>

SpuriousWakeup(t) ==
  /\ pc[t] = "wait"
  /\ spurious < MaxSpurious
  /\ spurious' = spurious + 1
  /\ Goto(t, "relock")
  /\ UNCHANGED <<mtx, pool, timed, connection, held, fresh>>

\* wait and wait_for lock _mtx again before they return.
Relock(t) ==
  /\ pc[t] \in {"relock", "relock_timeout"}
  /\ mtx = NULL
  /\ mtx' = t
  /\ Goto(t, IF pc[t] = "relock" THEN "get_test" ELSE "take")
  /\ UNCHANGED <<pool, timed, connection, held, fresh, spurious>>

\* if (!_pool.empty()) connection = _pool.front(); otherwise return NULL.
TakeFront(t) ==
  /\ pc[t] = "take"
  /\ IF pool = <<>>
     THEN Goto(t, "idle") /\ mtx' = NULL /\ UNCHANGED connection
     ELSE /\ Goto(t, "pop")
          /\ connection' = [connection EXCEPT ![t] = Head(pool)]
          /\ UNCHANGED mtx
  /\ UNCHANGED <<pool, timed, held, fresh, spurious>>

\* Mutant: get_connection returns the front without popping it.
PopForgotten(t) ==
  /\ pc[t] = "pop"
  /\ held' = [held EXCEPT ![t] = @ \cup {connection[t]}]
  /\ mtx' = NULL
  /\ Goto(t, "idle")
  /\ UNCHANGED <<pool, timed, connection, fresh, spurious>>

\* _pool.pop(), and the return that unlocks _mtx.
Pop(t) ==
  /\ pc[t] = "pop"
  /\ pool' = Tail(pool)
  /\ held' = [held EXCEPT ![t] = @ \cup {connection[t]}]
  /\ mtx' = NULL
  /\ Goto(t, "idle")
  /\ UNCHANGED <<timed, connection, fresh, spurious>>

(***************************************************************************)
(* give_back(connection), called directly, from add_connection or from the *)
(* destructor of a ConnectionGuard.                                        *)
(***************************************************************************)
CreateConnection(t, c) ==
  /\ pc[t] = "idle"
  /\ t \in Filler
  /\ c \in fresh
  /\ fresh' = fresh \ {c}
  /\ held' = [held EXCEPT ![t] = @ \cup {c}]
  /\ UNCHANGED <<mtx, pool, pc, timed, connection, spurious>>

GiveCall(t, c) ==
  /\ pc[t] = "idle"
  /\ c \in held[t]
  /\ connection' = [connection EXCEPT ![t] = c]
  /\ Goto(t, "give_lock")
  /\ UNCHANGED <<mtx, pool, timed, held, fresh, spurious>>

GiveLock(t) ==
  /\ pc[t] = "give_lock"
  /\ mtx = NULL
  /\ mtx' = t
  /\ Goto(t, "push")
  /\ UNCHANGED <<pool, timed, connection, held, fresh, spurious>>

\* Mutant: a stack instead of a queue.
PushFront(t) ==
  /\ pc[t] = "push"
  /\ pool' = <<connection[t]>> \o pool
  /\ held' = [held EXCEPT ![t] = @ \ {connection[t]}]
  /\ Goto(t, "notify")
  /\ UNCHANGED <<mtx, timed, connection, fresh, spurious>>

Push(t) ==
  /\ pc[t] = "push"
  /\ pool' = Append(pool, connection[t])
  /\ held' = [held EXCEPT ![t] = @ \ {connection[t]}]
  /\ Goto(t, "notify")
  /\ UNCHANGED <<mtx, timed, connection, fresh, spurious>>

Waiters == {t \in Thread : pc[t] = "wait"}

\* Mutant: give_back without notify_one.
NotifyNone(t) ==
  /\ pc[t] = "notify"
  /\ mtx' = NULL
  /\ Goto(t, "idle")
  /\ UNCHANGED <<pool, timed, connection, held, fresh, spurious>>

\* _non_empty.notify_one() wakes some waiter, if there is one; then the
\* unique_lock is destroyed.
NotifyOne(t) ==
  /\ pc[t] = "notify"
  /\ mtx' = NULL
  /\ \/ Waiters = {} /\ Goto(t, "idle")
     \/ \E w \in Waiters :
          pc' = [pc EXCEPT ![t] = "idle", ![w] = "relock"]
  /\ UNCHANGED <<pool, timed, connection, held, fresh, spurious>>

\* The steps a thread takes by itself once it has called an operation.
Step(t) == \/ GetLock(t) \/ TestEmpty(t) \/ Timeout(t) \/ Relock(t)
           \/ TakeFront(t) \/ Pop(t)
           \/ GiveLock(t) \/ Push(t) \/ NotifyOne(t)

Give(t) == \E c \in Connection : GiveCall(t, c)
Create(t) == \E c \in Connection : CreateConnection(t, c)

Next == \E t \in Thread :
          \/ Step(t) \/ SpuriousWakeup(t) \/ Give(t) \/ Create(t)
          \/ \E b \in CallTimed : GetCall(t, b)

Spec == Init /\ [][Next]_vars

(***************************************************************************)
(* Fairness: the scheduler runs every thread, the clock runs (Timeout), a  *)
(* thread that has a connection ends the scope that holds it (the          *)
(* destructor of ConnectionGuard), and the program fills the pool.         *)
(* Nothing is assumed of the order in which _mtx is granted.               *)
(***************************************************************************)
FairSpec == /\ Spec
            /\ \A t \in Thread : WF_vars(Step(t)) /\ WF_vars(Give(t))
            /\ WF_vars(\E t \in Thread : Create(t))

(***************************************************************************)
(* Properties.                                                             *)
(***************************************************************************)
\* A thread between lock and unlock is the owner of _mtx, so no two
\* threads are in the critical sections of get_connection and give_back.
LockHeld == \A t \in Thread : (pc[t] \in LockedPC) <=> (mtx = t)

\* Every connection is in exactly one place: not created, in the queue
\* (once), or in the hands of one thread.  No connection is lost or handed
\* to two threads, however get_connection and give_back interleave.
ExclusiveOwnership ==
  /\ \A i, j \in 1..Len(pool) : pool[i] = pool[j] => i = j
  /\ \A i \in 1..Len(pool) :
       pool[i] \notin fresh /\ \A t \in Thread : pool[i] \notin held[t]
  /\ \A t \in Thread : held[t] \cap fresh = {}
  /\ \A t, u \in Thread : t # u => held[t] \cap held[u] = {}
  /\ \A c \in Connection : \/ c \in fresh
                           \/ \E t \in Thread : c \in held[t]
                           \/ \E i \in 1..Len(pool) : pool[i] = c

Awake == {t \in Thread : pc[t] \in GetPC \ {"wait"}}
Notifying == {t \in Thread : pc[t] = "notify"}

\* No wakeup is lost: while a thread waits, every free connection is spoken
\* for by a thread of its own that is already awake inside get_connection,
\* or by the notification that give_back is about to send.
NoLostWakeup ==
  Waiters # {} => Len(pool) <= Cardinality(Awake) + Cardinality(Notifying)

\* As long as some thread is inside get_connection, calls of get_connection
\* go on returning: the threads never block one another for good.  (Starvation
\* of one given thread is possible: a woken thread can lose every race.)
GetsProgress ==
  []<>(\A t \in Thread : pc[t] \notin GetPC) \/
  []<>(\E t \in Thread : pc[t] = "pop" \/ (pc[t] = "take" /\ pool = <<>>))

\* The pool as its clients see it: see ResourcePool.
Abstract == INSTANCE ResourcePool WITH
  Client <- Thread, Resource <- Connection, free <- pool, holds <- held,
  request <- [t \in Thread |-> IF pc[t] \notin GetPC THEN "none"
                               ELSE IF timed[t] THEN "timed" ELSE "block"]

\* The pool implements ResourcePool: get_connection hands out the connection
\* that was given back first, returns NULL only to a caller with a timeout
\* and only when the pool is empty, and give_back makes its connection the
\* last in line.
RefinesPool == Abstract!Spec
=============================================================================
