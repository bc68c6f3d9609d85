------------------------ MODULE ConnectionPoolProof ------------------------
(***************************************************************************)
(* Proofs about ConnectionPool for every set of threads and connections.   *)
(* The first inductive invariant, Basic, says who is where: it types the   *)
(* state, ties _mtx to the critical sections, and records what a thread    *)
(* knows about the connection it is about to take or to give back.         *)
(***************************************************************************)
EXTENDS ConnectionPool, FiniteSetTheorems, TLAPS

\* A connection being given back is still its thread's, and the one about to
\* be popped is still the front of the queue.
InHand == \A t \in Thread :
            /\ pc[t] \in {"give_lock", "push"} => connection[t] \in held[t]
            /\ pc[t] = "pop" => pool # <<>> /\ connection[t] = Head(pool)

Basic == TypeOK /\ LockHeld /\ InHand

\* Basic holds in the initial state.
LEMMA BasicInit == Init => Basic
BY PoolAssumption DEF Init, Basic, TypeOK, LockHeld, InHand, GetPC, GivePC,
   LockedPC

\* Every step of a thread preserves Basic: one step of the proof per action.
LEMMA BasicStep == Basic /\ [Next]_vars => Basic'
<1> SUFFICES ASSUME Basic, [Next]_vars
             PROVE  Basic'
  OBVIOUS
<1> USE PoolAssumption DEF Basic, TypeOK, Goto, GetPC, GivePC
<1>1. ASSUME NEW t \in Thread, GetLock(t)
      PROVE  Basic'
  BY <1>1 DEF GetLock, LockHeld, InHand, LockedPC
<1>2. ASSUME NEW t \in Thread, TestEmpty(t)
      PROVE  Basic'
  BY <1>2 DEF TestEmpty, LockHeld, InHand, LockedPC
<1>3. ASSUME NEW t \in Thread, Timeout(t)
      PROVE  Basic'
  BY <1>3 DEF Timeout, LockHeld, InHand, LockedPC
<1>4. ASSUME NEW t \in Thread, Relock(t)
      PROVE  Basic'
  BY <1>4 DEF Relock, LockHeld, InHand, LockedPC
<1>5. ASSUME NEW t \in Thread, TakeFront(t)
      PROVE  Basic'
  BY <1>5 DEF TakeFront, LockHeld, InHand, LockedPC
<1>6. ASSUME NEW t \in Thread, Pop(t)
      PROVE  Basic'
  BY <1>6 DEF Pop, LockHeld, InHand, LockedPC
<1>7. ASSUME NEW t \in Thread, GiveLock(t)
      PROVE  Basic'
  BY <1>7 DEF GiveLock, LockHeld, InHand, LockedPC
<1>8. ASSUME NEW t \in Thread, Push(t)
      PROVE  Basic'
  BY <1>8 DEF Push, LockHeld, InHand, LockedPC
<1>9. ASSUME NEW t \in Thread, NotifyOne(t)
      PROVE  Basic'
  BY <1>9 DEF NotifyOne, LockHeld, InHand, LockedPC, Waiters
<1>10. ASSUME NEW t \in Thread, SpuriousWakeup(t)
      PROVE  Basic'
  BY <1>10 DEF SpuriousWakeup, LockHeld, InHand, LockedPC
<1>11. ASSUME NEW t \in Thread, NEW c \in Connection, GiveCall(t, c)
      PROVE  Basic'
  BY <1>11 DEF GiveCall, LockHeld, InHand, LockedPC
<1>12. ASSUME NEW t \in Thread, NEW c \in Connection, CreateConnection(t, c)
      PROVE  Basic'
  BY <1>12 DEF CreateConnection, LockHeld, InHand, LockedPC
<1>13. ASSUME NEW t \in Thread, NEW b \in CallTimed, GetCall(t, b)
      PROVE  Basic'
  BY <1>13 DEF GetCall, LockHeld, InHand, LockedPC
<1>14. CASE UNCHANGED vars
  BY <1>14 DEF vars, LockHeld, InHand, LockedPC
<1>15. QED
  BY <1>1, <1>2, <1>3, <1>4, <1>5, <1>6, <1>7, <1>8, <1>9, <1>10, <1>11, <1>12, <1>13, <1>14
  DEF Next, Step, Give, Create

\* TypeOK, LockHeld and InHand hold in every state of the pool.
THEOREM BasicInvariant == Spec => []Basic
BY BasicInit, BasicStep, PTL DEF Spec

\* TypeOK holds in every state; in particular no NULL is ever pushed.
THEOREM Typing == Spec => []TypeOK
BY BasicInvariant, PTL DEF Basic

\* Threads in the critical sections of get_connection and give_back own the
\* mutex, so there is at most one.
THEOREM MutualExclusion == Spec => []LockHeld
BY BasicInvariant, PTL DEF Basic

(***************************************************************************)
(* Ownership.  Only three actions move a connection: CreateConnection from *)
(* fresh to a thread, Push from a thread to the end of the queue, Pop from *)
(* the front of the queue to a thread.                                     *)
(***************************************************************************)
\* Every step preserves ExclusiveOwnership.
LEMMA OwnershipStep ==
  Basic /\ ExclusiveOwnership /\ [Next]_vars => ExclusiveOwnership'
<1> SUFFICES ASSUME Basic, ExclusiveOwnership, [Next]_vars
             PROVE  ExclusiveOwnership'
  OBVIOUS
<1> USE PoolAssumption DEF Basic, TypeOK
<1>1. CASE UNCHANGED <<pool, held, fresh>>
  BY <1>1 DEF ExclusiveOwnership
<1>2. ASSUME NEW t \in Thread, NEW c \in Connection, CreateConnection(t, c)
      PROVE  ExclusiveOwnership'
  BY <1>2 DEF CreateConnection, ExclusiveOwnership
<1>3. ASSUME NEW t \in Thread, Push(t)
      PROVE  ExclusiveOwnership'
  <2>1. /\ connection[t] \in held[t]
        /\ connection[t] \in Connection
        /\ Len(pool') = Len(pool) + 1
        /\ pool'[Len(pool) + 1] = connection[t]
        /\ \A i \in 1..Len(pool) : pool'[i] = pool[i]
        /\ held' = [held EXCEPT ![t] = @ \ {connection[t]}]
        /\ fresh' = fresh
        /\ Len(pool) \in Nat
    BY <1>3 DEF Push, InHand
  <2>2. QED
    BY <2>1 DEF ExclusiveOwnership
<1>4. ASSUME NEW t \in Thread, Pop(t)
      PROVE  ExclusiveOwnership'
  <2>1. /\ connection[t] = pool[1]
        /\ Len(pool) \in Nat \ {0}
        /\ Len(pool') = Len(pool) - 1
        /\ \A i \in 1..Len(pool') : pool'[i] = pool[i + 1]
        /\ held' = [held EXCEPT ![t] = @ \cup {connection[t]}]
        /\ fresh' = fresh
    BY <1>4 DEF Pop, InHand
  <2>2. \A i \in 1..Len(pool') : i + 1 \in 1..Len(pool) /\ i + 1 # 1
    BY <2>1
  <2>3. \A i, j \in 1..Len(pool') : pool'[i] = pool'[j] => i = j
    BY <2>1, <2>2 DEF ExclusiveOwnership
  <2>4. \A i \in 1..Len(pool') : pool'[i] # connection[t]
    BY <2>1, <2>2 DEF ExclusiveOwnership
  <2>5. \A i \in 1..Len(pool') :
          pool'[i] \notin fresh' /\ \A u \in Thread : pool'[i] \notin held'[u]
    BY <2>1, <2>2, <2>4 DEF ExclusiveOwnership
  <2>6. /\ \A u \in Thread : held'[u] \cap fresh' = {}
        /\ \A u, v \in Thread : u # v => held'[u] \cap held'[v] = {}
    BY <2>1 DEF ExclusiveOwnership
  <2>7. ASSUME NEW c \in Connection
        PROVE  \/ c \in fresh'
               \/ \E u \in Thread : c \in held'[u]
               \/ \E i \in 1..Len(pool') : pool'[i] = c
    <3>1. CASE c \in fresh \/ \E u \in Thread : c \in held[u]
      BY <2>1, <3>1
    <3>2. CASE \E i \in 1..Len(pool) : pool[i] = c
      <4>1. PICK i \in 1..Len(pool) : pool[i] = c
        BY <3>2
      <4>2. CASE i = 1
        BY <2>1, <4>1, <4>2
      <4>3. CASE i # 1
        <5>1. i - 1 \in 1..Len(pool') /\ pool'[i - 1] = c
          BY <2>1, <4>1, <4>3
        <5>2. QED
          BY <5>1
      <4>4. QED
        BY <4>2, <4>3
    <3>3. QED
      BY <3>1, <3>2 DEF ExclusiveOwnership
  <2>8. QED
    BY <2>3, <2>5, <2>6, <2>7 DEF ExclusiveOwnership
<1>5. QED
  BY <1>1, <1>2, <1>3, <1>4
  DEF Next, Step, Give, Create, vars, GetLock, TestEmpty, Timeout, Relock,
      TakeFront, GiveLock, NotifyOne, SpuriousWakeup, GiveCall, GetCall

\* Every connection is in exactly one place, for any number of threads and
\* connections: none is lost, duplicated or handed to two threads.
THEOREM Ownership == Spec => []ExclusiveOwnership
<1>1. Init => ExclusiveOwnership
  BY DEF Init, ExclusiveOwnership
<1>2. QED
  BY <1>1, BasicInvariant, OwnershipStep, PTL DEF Spec

(***************************************************************************)
(* Wakeups.  The invariant counts: a thread enters the wait set only when  *)
(* the queue is empty; from then on every connection that is pushed wakes  *)
(* a thread, and a connection leaves the queue together with an awake one. *)
(***************************************************************************)
\* The sets that NoLostWakeup counts are finite.
LEMMA Counting ==
  /\ IsFiniteSet(Awake) /\ Cardinality(Awake) \in Nat
  /\ IsFiniteSet(Notifying) /\ Cardinality(Notifying) \in Nat
  /\ IsFiniteSet(Awake)' /\ Cardinality(Awake') \in Nat
  /\ IsFiniteSet(Notifying)' /\ Cardinality(Notifying') \in Nat
<1>1. /\ Awake \subseteq Thread /\ Awake' \subseteq Thread
      /\ Notifying \subseteq Thread /\ Notifying' \subseteq Thread
  BY DEF Awake, Notifying
<1>2. QED
  BY <1>1, PoolAssumption, FS_Subset, FS_CardinalityType

\* Every step preserves NoLostWakeup.
LEMMA WakeupStep == Basic /\ NoLostWakeup /\ [Next]_vars => NoLostWakeup'
<1> SUFFICES ASSUME Basic, NoLostWakeup, [Next]_vars
             PROVE  NoLostWakeup'
  OBVIOUS
<1> DEFINE a == Cardinality(Awake)
           n == Cardinality(Notifying)
<1>t. Len(pool) \in Nat
  BY DEF Basic, TypeOK
<1>1. CASE /\ Waiters' \subseteq Waiters
           /\ Awake \subseteq Awake' /\ Notifying' = Notifying
           /\ pool' = pool
  <2>1. a <= Cardinality(Awake')
    BY <1>1, Counting, FS_Subset
  <2>2. QED
    BY <1>1, <1>t, <2>1, Counting DEF NoLostWakeup
<1>2. CASE pool' = <<>>
  BY <1>2, Counting DEF NoLostWakeup
<1> USE DEF Basic, TypeOK, Goto, GetPC, GivePC
<1>3. ASSUME NEW t \in Thread, Pop(t)
      PROVE  NoLostWakeup'
  <2>1. Len(pool') = Len(pool) - 1
    BY <1>3 DEF Pop, InHand
  <2>2. Awake' = Awake \ {t} /\ t \in Awake
    BY <1>3 DEF Pop, Awake
  <2>3. Notifying' = Notifying /\ Waiters' = Waiters
    BY <1>3 DEF Pop, Notifying, Waiters
  <2>4. Cardinality(Awake') = a - 1
    BY <2>2, Counting, FS_RemoveElement
  <2>5. QED
    BY <1>t, <2>1, <2>3, <2>4, Counting DEF NoLostWakeup
<1>4. ASSUME NEW t \in Thread, Push(t)
      PROVE  NoLostWakeup'
  <2>1. Len(pool') = Len(pool) + 1
    BY <1>4 DEF Push, InHand
  <2>2. Notifying' = Notifying \cup {t} /\ t \notin Notifying
    BY <1>4 DEF Push, Notifying
  <2>3. Awake' = Awake /\ Waiters' = Waiters
    BY <1>4 DEF Push, Awake, Waiters
  <2>4. Cardinality(Notifying') = n + 1
    BY <2>2, Counting, FS_AddElement
  <2>5. QED
    BY <1>t, <2>1, <2>3, <2>4, Counting DEF NoLostWakeup
<1>5. ASSUME NEW t \in Thread, NotifyOne(t)
      PROVE  NoLostWakeup'
  <2>1. CASE Waiters = {} /\ Goto(t, "idle")
    <3>1. Waiters' = {}
      BY <1>5, <2>1 DEF NotifyOne, Waiters
    <3>2. QED
      BY <3>1 DEF NoLostWakeup
  <2>2. CASE \E w \in Waiters :
               pc' = [pc EXCEPT ![t] = "idle", ![w] = "relock"]
    <3>1. PICK w \in Waiters : pc' = [pc EXCEPT ![t] = "idle", ![w] = "relock"]
      BY <2>2
    <3>2. w \in Thread /\ pc[w] = "wait" /\ pc[t] = "notify" /\ w # t
      BY <1>5, <3>1 DEF NotifyOne, Waiters
    <3>3. Awake' = Awake \cup {w} /\ w \notin Awake
      BY <3>1, <3>2 DEF Awake
    <3>4. Notifying' = Notifying \ {t} /\ t \in Notifying
      BY <3>1, <3>2 DEF Notifying
    <3>5. Cardinality(Awake') = a + 1 /\ Cardinality(Notifying') = n - 1
      BY <3>3, <3>4, Counting, FS_AddElement, FS_RemoveElement
    <3>6. pool' = pool /\ Waiters # {}
      BY <1>5, <3>1 DEF NotifyOne
    <3>7. QED
      BY <1>t, <3>5, <3>6, Counting DEF NoLostWakeup
  <2>3. QED
    BY <1>5, <2>1, <2>2 DEF NotifyOne
<1>6. ASSUME NEW t \in Thread, TestEmpty(t) \/ TakeFront(t)
      PROVE  NoLostWakeup'
  <2>1. CASE pool = <<>>
    BY <1>2, <1>6, <2>1 DEF TestEmpty, TakeFront
  <2>2. CASE pool # <<>>
    BY <1>1, <1>6, <2>2 DEF TestEmpty, TakeFront, Waiters, Awake, Notifying
  <2>3. QED
    BY <2>1, <2>2
<1>7. ASSUME NEW t \in Thread,
             \/ GetLock(t) \/ Relock(t) \/ Timeout(t) \/ SpuriousWakeup(t)
             \/ GiveLock(t)
             \/ \E c \in Connection : GiveCall(t, c) \/ CreateConnection(t, c)
             \/ \E b \in CallTimed : GetCall(t, b)
      PROVE  NoLostWakeup'
  BY <1>1, <1>7
  DEF GetLock, Relock, Timeout, SpuriousWakeup, GiveLock, GiveCall,
      CreateConnection, GetCall, Waiters, Awake, Notifying
<1>8. CASE UNCHANGED vars
  BY <1>1, <1>8 DEF vars, Waiters, Awake, Notifying
<1>9. QED
  BY <1>3, <1>4, <1>5, <1>6, <1>7, <1>8 DEF Next, Step, Give, Create

\* While a thread waits, every free connection has a thread of its own awake
\* in get_connection or a notification on its way.
THEOREM Wakeups == Spec => []NoLostWakeup
<1>1. Init => NoLostWakeup
  BY DEF Init, NoLostWakeup, Waiters
<1>2. QED
  BY <1>1, BasicInvariant, WakeupStep, PTL DEF Spec

(***************************************************************************)
(* Refinement.  Pop is the abstract Grant, a TakeFront that finds nothing  *)
(* is Refuse, Push is Release; all steps that only move a thread between   *)
(* the states of get_connection or give_back stutter.                      *)
(***************************************************************************)
\* A thread that reads an empty queue at TakeFront has timed out.
UntimedFindsOne ==
  \A t \in Thread : /\ pc[t] = "take" /\ ~timed[t] => pool # <<>>
                    /\ pc[t] = "relock_timeout" => timed[t]

\* Every step preserves UntimedFindsOne: only the owner of _mtx pops.
LEMMA UntimedStep == Basic /\ UntimedFindsOne /\ [Next]_vars => UntimedFindsOne'
<1> SUFFICES ASSUME Basic, UntimedFindsOne, [Next]_vars, NEW u \in Thread
             PROVE  UntimedFindsOne!(u)'
  BY DEF UntimedFindsOne
<1> USE PoolAssumption
    DEF Basic, TypeOK, LockHeld, LockedPC, Goto, UntimedFindsOne
<1>1. ASSUME NEW t \in Thread, Pop(t)
      PROVE  UntimedFindsOne!(u)'
  BY <1>1 DEF Pop
<1>2. ASSUME NEW t \in Thread, Push(t)
      PROVE  UntimedFindsOne!(u)'
  BY <1>2 DEF Push
<1>3. ASSUME NEW t \in Thread, NotifyOne(t)
      PROVE  UntimedFindsOne!(u)'
  BY <1>3 DEF NotifyOne, Waiters
<1>4. ASSUME NEW t \in Thread, Step(t), pool' = pool, ~NotifyOne(t)
      PROVE  UntimedFindsOne!(u)'
  BY <1>1, <1>2, <1>4
  DEF Step, GetLock, TestEmpty, Timeout, Relock, TakeFront, GiveLock
<1>5. ASSUME NEW t \in Thread,
             \/ SpuriousWakeup(t)
             \/ \E c \in Connection : GiveCall(t, c) \/ CreateConnection(t, c)
             \/ \E b \in CallTimed : GetCall(t, b)
      PROVE  UntimedFindsOne!(u)'
  BY <1>5 DEF SpuriousWakeup, GiveCall, CreateConnection, GetCall
<1>6. CASE UNCHANGED vars
  BY <1>6 DEF vars
<1>7. ASSUME NEW t \in Thread, Step(t)
      PROVE  Pop(t) \/ Push(t) \/ pool' = pool
  BY <1>7
  DEF Step, GetLock, TestEmpty, Timeout, Relock, TakeFront, GiveLock, NotifyOne
<1>8. QED
  BY <1>1, <1>2, <1>3, <1>4, <1>5, <1>6, <1>7 DEF Next, Give, Create

\* Every step of the pool is a step of ResourcePool or leaves it unchanged.
LEMMA RefinementStep ==
  Basic /\ ExclusiveOwnership /\ UntimedFindsOne /\ [Next]_vars
    => [Abstract!Next]_(Abstract!vars)
<1> SUFFICES ASSUME Basic, ExclusiveOwnership, UntimedFindsOne, [Next]_vars
             PROVE  Abstract!Next \/ UNCHANGED Abstract!vars
  OBVIOUS
<1> USE PoolAssumption DEF Basic, TypeOK, Goto, GetPC, GivePC
<1>1. ASSUME NEW t \in Thread, Pop(t)
      PROVE  Abstract!Grant(t)
  BY <1>1 DEF Pop, InHand, Abstract!Grant
<1>2. ASSUME NEW t \in Thread, TakeFront(t)
      PROVE  Abstract!Refuse(t) \/ UNCHANGED Abstract!vars
  BY <1>2 DEF TakeFront, UntimedFindsOne, Abstract!Refuse, Abstract!vars
<1>3. ASSUME NEW t \in Thread, Push(t)
      PROVE  Abstract!Release(t, connection[t])
  BY <1>3 DEF Push, InHand, Abstract!Release
<1>4. ASSUME NEW t \in Thread, NEW c \in Connection, CreateConnection(t, c)
      PROVE  Abstract!Create(t, c)
  BY <1>4 DEF CreateConnection, ExclusiveOwnership, Abstract!Create
<1>5. ASSUME NEW t \in Thread, NEW b \in CallTimed, GetCall(t, b)
      PROVE  Abstract!Ask(t, IF b THEN "timed" ELSE "block")
  BY <1>5 DEF GetCall, Abstract!Ask
<1>6. ASSUME NEW t \in Thread, GetLock(t) \/ Relock(t)
      PROVE  UNCHANGED Abstract!vars
  BY <1>6 DEF GetLock, Relock, Abstract!vars
<1>7. ASSUME NEW t \in Thread, TestEmpty(t)
      PROVE  UNCHANGED Abstract!vars
  BY <1>7 DEF TestEmpty, Abstract!vars
<1>8. ASSUME NEW t \in Thread, Timeout(t) \/ SpuriousWakeup(t)
      PROVE  UNCHANGED Abstract!vars
  BY <1>8 DEF Timeout, SpuriousWakeup, Abstract!vars
<1>9. ASSUME NEW t \in Thread, GiveLock(t) \/ \E c \in Connection : GiveCall(t, c)
      PROVE  UNCHANGED Abstract!vars
  BY <1>9 DEF GiveLock, GiveCall, Abstract!vars
<1>10. ASSUME NEW t \in Thread, NotifyOne(t)
       PROVE  UNCHANGED Abstract!vars
  BY <1>10 DEF NotifyOne, Waiters, Abstract!vars
<1>11. CASE UNCHANGED vars
  BY <1>11 DEF vars, Abstract!vars
<1>12. ASSUME NEW t \in Thread, Push(t)
       PROVE  connection[t] \in Connection
  BY <1>12 DEF Push, InHand
<1>13. ASSUME NEW b \in CallTimed
       PROVE  (IF b THEN "timed" ELSE "block") \in Abstract!Kind
  BY DEF Abstract!Kind
<1>14. QED
  BY <1>1, <1>2, <1>3, <1>4, <1>5, <1>6, <1>7, <1>8, <1>9, <1>10, <1>11,
     <1>12, <1>13
  DEF Next, Step, Give, Create, Abstract!Next

\* The pool implements ResourcePool, for any threads and connections.
THEOREM Refinement == Spec => RefinesPool
<1>1. Init => Abstract!Init
  BY DEF Init, GetPC, Abstract!Init
<1>2. Init => UntimedFindsOne
  BY DEF Init, UntimedFindsOne
<1>3. Spec => []UntimedFindsOne
  BY <1>2, BasicInvariant, UntimedStep, PTL DEF Spec
<1>4. QED
  BY <1>1, <1>3, BasicInvariant, Ownership, RefinementStep, PTL
  DEF Spec, RefinesPool, Abstract!Spec
=============================================================================
