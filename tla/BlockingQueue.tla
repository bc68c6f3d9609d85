--------------------------- MODULE BlockingQueue ----------------------------
(***************************************************************************)
(* utils/algorithm.h, class Solution: a queue with a mutex and a condition *)
(* variable.  get waits with an if, not with a loop: after a wakeup it     *)
(* reads the front of the queue whether or not there is one.               *)
(*                                                                         *)
(* A get that reads the front of an empty deque is undefined behaviour;    *)
(* the model lets it return and leaves the queue empty.  What get returns  *)
(* is not modelled (it is a reference to its local t).                     *)
(***************************************************************************)
EXTENDS Integers, FiniteSets

CONSTANTS
  Getters, Putters,   \* the threads that call get, and those that call put
  MaxData             \* bound: elements in the queue

ASSUME QueueAssumption == IsFiniteSet(Getters) /\ IsFiniteSet(Putters)

VARIABLES
  data,        \* how many elements _data holds
  gpc,         \* gpc[g]: where getter g is
  ppc,         \* ppc[p]: where putter p is
  spurious,    \* history: the getters woken without a notify
  overtaken    \* history: the woken getters that saw another get before them

qvars == <<data, gpc, ppc, spurious, overtaken>>

QueueTypeOK == /\ data \in Nat
               /\ gpc \in [Getters -> {"out", "locked", "wait", "woken", "front"}]
               /\ ppc \in [Putters -> {"out", "pushed"}]
               /\ spurious \subseteq Getters
               /\ overtaken \subseteq Getters

QueueInit == /\ data = 0
             /\ gpc = [g \in Getters |-> "out"]
             /\ ppc = [p \in Putters |-> "out"]
             /\ spurious = {}
             /\ overtaken = {}

\* _mutex is free: no thread is between its lock and its wait or unlock.
Unlocked == /\ \A g \in Getters : gpc[g] \notin {"locked", "front"}
            /\ \A p \in Putters : ppc[p] = "out"

Woken == {g \in Getters : gpc[g] = "woken"}
Waiting == {g \in Getters : gpc[g] = "wait"}

\* Mutant: get never waits.
GetLockUnchecked(g) ==
  /\ gpc[g] = "out"
  /\ Unlocked
  /\ gpc' = [gpc EXCEPT ![g] = "front"]
  /\ UNCHANGED <<data, ppc, spurious, overtaken>>

\* get: lock, _data.empty() decides whether to wait.
GetLock(g) ==
  /\ gpc[g] = "out"
  /\ Unlocked
  /\ gpc' = [gpc EXCEPT ![g] = IF data = 0 THEN "locked" ELSE "front"]
  /\ UNCHANGED <<data, ppc, spurious, overtaken>>

\* get: _cond.wait gives up the mutex and waits, in one step.
CondWait(g) ==
  /\ gpc[g] = "locked"
  /\ gpc' = [gpc EXCEPT ![g] = "wait"]
  /\ UNCHANGED <<data, ppc, spurious, overtaken>>

\* _cond.wait may return without a notify.
SpuriousWakeup(g) ==
  /\ gpc[g] = "wait"
  /\ gpc' = [gpc EXCEPT ![g] = "woken"]
  /\ spurious' = spurious \cup {g}
  /\ UNCHANGED <<data, ppc, overtaken>>

\* _cond.wait takes the mutex again and returns.
Relock(g) ==
  /\ gpc[g] = "woken"
  /\ Unlocked
  /\ gpc' = [gpc EXCEPT ![g] = "front"]
  /\ UNCHANGED <<data, ppc, spurious, overtaken>>

\* get: front, pop_front, return (which unlocks).
GetFront(g) ==
  /\ gpc[g] = "front"
  /\ data' = IF data = 0 THEN 0 ELSE data - 1
  /\ gpc' = [gpc EXCEPT ![g] = "out"]
  /\ spurious' = spurious \ {g}
  /\ overtaken' = (IF data = 0 THEN overtaken ELSE overtaken \cup Woken) \ {g}
  /\ UNCHANGED ppc

\* put: lock, push_back.
PutPush(p) ==
  /\ ppc[p] = "out"
  /\ Unlocked
  /\ data < MaxData
  /\ data' = data + 1
  /\ ppc' = [ppc EXCEPT ![p] = "pushed"]
  /\ UNCHANGED <<gpc, spurious, overtaken>>

\* Mutant: put does not notify.
NotifyNobody(p) ==
  /\ ppc[p] = "pushed"
  /\ ppc' = [ppc EXCEPT ![p] = "out"]
  /\ UNCHANGED <<data, gpc, spurious, overtaken>>

\* put: notify_one, return (which unlocks).
PutNotify(p) ==
  /\ ppc[p] = "pushed"
  /\ IF Waiting = {} THEN UNCHANGED gpc
     ELSE \E g \in Waiting : gpc' = [gpc EXCEPT ![g] = "woken"]
  /\ ppc' = [ppc EXCEPT ![p] = "out"]
  /\ UNCHANGED <<data, spurious, overtaken>>

\* The steps of a call that has begun.
GetStep(g) == CondWait(g) \/ Relock(g) \/ GetFront(g)

QueueNext == \/ \E g \in Getters : GetLock(g) \/ GetStep(g) \/ SpuriousWakeup(g)
             \/ \E p \in Putters : PutPush(p) \/ PutNotify(p)

(***************************************************************************)
(* Properties.                                                             *)
(***************************************************************************)
\* The missing loop does harm in two cases only: a get reads the front of an
\* empty queue only after a spurious wakeup, or when between its notify and
\* its lock another get took the element.
EmptyReadOnlyIfOvertaken ==
  \A g \in Getters : gpc[g] = "front" /\ data = 0 => g \in spurious \cup overtaken

Taking == {g \in Getters : gpc[g] \in {"woken", "front"}}
Notifying == {p \in Putters : ppc[p] = "pushed"}

\* No wakeup is lost: while a get waits, every element of the queue has a
\* woken get on its way, or a put about to notify one.
ElementsHaveTakers ==
  Waiting # {} => data <= Cardinality(Taking) + Cardinality(Notifying)
=============================================================================
