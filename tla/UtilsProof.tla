----------------------------- MODULE UtilsProof -----------------------------
(***************************************************************************)
(* Proofs about the parts that start and synchronise threads and           *)
(* processes, for every number of threads, processes, CPUs and clients:    *)
(* an invariant for each of BlockingQueue, Multi, WatchDog and SnmpAgent   *)
(* (that of Arena is ArenaProof's), and what MCUtils promises of them.     *)
(***************************************************************************)
EXTENDS MCUtils, ArenaProof, FiniteSetTheorems, SequenceTheorems, TLAPS

(***************************************************************************)
(* BlockingQueue.  The invariant says who is inside, and what a thread may *)
(* rely on: a get that is about to wait has seen the queue empty, and an   *)
(* element is there for a put about to notify and for a get that nobody    *)
(* has overtaken.                                                          *)
(***************************************************************************)
\* At most one thread is between its lock and its wait or unlock.
OneInside ==
  /\ \A g, h \in Getters : gpc[g] \in {"locked", "front"} /\ gpc[h] \in {"locked", "front"}
                             => g = h
  /\ \A p, q \in Putters : ppc[p] = "pushed" /\ ppc[q] = "pushed" => p = q
  /\ \A g \in Getters, p \in Putters : ~(gpc[g] \in {"locked", "front"} /\ ppc[p] = "pushed")

\* The queue is empty for a get about to wait.
SawEmpty == \A g \in Getters : gpc[g] = "locked" => data = 0

\* It is not for a put about to notify, nor for a get that was woken by a
\* notify, or took the mutex at once, and was not overtaken since.
ElementThere ==
  /\ \A p \in Putters : ppc[p] = "pushed" => data > 0
  /\ \A g \in Getters : gpc[g] \in {"woken", "front"} /\ g \notin spurious \cup overtaken
                          => data > 0

QInv == QueueTypeOK /\ OneInside /\ SawEmpty /\ ElementThere

\* QInv holds in the initial state.
LEMMA QInvInit == QueueInit => QInv
BY DEF QueueInit, QInv, QueueTypeOK, OneInside, SawEmpty, ElementThere

\* Every step preserves QInv: one step of the proof per action.
LEMMA QInvStep == QInv /\ [QueueNext]_qvars => QInv'
<1> SUFFICES ASSUME QInv, [QueueNext]_qvars PROVE QInv'
  OBVIOUS
<1> USE DEF QInv, QueueTypeOK
<1>1. ASSUME NEW g \in Getters, GetLock(g) PROVE QInv'
  BY <1>1 DEF GetLock, Unlocked, OneInside, SawEmpty, ElementThere
<1>2. ASSUME NEW g \in Getters, CondWait(g) PROVE QInv'
  BY <1>2 DEF CondWait, OneInside, SawEmpty, ElementThere
<1>3. ASSUME NEW g \in Getters, SpuriousWakeup(g) PROVE QInv'
  BY <1>3 DEF SpuriousWakeup, OneInside, SawEmpty, ElementThere
<1>4. ASSUME NEW g \in Getters, Relock(g) PROVE QInv'
  BY <1>4 DEF Relock, Unlocked, OneInside, SawEmpty, ElementThere
<1>5. ASSUME NEW g \in Getters, GetFront(g) PROVE QInv'
  <2>1. QueueTypeOK' /\ OneInside' /\ SawEmpty'
    BY <1>5 DEF GetFront, Woken, OneInside, SawEmpty
  <2>2. ElementThere'
    BY <1>5 DEF GetFront, Woken, OneInside, ElementThere
  <2>3. QED
    BY <2>1, <2>2
<1>6. ASSUME NEW p \in Putters, PutPush(p) PROVE QInv'
  BY <1>6 DEF PutPush, Unlocked, OneInside, SawEmpty, ElementThere
<1>7. ASSUME NEW p \in Putters, PutNotify(p) PROVE QInv'
  BY <1>7 DEF PutNotify, Waiting, OneInside, SawEmpty, ElementThere
<1>8. CASE UNCHANGED qvars
  BY <1>8 DEF qvars, OneInside, SawEmpty, ElementThere
<1>9. QED
  BY <1>1, <1>2, <1>3, <1>4, <1>5, <1>6, <1>7, <1>8 DEF QueueNext, GetStep

(***************************************************************************)
(* Wakeups: a push adds an element and a notifier, a notify turns the      *)
(* notifier into a woken get, and a get takes itself and an element away.  *)
(***************************************************************************)
\* The sets that are counted are finite.
LEMMA Counting ==
  /\ IsFiniteSet(Taking) /\ Cardinality(Taking) \in Nat
  /\ IsFiniteSet(Notifying) /\ Cardinality(Notifying) \in Nat
  /\ IsFiniteSet(Taking') /\ Cardinality(Taking') \in Nat
  /\ IsFiniteSet(Notifying') /\ Cardinality(Notifying') \in Nat
<1>1. /\ Taking \subseteq Getters /\ Taking' \subseteq Getters
      /\ Notifying \subseteq Putters /\ Notifying' \subseteq Putters
  BY DEF Taking, Notifying
<1>2. QED
  BY <1>1, QueueAssumption, FS_Subset, FS_CardinalityType

\* Every step preserves ElementsHaveTakers.
LEMMA TakersStep == QInv /\ ElementsHaveTakers /\ [QueueNext]_qvars => ElementsHaveTakers'
<1> SUFFICES ASSUME QInv, ElementsHaveTakers, [QueueNext]_qvars
             PROVE  ElementsHaveTakers'
  OBVIOUS
<1> DEFINE t == Cardinality(Taking)
           n == Cardinality(Notifying)
<1>t. /\ data \in Nat
      /\ gpc \in [Getters -> {"out", "locked", "wait", "woken", "front"}]
      /\ ppc \in [Putters -> {"out", "pushed"}]
  BY DEF QInv, QueueTypeOK
<1>1. CASE /\ Waiting' \subseteq Waiting
           /\ Taking \subseteq Taking' /\ Notifying' = Notifying
           /\ data' = data
  <2>1. t <= Cardinality(Taking')
    BY <1>1, Counting, FS_Subset
  <2>2. QED
    BY <1>1, <1>t, <2>1, Counting DEF ElementsHaveTakers
<1>2. ASSUME NEW g \in Getters, GetLock(g) \/ SpuriousWakeup(g) \/ Relock(g)
      PROVE  ElementsHaveTakers'
  BY <1>1, <1>2, <1>t DEF GetLock, SpuriousWakeup, Relock, Waiting, Taking, Notifying
<1>3. ASSUME NEW g \in Getters, CondWait(g) PROVE ElementsHaveTakers'
  <2>1. data' = 0
    BY <1>3 DEF CondWait, QInv, SawEmpty
  <2>2. QED
    BY <2>1, Counting DEF ElementsHaveTakers
<1>4. ASSUME NEW g \in Getters, GetFront(g) PROVE ElementsHaveTakers'
  <2>1. Taking' = Taking \ {g} /\ g \in Taking
    BY <1>4, <1>t DEF GetFront, Taking
  <2>2. Notifying' = Notifying /\ Waiting' = Waiting
    BY <1>4, <1>t DEF GetFront, Notifying, Waiting
  <2>3. Cardinality(Taking') = t - 1
    BY <2>1, Counting, FS_RemoveElement
  <2>4. data' = IF data = 0 THEN 0 ELSE data - 1
    BY <1>4 DEF GetFront
  <2>5. QED
    BY <1>t, <2>2, <2>3, <2>4, Counting DEF ElementsHaveTakers
<1>5. ASSUME NEW p \in Putters, PutPush(p) PROVE ElementsHaveTakers'
  <2>1. Notifying' = Notifying \cup {p} /\ p \notin Notifying
    BY <1>5, <1>t DEF PutPush, Notifying
  <2>2. Taking' = Taking /\ Waiting' = Waiting /\ data' = data + 1
    BY <1>5 DEF PutPush, Taking, Waiting
  <2>3. Cardinality(Notifying') = n + 1
    BY <2>1, Counting, FS_AddElement
  <2>4. QED
    BY <1>t, <2>2, <2>3, Counting DEF ElementsHaveTakers
<1>6. ASSUME NEW p \in Putters, PutNotify(p) PROVE ElementsHaveTakers'
  <2>1. CASE Waiting = {}
    <3>1. Waiting' = {}
      BY <1>6, <2>1 DEF PutNotify, Waiting
    <3>2. QED
      BY <3>1 DEF ElementsHaveTakers
  <2>2. CASE Waiting # {}
    <3>1. PICK g \in Waiting : gpc' = [gpc EXCEPT ![g] = "woken"]
      BY <1>6, <2>2 DEF PutNotify
    <3>2. Taking' = Taking \cup {g} /\ g \notin Taking
      BY <1>t, <3>1 DEF Taking, Waiting
    <3>3. Notifying' = Notifying \ {p} /\ p \in Notifying
      BY <1>6, <1>t DEF PutNotify, Notifying
    <3>4. Cardinality(Taking') = t + 1 /\ Cardinality(Notifying') = n - 1
      BY <3>2, <3>3, Counting, FS_AddElement, FS_RemoveElement
    <3>5. data' = data
      BY <1>6 DEF PutNotify
    <3>6. QED
      BY <1>t, <2>2, <3>4, <3>5, Counting DEF ElementsHaveTakers
  <2>3. QED
    BY <2>1, <2>2
<1>7. CASE UNCHANGED qvars
  BY <1>1, <1>7 DEF qvars, Waiting, Taking, Notifying
<1>8. QED
  BY <1>2, <1>3, <1>4, <1>5, <1>6, <1>7 DEF QueueNext, GetStep

(***************************************************************************)
(* Multi.  Children are forked in order, so a fork never meets a process   *)
(* that was waited for; and the parent's pool holds exactly the children   *)
(* that have not been waited for.                                          *)
(***************************************************************************)
ForkedInOrder == \A p, q \in Procs : child[p] # "none" /\ q < p => child[q] # "none"

\* The loop index names a thread whenever there is a turn to take.
IndexOK == \A p \in Procs : child[p] = "poll" => idx[p] = 1 \/ idx[p] <= threadnum

Waited == /\ \A p \in Procs : p \in wpool <=> child[p] \notin {"none", "reaped"}
          /\ parent = "done" => wpool = {}

MInv == MultiTypeOK /\ ForkedInOrder /\ IndexOK /\ Waited

Where == {"none", "create", "poll", "returned", "exited", "crashed", "reaped"}

\* MInv holds in the initial state.
LEMMA MInvInit == MultiInit => MInv
<1> SUFFICES ASSUME MultiInit PROVE MInv
  OBVIOUS
<1> USE MultiAssumption DEF MultiInit, Procs, Threads
<1>1. MultiTypeOK
  BY DEF MultiTypeOK
<1>2. ForkedInOrder /\ IndexOK /\ Waited
  BY DEF ForkedInOrder, IndexOK, Waited
<1>3. QED
  BY <1>1, <1>2 DEF MInv

\* A process that is forked did not run before.
LEMMA ForkIsNew ==
  ASSUME MInv, NEW p \in Procs, Fork(p)
  PROVE  child[p] = "none"
<1> SUFFICES ASSUME child[p] # "none" PROVE FALSE
  OBVIOUS
<1>1. p \in Nat /\ p >= 1 /\ IsFiniteSet(Procs)
  BY MultiAssumption, FS_Interval DEF Procs
<1>2. IsFiniteSet(1..p) /\ Cardinality(1..p) = p
  BY <1>1, FS_Interval
<1>3. 1..p \subseteq Forked
  <2> SUFFICES ASSUME NEW q \in 1..p PROVE q \in Forked
    OBVIOUS
  <2>1. q \in Procs /\ (q < p \/ q = p)
    BY MultiAssumption DEF Procs
  <2>2. QED
    BY <2>1 DEF Forked, MInv, ForkedInOrder
<1>4. Forked \subseteq Procs
  BY DEF Forked
<1>5. IsFiniteSet(Forked)
  BY <1>1, <1>4, FS_Subset
<1>6. Cardinality(Forked) \in Nat /\ p <= Cardinality(Forked)
  BY <1>2, <1>3, <1>5, FS_Subset, FS_CardinalityType
<1>7. p = Cardinality(Forked) + 1
  BY DEF Fork
<1>8. QED
  BY <1>1, <1>6, <1>7

\* A parent's step that forks preserves MInv.
LEMMA ForkStep ==
  ASSUME MInv, NEW p \in Procs, Fork(p)
  PROVE  MInv'
<1>1. child[p] = "none"
  BY ForkIsNew
<1> USE DEF MInv
<1>2. MultiTypeOK'
  BY DEF MultiTypeOK, Fork
<1>3. child' = [child EXCEPT ![p] = "create"] /\ UNCHANGED <<pid, tpool, idx, thread>>
  BY DEF Fork
<1>t. child \in [Procs -> Where]
  BY DEF MultiTypeOK, Where
<1>4. IndexOK'
  BY <1>3, <1>t DEF IndexOK
<1>5. Waited'
  BY <1>1, <1>3, <1>t DEF Waited, Fork
<1>6. ForkedInOrder'
  <2> SUFFICES ASSUME NEW r \in Procs, NEW q \in Procs, child'[r] # "none", q < r
               PROVE  child'[q] # "none"
    BY DEF ForkedInOrder
  <2>1. CASE r # p
    BY <2>1, <1>3, <1>t DEF ForkedInOrder
  <2>2. CASE r = p /\ q # p
    <3> SUFFICES ASSUME child[q] = "none" PROVE FALSE
      BY <2>2, <1>3, <1>t
    <3>1. p \in Nat /\ q \in Nat /\ q >= 1 /\ q < p
      BY <2>2, MultiAssumption DEF Procs
    <3>2. Forked \subseteq 1..(q - 1)
      <4> SUFFICES ASSUME NEW s \in Forked PROVE s \in 1..(q - 1)
        OBVIOUS
      <4>1. s \in Procs /\ child[s] # "none" /\ s \in Nat /\ s >= 1
        BY MultiAssumption DEF Forked, Procs
      <4>2. ~(q < s) /\ s # q
        BY <4>1 DEF ForkedInOrder
      <4>3. QED
        BY <3>1, <4>1, <4>2
    <3>3. IsFiniteSet(1..(q - 1)) /\ Cardinality(1..(q - 1)) = q - 1
      <4>1. PICK m \in Nat : m = q - 1
        BY <3>1
      <4>2. IsFiniteSet(1..m) /\ Cardinality(1..m) = m
        BY <4>1, FS_Interval
      <4>3. QED
        BY <4>1, <4>2
    <3>4. IsFiniteSet(Forked) /\ Cardinality(Forked) <= q - 1
      BY <3>2, <3>3, FS_Subset
    <3>5. Cardinality(Forked) \in Nat /\ p = Cardinality(Forked) + 1
      BY <3>4, FS_CardinalityType DEF Fork
    <3>6. QED
      BY <3>1, <3>4, <3>5
  <2>3. QED
    BY <2>1, <2>2, MultiAssumption DEF Procs
<1>7. QED
  BY <1>2, <1>4, <1>5, <1>6

\* The steps of the parent that fork nothing preserve MInv.
LEMMA ParentStepInv ==
  ASSUME MInv, \/ ForkEnds \/ EnvFails \/ WatchEnds
               \/ \E p \in Procs : WaitChild(p)
  PROVE  MInv'
<1> USE DEF MInv
<1>1. CASE ForkEnds \/ EnvFails \/ WatchEnds
  <2>1. /\ UNCHANGED <<gone, wpool, child, pid, tpool, idx, thread>>
        /\ parent' \in {"watch", "done"}
    BY <1>1 DEF ForkEnds, EnvFails, WatchEnds
  <2>2. parent' = "done" => wpool = {}
    <3>1. CASE EnvFails
      BY <3>1 DEF EnvFails, Forked, Waited, MultiTypeOK
    <3>2. CASE ForkEnds \/ WatchEnds
      BY <3>2 DEF ForkEnds, WatchEnds
    <3>3. QED
      BY <1>1, <3>1, <3>2
  <2>3. QED
    BY <2>1, <2>2 DEF MultiTypeOK, ForkedInOrder, IndexOK, Waited
<1>2. ASSUME NEW p \in Procs, WaitChild(p) PROVE MInv'
  <2>1. /\ child[p] # "none" /\ child' = [child EXCEPT ![p] = "reaped"]
        /\ parent = "watch" /\ wpool' = wpool \ {p}
        /\ UNCHANGED <<parent, pid, tpool, idx, thread>>
    BY <1>2 DEF WaitChild
  <2>t. child \in [Procs -> Where]
    BY DEF MultiTypeOK, Where
  <2>2. MultiTypeOK'
    BY <1>2 DEF MultiTypeOK, WaitChild
  <2>3. ForkedInOrder' /\ IndexOK' /\ Waited'
    BY <2>1, <2>t DEF ForkedInOrder, IndexOK, Waited
  <2>4. QED
    BY <2>2, <2>3
<1>3. QED
  BY <1>1, <1>2

\* A two-level function that is updated at one place keeps its type.
LEMMA UpdatedIn ==
  ASSUME NEW A, NEW B, NEW C, NEW f \in [A -> [B -> C]], NEW a \in A, NEW b \in B, NEW x \in C
  PROVE  /\ [f EXCEPT ![a][b] = x] \in [A -> [B -> C]]
         /\ [f EXCEPT ![a][b] = x][a][b] = x
         /\ \A d \in A, e \in B : d # a \/ e # b => [f EXCEPT ![a][b] = x][d][e] = f[d][e]
OBVIOUS

\* A child's step that leaves the parent alone and lets the child go on
\* preserves what MInv says of them.
LEMMA ChildGoesOn ==
  ASSUME MInv, NEW p \in Procs, NEW w \in Where,
         child[p] \notin {"none", "reaped"}, w \notin {"none", "reaped"},
         child' = [child EXCEPT ![p] = w], UNCHANGED <<parent, wpool>>
  PROVE  /\ child' \in [Procs -> Where] /\ ForkedInOrder' /\ Waited'
         /\ child'[p] = w /\ \A d \in Procs : d # p => child'[d] = child[d]
<1>1. child \in [Procs -> Where]
  BY DEF MInv, MultiTypeOK, Where
<1>2. /\ child' \in [Procs -> Where] /\ child'[p] = w
      /\ \A d \in Procs : d # p => child'[d] = child[d]
  BY <1>1
<1>3. QED
  BY <1>2 DEF MInv, ForkedInOrder, Waited

\* Starting a thread, or failing to, preserves MInv.
LEMMA CreateThreadStep ==
  ASSUME MInv, NEW p \in Procs, CreateThread(p)
  PROVE  MInv'
<1> USE DEF MInv
<1> DEFINE States == {"none", "failed", "running", "ended", "killed"}
<1>t. /\ thread \in [Procs -> [Threads -> States]]
      /\ pid \in [Procs -> [Threads -> Threads]]
      /\ tpool \in [Procs -> SUBSET Threads]
      /\ idx \in [Procs -> 1..threadnum + 1]
  BY DEF MultiTypeOK
<1>1. idx[p] \in Threads
  BY <1>t, MultiAssumption DEF CreateThread, Threads
<1>2. idx' = [idx EXCEPT ![p] = @ + 1] /\ UNCHANGED <<gone, parent, wpool, child>>
  BY DEF CreateThread
<1>3. child[p] = "create"
  BY DEF CreateThread
<1>4. idx' \in [Procs -> 1..threadnum + 1]
  BY <1>t, <1>1, <1>2, MultiAssumption DEF Threads
<1>5. ForkedInOrder' /\ IndexOK' /\ Waited'
  BY <1>t, <1>2, <1>3 DEF ForkedInOrder, IndexOK, Waited
<1>6. ASSUME NEW id \in FreeIds(p),
             thread' = [thread EXCEPT ![p][idx[p]] = "running"],
             pid' = [pid EXCEPT ![p][idx[p]] = id],
             tpool' = [tpool EXCEPT ![p] = @ \cup {id}]
      PROVE  MultiTypeOK'
  <2>1. id \in Threads
    BY <1>t, <1>1, MultiAssumption DEF FreeIds, Threads
  <2>2. thread' \in [Procs -> [Threads -> States]]
    BY <1>t, <1>1, <1>6, UpdatedIn
  <2>3. pid' \in [Procs -> [Threads -> Threads]]
    BY <1>t, <1>1, <2>1, <1>6, UpdatedIn
  <2>4. tpool' \in [Procs -> SUBSET Threads]
    BY <1>t, <1>6, <2>1
  <2>5. QED
    BY <1>2, <1>4, <2>2, <2>3, <2>4 DEF MultiTypeOK
<1>7. CASE thread' = [thread EXCEPT ![p][idx[p]] = "failed"] /\ UNCHANGED <<pid, tpool>>
  <2>1. thread' \in [Procs -> [Threads -> States]]
    BY <1>t, <1>1, <1>7, UpdatedIn
  <2>2. MultiTypeOK'
    BY <1>2, <1>4, <1>7, <2>1 DEF MultiTypeOK
  <2>3. QED
    BY <1>5, <2>2
<1>8. QED
  BY <1>5, <1>6, <1>7 DEF CreateThread

\* A turn of the poll loop preserves MInv: the index comes back to 1.
LEMMA PollStep ==
  ASSUME MInv, NEW p \in Procs, Poll(p)
  PROVE  MInv'
<1> USE DEF MInv
<1>t. /\ tpool \in [Procs -> SUBSET Threads]
      /\ idx \in [Procs -> 1..threadnum + 1]
  BY DEF MultiTypeOK
<1>1. child[p] = "poll" /\ UNCHANGED <<gone, parent, pid, wpool, child, thread>>
  BY DEF Poll
<1>2. threadnum >= 1
  <2>1. CASE tpool[p] # {}
    BY <2>1, <1>t, MultiAssumption DEF Threads
  <2>2. CASE idx[p] > 1
    BY <2>2, <1>1, <1>t, MultiAssumption DEF IndexOK
  <2>3. QED
    BY <2>1, <2>2 DEF Poll
<1>3. idx[p] \in Threads
  BY <1>1, <1>2, <1>t, MultiAssumption DEF IndexOK, Threads
<1> DEFINE id == pid[p][idx[p]]
<1>4. tpool' = [tpool EXCEPT ![p] = @ \ {id}] \/ tpool' = [tpool EXCEPT ![p] = @]
  BY DEF Poll
<1> HIDE DEF id
<1>5. tpool' \in [Procs -> SUBSET Threads]
  BY <1>t, <1>4
<1>6. (idx[p] % threadnum) + 1 \in 1..threadnum
  BY <1>2, <1>3, MultiAssumption DEF Threads
<1>7. idx' = [idx EXCEPT ![p] = (idx[p] % threadnum) + 1]
  BY DEF Poll
<1>8. idx' \in [Procs -> 1..threadnum + 1] /\ IndexOK'
  BY <1>1, <1>6, <1>7, <1>t, MultiAssumption DEF IndexOK
<1>9. MultiTypeOK'
  BY <1>1, <1>5, <1>8 DEF MultiTypeOK
<1>10. ForkedInOrder' /\ Waited'
  BY <1>1 DEF ForkedInOrder, Waited
<1>11. QED
  BY <1>8, <1>9, <1>10

\* The end of a process preserves MInv: it stays in the pool of its parent.
LEMMA EndStep ==
  ASSUME MInv, NEW p \in Procs, CallerExits(p) \/ PollCrashes(p)
  PROVE  MInv'
<1> USE DEF MInv
<1> DEFINE States == {"none", "failed", "running", "ended", "killed"}
<1>t. thread \in [Procs -> [Threads -> States]]
  BY DEF MultiTypeOK
<1>1. PICK how \in {"exited", "crashed"} :
        /\ child' = [child EXCEPT ![p] = how]
        /\ thread' = [thread EXCEPT ![p] =
             [t \in Threads |-> IF thread[p][t] = "running" THEN "killed" ELSE thread[p][t]]]
  BY DEF CallerExits, PollCrashes, EndProcess
<1>2. /\ child[p] \in {"returned", "poll"}
      /\ UNCHANGED <<gone, parent, pid, wpool, tpool, idx>>
  BY DEF CallerExits, PollCrashes
<1>3. thread' \in [Procs -> [Threads -> States]]
  BY <1>t, <1>1
<1>4. /\ child' \in [Procs -> Where] /\ ForkedInOrder' /\ Waited'
      /\ child'[p] = how /\ \A d \in Procs : d # p => child'[d] = child[d]
  BY <1>1, <1>2, ChildGoesOn DEF Where
<1>5. MultiTypeOK' /\ IndexOK'
  BY <1>2, <1>3, <1>4 DEF MultiTypeOK, IndexOK, Where
<1>6. QED
  BY <1>4, <1>5

\* Every step preserves MInv: one step of the proof per action.
LEMMA MInvStep == MInv /\ [MultiNext]_mvars => MInv'
<1> SUFFICES ASSUME MInv, [MultiNext]_mvars PROVE MInv'
  OBVIOUS
<1>1. ASSUME NEW p \in Procs, CreateEnds(p) PROVE MInv'
  <2>1. /\ child[p] = "create"
        /\ child' = [child EXCEPT ![p] = "poll"] /\ idx' = [idx EXCEPT ![p] = 1]
        /\ UNCHANGED <<gone, parent, pid, wpool, tpool, thread>>
    BY <1>1 DEF CreateEnds
  <2>2. idx \in [Procs -> 1..threadnum + 1]
    BY DEF MInv, MultiTypeOK
  <2>3. /\ child' \in [Procs -> Where] /\ ForkedInOrder' /\ Waited'
        /\ child'[p] = "poll" /\ \A d \in Procs : d # p => child'[d] = child[d]
    BY <2>1, ChildGoesOn DEF Where
  <2>4. MultiTypeOK'
    BY <2>1, <2>3, MultiAssumption DEF MInv, MultiTypeOK, Where
  <2>5. IndexOK'
    BY <2>1, <2>2, <2>3 DEF MInv, IndexOK
  <2>6. QED
    BY <2>3, <2>4, <2>5 DEF MInv
<1>2. ASSUME NEW p \in Procs, NEW t \in Threads, ThreadEnds(p, t) PROVE MInv'
  <2>1. /\ thread' = [thread EXCEPT ![p][t] = "ended"]
        /\ UNCHANGED <<gone, parent, pid, wpool, child, tpool, idx>>
    BY <1>2 DEF ThreadEnds
  <2>2. thread \in [Procs -> [Threads -> {"none", "failed", "running", "ended", "killed"}]]
    BY DEF MInv, MultiTypeOK
  <2>3. thread' \in [Procs -> [Threads -> {"none", "failed", "running", "ended", "killed"}]]
    BY <2>1, <2>2, UpdatedIn
  <2>4. QED
    BY <2>1, <2>3 DEF MInv, MultiTypeOK, ForkedInOrder, IndexOK, Waited
<1>3. ASSUME NEW p \in Procs, PollEnds(p) PROVE MInv'
  <2>1. /\ child[p] = "poll" /\ child' = [child EXCEPT ![p] = "returned"]
        /\ UNCHANGED <<gone, parent, pid, wpool, tpool, idx, thread>>
    BY <1>3 DEF PollEnds
  <2>2. /\ child' \in [Procs -> Where] /\ ForkedInOrder' /\ Waited'
        /\ child'[p] = "returned" /\ \A d \in Procs : d # p => child'[d] = child[d]
    BY <2>1, ChildGoesOn DEF Where
  <2>3. MultiTypeOK' /\ IndexOK'
    BY <2>1, <2>2 DEF MInv, MultiTypeOK, IndexOK, Where
  <2>4. QED
    BY <2>2, <2>3 DEF MInv
<1>4. CASE UNCHANGED mvars
  BY <1>4 DEF mvars, MInv, MultiTypeOK, ForkedInOrder, IndexOK, Waited
<1>5. QED
  BY <1>1, <1>2, <1>3, <1>4, ForkStep, ParentStepInv, CreateThreadStep, PollStep, EndStep
     DEF MultiNext, ParentStep, ChildStep

(***************************************************************************)
(* WatchDog.  pool and the processes name each other; the CPUs without a   *)
(* worker are those in the queue, once each; and the scan has not passed   *)
(* beyond a CPU it queued, so it never waits for pid 0.                    *)
(***************************************************************************)
Known == /\ \A p \in Pids : proc[p].state # "free" => wdpool[proc[p].cpu] = p
         /\ \A c \in Cpus : wdpool[c] # 0 => /\ proc[wdpool[c]].state # "free"
                                             /\ proc[wdpool[c]].cpu = c

QueuedOnce ==
  /\ \A i \in 1..Len(myqueue) : wdpool[myqueue[i]] = 0
  /\ \A c \in Cpus : wdpool[c] = 0 => \E i \in 1..Len(myqueue) : myqueue[i] = c
  /\ \A i, j \in 1..Len(myqueue) : myqueue[i] = myqueue[j] => i = j

ScanAhead == dog = "scan" => \A i \in 1..Len(myqueue) : myqueue[i] < scan

DInv == DogTypeOK /\ Known /\ QueuedOnce /\ ScanAhead

\* DInv holds in the initial state.
LEMMA DInvInit == DogInit => DInv
<1> SUFFICES ASSUME DogInit PROVE DInv
  OBVIOUS
<1> USE DogAssumption
<1>1. myqueue \in Seq(Cpus) /\ Len(myqueue) = cpunum
      /\ \A i \in 1..cpunum : myqueue[i] = i - 1
  BY DEF DogInit, Cpus
<1>2. DogTypeOK
  BY <1>1 DEF DogTypeOK, DogInit, Cpus
<1>3. Known /\ ScanAhead
  BY DEF Known, ScanAhead, DogInit
<1>4. wdpool = [c \in Cpus |-> 0]
  BY DEF DogInit
<1>5. \A i \in 1..Len(myqueue) : wdpool[myqueue[i]] = 0
  BY <1>1, <1>4 DEF Cpus
<1>6. ASSUME NEW c \in Cpus PROVE \E i \in 1..Len(myqueue) : myqueue[i] = c
  <2>1. c + 1 \in 1..cpunum /\ (c + 1) - 1 = c
    BY DEF Cpus
  <2>2. QED
    BY <1>1, <2>1
<1>7. \A i, j \in 1..Len(myqueue) : myqueue[i] = myqueue[j] => i = j
  BY <1>1
<1>8. QED
  BY <1>2, <1>3, <1>5, <1>6, <1>7 DEF DInv, QueuedOnce

\* What the tail of a queue holds.
LEMMA TailOf ==
  ASSUME NEW S, NEW q \in Seq(S), q # <<>>
  PROVE  /\ Tail(q) \in Seq(S) /\ Len(Tail(q)) = Len(q) - 1
         /\ Head(q) = q[1] /\ Head(q) \in S /\ Len(q) \in Nat /\ Len(q) >= 1
         /\ \A i \in 1..Len(q) - 1 : Tail(q)[i] = q[i + 1]
BY EmptySeq, HeadTailProperties

\* Starting a worker preserves DInv.
LEMMA StartWorkerStep ==
  ASSUME DInv, StartWorker
  PROVE  DInv'
<1> USE DEF DInv
<1>t. /\ myqueue \in Seq(Cpus) /\ wdpool \in [Cpus -> Pids \cup {0}]
      /\ proc \in [Pids -> [state : {"free", "alive", "zombie"}, cpu : Cpus]]
  BY DEF DogTypeOK
<1> DEFINE c == Head(myqueue)
<1>1. PICK p \in Pids : /\ proc[p].state = "free"
                        /\ proc' = [proc EXCEPT ![p] = [state |-> "alive", cpu |-> c]]
                        /\ wdpool' = [wdpool EXCEPT ![c] = p]
  BY DEF StartWorker
<1>2. /\ dog = "fork" /\ myqueue # <<>> /\ myqueue' = Tail(myqueue) /\ UNCHANGED <<dog, scan>>
  BY DEF StartWorker
<1>3. /\ myqueue' \in Seq(Cpus) /\ Len(myqueue') = Len(myqueue) - 1
      /\ c = myqueue[1] /\ c \in Cpus /\ Len(myqueue) \in Nat /\ Len(myqueue) >= 1
      /\ \A i \in 1..Len(myqueue) - 1 : myqueue'[i] = myqueue[i + 1]
  BY <1>t, <1>2, TailOf
<1> HIDE DEF c
<1>4. /\ wdpool' \in [Cpus -> Pids \cup {0}] /\ wdpool'[c] = p
      /\ \A d \in Cpus : d # c => wdpool'[d] = wdpool[d]
  BY <1>t, <1>1, <1>3
<1>5. /\ proc' \in [Pids -> [state : {"free", "alive", "zombie"}, cpu : Cpus]]
      /\ proc'[p] = [state |-> "alive", cpu |-> c]
      /\ \A r \in Pids : r # p => proc'[r] = proc[r]
  BY <1>t, <1>1, <1>3
<1>6. DogTypeOK'
  BY <1>2, <1>3, <1>4, <1>5 DEF DogTypeOK
<1>7. wdpool[c] = 0 /\ p # 0
  <2>1. 1 \in 1..Len(myqueue)
    BY <1>3
  <2>2. QED
    BY <1>3, <2>1, DogAssumption DEF QueuedOnce
<1>8. Known'
  <2>1. ASSUME NEW r \in Pids, proc'[r].state # "free" PROVE wdpool'[proc'[r].cpu] = r
    <3>1. CASE r = p
      BY <3>1, <1>4, <1>5
    <3>2. CASE r # p
      <4>1. proc'[r] = proc[r] /\ wdpool[proc[r].cpu] = r
        BY <2>1, <3>2, <1>5 DEF Known
      <4>2. r # 0 /\ proc[r].cpu \in Cpus
        BY DogAssumption, <1>t
      <4>3. QED
        BY <4>1, <4>2, <1>4, <1>7
    <3>3. QED
      BY <3>1, <3>2
  <2>2. ASSUME NEW d \in Cpus, wdpool'[d] # 0
        PROVE  proc'[wdpool'[d]].state # "free" /\ proc'[wdpool'[d]].cpu = d
    <3>1. CASE d = c
      BY <3>1, <1>4, <1>5
    <3>2. CASE d # c
      <4>1. wdpool'[d] = wdpool[d] /\ wdpool[d] \in Pids
        BY <1>t, <2>2, <3>2, <1>4
      <4>2. proc[wdpool[d]].state # "free" /\ proc[wdpool[d]].cpu = d
        BY <2>2, <4>1 DEF Known
      <4>3. QED
        BY <1>1, <1>5, <4>1, <4>2
    <3>3. QED
      BY <3>1, <3>2
  <2>3. QED
    BY <2>1, <2>2 DEF Known
<1>9. QueuedOnce'
  <2>1. ASSUME NEW i \in 1..Len(myqueue')
        PROVE  i + 1 \in 1..Len(myqueue) /\ i + 1 # 1 /\ myqueue'[i] = myqueue[i + 1]
    BY <1>3
  <2>2. ASSUME NEW i \in 1..Len(myqueue') PROVE wdpool'[myqueue'[i]] = 0
    <3>1. myqueue[i + 1] # myqueue[1] /\ wdpool[myqueue[i + 1]] = 0
      BY <1>3, <2>1 DEF QueuedOnce
    <3>2. myqueue[i + 1] \in Cpus
      BY <1>t, <2>1, ElementOfSeq
    <3>3. QED
      BY <1>3, <1>4, <2>1, <3>1, <3>2
  <2>3. ASSUME NEW d \in Cpus, wdpool'[d] = 0 PROVE \E i \in 1..Len(myqueue') : myqueue'[i] = d
    <3>1. d # c /\ wdpool[d] = 0
      BY <2>3, <1>4, <1>7
    <3>2. PICK j \in 1..Len(myqueue) : myqueue[j] = d
      BY <3>1 DEF QueuedOnce
    <3>3. j # 1
      BY <1>3, <3>1, <3>2
    <3>4. j - 1 \in 1..Len(myqueue') /\ (j - 1) + 1 = j
      BY <1>3, <3>2, <3>3
    <3>5. QED
      BY <2>1, <3>2, <3>4
  <2>4. ASSUME NEW i \in 1..Len(myqueue'), NEW j \in 1..Len(myqueue'), myqueue'[i] = myqueue'[j]
        PROVE  i = j
    <3>1. i + 1 = j + 1
      BY <2>1, <2>4 DEF QueuedOnce
    <3>2. QED
      BY <3>1
  <2>5. QED
    BY <2>2, <2>3, <2>4 DEF QueuedOnce
<1>10. ScanAhead'
  BY <1>2 DEF ScanAhead
<1>11. QED
  BY <1>6, <1>8, <1>9, <1>10

\* A turn of the scan preserves DInv.
LEMMA ScanCpuStep ==
  ASSUME DInv, ScanCpu
  PROVE  DInv'
<1> USE DEF DInv
<1>t. /\ myqueue \in Seq(Cpus) /\ wdpool \in [Cpus -> Pids \cup {0}]
      /\ proc \in [Pids -> [state : {"free", "alive", "zombie"}, cpu : Cpus]]
      /\ scan \in 0..cpunum
  BY DEF DogTypeOK
<1>1. dog = "scan" /\ scan < cpunum /\ scan' = scan + 1 /\ dog' = dog
  BY DEF ScanCpu
<1>2. /\ scan \in Cpus /\ scan' \in 0..cpunum
      /\ \A x \in Int : x < scan => x < scan'
  BY <1>1, <1>t, DogAssumption DEF Cpus
<1> DEFINE w == wdpool[scan]
<1>3. \A i \in 1..Len(myqueue) : myqueue[i] \in Cpus /\ myqueue[i] < scan /\ myqueue[i] \in Int
  <2> SUFFICES ASSUME NEW i \in 1..Len(myqueue)
               PROVE  myqueue[i] \in Cpus /\ myqueue[i] < scan /\ myqueue[i] \in Int
    OBVIOUS
  <2>1. myqueue[i] \in Cpus
    BY <1>t, ElementOfSeq
  <2>2. myqueue[i] < scan
    BY <1>1 DEF ScanAhead
  <2>3. myqueue[i] \in Int
    BY <2>1 DEF Cpus
  <2>4. QED
    BY <2>1, <2>2, <2>3
<1>4. w # 0
  <2> SUFFICES ASSUME w = 0 PROVE FALSE
    OBVIOUS
  <2>1. PICK i \in 1..Len(myqueue) : myqueue[i] = scan
    BY <1>2 DEF QueuedOnce
  <2>2. QED
    BY <1>3, <2>1
<1>5. w \in Pids /\ proc[w].state # "free" /\ proc[w].cpu = scan
  BY <1>2, <1>4, <1>t DEF Known
<1>6. CASE WaitPid(w) = w
  <2>1. /\ proc' = [proc EXCEPT ![w].state = "free"]
        /\ wdpool' = [wdpool EXCEPT ![scan] = 0]
        /\ myqueue' = Append(myqueue, scan)
    BY <1>6 DEF ScanCpu
  <2> HIDE DEF w
  <2>2. /\ wdpool' \in [Cpus -> Pids \cup {0}] /\ wdpool'[scan] = 0
        /\ \A d \in Cpus : d # scan => wdpool'[d] = wdpool[d]
    BY <1>t, <1>2, <2>1
  <2>3. /\ proc' \in [Pids -> [state : {"free", "alive", "zombie"}, cpu : Cpus]]
        /\ proc'[w].state = "free"
        /\ \A r \in Pids : r # w => proc'[r] = proc[r]
    BY <1>t, <1>5, <2>1
  <2>4. /\ myqueue' \in Seq(Cpus) /\ Len(myqueue') = Len(myqueue) + 1 /\ Len(myqueue) \in Nat
        /\ \A i \in 1..Len(myqueue) : myqueue'[i] = myqueue[i]
        /\ myqueue'[Len(myqueue) + 1] = scan
    BY <1>t, <1>2, <2>1, AppendProperties, LenProperties
  <2>5. DogTypeOK'
    BY <1>1, <1>2, <2>2, <2>3, <2>4 DEF DogTypeOK
  <2>6. \A i \in 1..Len(myqueue') : i \in 1..Len(myqueue) \/ i = Len(myqueue) + 1
    BY <2>4
  <2>7. Known'
    <3>1. ASSUME NEW r \in Pids, proc'[r].state # "free" PROVE wdpool'[proc'[r].cpu] = r
      <4>1. r # w /\ proc'[r] = proc[r] /\ wdpool[proc[r].cpu] = r /\ proc[r].cpu \in Cpus
        BY <1>t, <2>3, <3>1 DEF Known
      <4>2. proc[r].cpu # scan
        BY <4>1 DEF w
      <4>3. QED
        BY <2>2, <4>1, <4>2
    <3>2. ASSUME NEW d \in Cpus, wdpool'[d] # 0
          PROVE  proc'[wdpool'[d]].state # "free" /\ proc'[wdpool'[d]].cpu = d
      <4>1. d # scan /\ wdpool'[d] = wdpool[d] /\ wdpool[d] \in Pids
        BY <1>t, <2>2, <3>2
      <4>2. proc[wdpool[d]].state # "free" /\ proc[wdpool[d]].cpu = d
        BY <3>2, <4>1 DEF Known
      <4>3. wdpool[d] # w
        BY <1>5, <4>1, <4>2
      <4>4. QED
        BY <2>3, <4>1, <4>2, <4>3
    <3>3. QED
      BY <3>1, <3>2 DEF Known
  <2>8. ScanAhead'
    <3> SUFFICES ASSUME NEW i \in 1..Len(myqueue') PROVE myqueue'[i] < scan'
      BY DEF ScanAhead
    <3>1. CASE i \in 1..Len(myqueue)
      BY <1>2, <1>3, <2>4, <3>1
    <3>2. CASE i = Len(myqueue) + 1
      BY <1>1, <1>t, <2>4, <3>2
    <3>3. QED
      BY <2>6, <3>1, <3>2
  <2>9. QueuedOnce'
    <3>1. ASSUME NEW i \in 1..Len(myqueue') PROVE wdpool'[myqueue'[i]] = 0
      <4>1. CASE i \in 1..Len(myqueue)
        BY <1>3, <2>2, <2>4, <4>1 DEF QueuedOnce
      <4>2. CASE i = Len(myqueue) + 1
        BY <2>2, <2>4, <4>2
      <4>3. QED
        BY <2>6, <4>1, <4>2
    <3>2. ASSUME NEW d \in Cpus, wdpool'[d] = 0
          PROVE  \E i \in 1..Len(myqueue') : myqueue'[i] = d
      <4>1. CASE d = scan
        <5>1. Len(myqueue) + 1 \in 1..Len(myqueue')
          BY <2>4
        <5>2. QED
          BY <2>4, <4>1, <5>1
      <4>2. CASE d # scan
        <5>1. PICK i \in 1..Len(myqueue) : myqueue[i] = d
          BY <2>2, <3>2, <4>2 DEF QueuedOnce
        <5>2. i \in 1..Len(myqueue')
          BY <2>4
        <5>3. QED
          BY <2>4, <5>1, <5>2
      <4>3. QED
        BY <4>1, <4>2
    <3>3. ASSUME NEW i \in 1..Len(myqueue'), NEW j \in 1..Len(myqueue'), myqueue'[i] = myqueue'[j]
          PROVE  i = j
      <4>1. CASE i \in 1..Len(myqueue) /\ j \in 1..Len(myqueue)
        BY <2>4, <3>3, <4>1 DEF QueuedOnce
      <4>2. \A k \in 1..Len(myqueue) : myqueue'[k] # scan
        BY <1>3, <1>t, <2>4
      <4>3. QED
        BY <2>4, <2>6, <3>3, <4>1, <4>2
    <3>4. QED
      BY <3>1, <3>2, <3>3 DEF QueuedOnce
  <2>10. QED
    BY <2>5, <2>7, <2>8, <2>9
<1>7. CASE WaitPid(w) # w
  <2>1. UNCHANGED <<proc, wdpool, myqueue>>
    BY <1>7 DEF ScanCpu
  <2>2. ScanAhead'
    BY <1>2, <1>3, <2>1 DEF ScanAhead
  <2>3. DogTypeOK' /\ Known' /\ QueuedOnce'
    BY <1>1, <1>2, <2>1 DEF DogTypeOK, Known, QueuedOnce
  <2>4. QED
    BY <2>2, <2>3
<1>8. QED
  BY <1>6, <1>7

\* Every step preserves DInv: one step of the proof per action.
LEMMA DInvStep == DInv /\ [DogNext]_dvars => DInv'
<1> SUFFICES ASSUME DInv, [DogNext]_dvars PROVE DInv'
  OBVIOUS
<1> USE DEF DInv
<1>t. /\ myqueue \in Seq(Cpus) /\ wdpool \in [Cpus -> Pids \cup {0}]
      /\ proc \in [Pids -> [state : {"free", "alive", "zombie"}, cpu : Cpus]]
  BY DEF DogTypeOK
<1>1. CASE StartFails \/ StartEnds \/ ScanEnds \/ Sleep
  <2>1. UNCHANGED <<myqueue, wdpool, proc>>
    BY <1>1 DEF StartFails, StartEnds, ScanEnds, Sleep
  <2>2. Known' /\ QueuedOnce'
    BY <2>1 DEF Known, QueuedOnce
  <2>3. dog' \in {"fork", "scan", "sleep", "exited"} /\ scan' \in 0..cpunum
    BY <1>1, DogAssumption DEF DogTypeOK, StartFails, StartEnds, ScanEnds, Sleep
  <2>4. dog' = "scan" => myqueue = <<>>
    BY <1>1 DEF StartFails, StartEnds, ScanEnds, Sleep
  <2>5. ScanAhead'
    <3> SUFFICES ASSUME dog' = "scan", NEW i \in 1..Len(myqueue) PROVE FALSE
      BY <2>1 DEF ScanAhead
    <3>1. Len(myqueue) = 0
      BY <2>4
    <3>2. QED
      BY <3>1
  <2>6. QED
    BY <1>t, <2>1, <2>2, <2>3, <2>5 DEF DogTypeOK
<1>2. ASSUME NEW p \in Pids, WorkerDies(p) PROVE DInv'
  <2>1. /\ proc[p].state = "alive" /\ proc' = [proc EXCEPT ![p].state = "zombie"]
        /\ UNCHANGED <<dog, myqueue, wdpool, scan>>
    BY <1>2 DEF WorkerDies
  <2>2. /\ proc' \in [Pids -> [state : {"free", "alive", "zombie"}, cpu : Cpus]]
        /\ \A r \in Pids : /\ proc'[r].cpu = proc[r].cpu
                           /\ proc'[r].state = "free" <=> proc[r].state = "free"
    BY <1>t, <2>1
  <2>3. DogTypeOK' /\ QueuedOnce' /\ ScanAhead'
    BY <2>1, <2>2 DEF DogTypeOK, QueuedOnce, ScanAhead
  <2>4. Known'
    <3>1. \A c \in Cpus : wdpool[c] # 0 => wdpool[c] \in Pids
      BY <1>t
    <3>2. QED
      BY <2>1, <2>2, <3>1 DEF Known
  <2>5. QED
    BY <2>3, <2>4
<1>3. CASE UNCHANGED dvars
  BY <1>3 DEF dvars, DogTypeOK, Known, QueuedOnce, ScanAhead
<1>4. QED
  BY <1>1, <1>2, <1>3, StartWorkerStep, ScanCpuStep DEF DogNext, DogStep

\* What DInv says of indices is what OneWorkerPerCpu says of sets.
LEMMA DInvWorkers == DInv => OneWorkerPerCpu
<1> SUFFICES ASSUME DInv, NEW c \in Cpus
             PROVE  \/ Unreaped(c) = {wdpool[c]} /\ Queued(c) = {}
                    \/ Unreaped(c) = {} /\ wdpool[c] = 0 /\ Cardinality(Queued(c)) = 1
  BY DEF OneWorkerPerCpu
<1>t. /\ wdpool \in [Cpus -> Pids \cup {0}]
      /\ proc \in [Pids -> [state : {"free", "alive", "zombie"}, cpu : Cpus]]
  BY DEF DInv, DogTypeOK
<1>1. CASE wdpool[c] # 0
  <2>1. Unreaped(c) = {wdpool[c]}
    BY <1>t, <1>1 DEF DInv, Known, Unreaped
  <2>2. Queued(c) = {}
    BY <1>1 DEF DInv, QueuedOnce, Queued
  <2>3. QED
    BY <2>1, <2>2
<1>2. CASE wdpool[c] = 0
  <2>1. Unreaped(c) = {}
    <3>1. 0 \notin Pids
      BY DogAssumption
    <3>2. QED
      BY <1>2, <3>1 DEF DInv, Known, Unreaped
  <2>2. PICK i \in 1..Len(myqueue) : myqueue[i] = c
    BY <1>2 DEF DInv, QueuedOnce
  <2>3. Queued(c) = {i}
    BY <2>2 DEF DInv, QueuedOnce, Queued
  <2>4. Cardinality(Queued(c)) = 1
    BY <2>3, FS_Singleton
  <2>5. QED
    BY <1>2, <2>1, <2>4
<1>3. QED
  BY <1>1, <1>2

(***************************************************************************)
(* SnmpAgent.  Each channel is in the map for exactly one client, whose    *)
(* packets are the only ones in it; the dispatcher holds one packet while  *)
(* it looks for a channel, and then has the channel of its client.         *)
(***************************************************************************)
Dispatching ==
  /\ pc = "read" => packet = <<>>
  /\ pc # "read" => Len(packet) = 1
  /\ pc = "send" => clientChan # 0 /\ clientChan = clientRequests[packet[1].from]

OneChannelEach ==
  \A c, d \in Clients : clientRequests[c] = clientRequests[d] /\ clientRequests[c] # 0 => c = d

\* Where a handler is, and whether it has a packet.
AtWork(k) == /\ k.at = "range" => k.work = <<>>
             /\ k.at # "range" => Len(k.work) = 1

Own(c) == [from : {c}, n : Nat]

\* A channel belongs to a client, and holds packets of that client only.
OwnPackets ==
  \A h \in 1..Len(chans) :
    /\ AtWork(chans[h])
    /\ \E c \in Clients : /\ clientRequests[c] = h
                          /\ chans[h].queue \in Seq(Own(c))
                          /\ chans[h].work \in Seq(Own(c))

AInv == AgentTypeOK /\ Dispatching /\ OneChannelEach /\ OwnPackets /\ InOrderPerClient

\* What the channel of c and its handler hold, and what the dispatcher does.
Held(c) == IF clientRequests[c] = 0 THEN <<>> ELSE Channel(c).work \o Channel(c).queue
Carried(c) == IF packet # <<>> /\ packet[1].from = c THEN packet ELSE <<>>

\* Pending is what is held and what is carried.
LEMMA PendingIs ==
  ASSUME NEW c \in Clients
  PROVE  /\ Pending(c) = Held(c) \o Carried(c)
         /\ Pending(c)' = Held(c)' \o Carried(c)'
BY DEF Pending, Held, Carried

\* Both are sequences of packets.
LEMMA HeldTypes ==
  ASSUME AgentTypeOK, NEW c \in Clients
  PROVE  Held(c) \in Seq(Packet) /\ Carried(c) \in Seq(Packet)
<1>1. <<>> \in Seq(Packet)
  BY EmptySeq
<1>2. Carried(c) \in Seq(Packet)
  BY <1>1 DEF AgentTypeOK, Carried
<1>3. CASE clientRequests[c] = 0
  BY <1>1, <1>2, <1>3 DEF Held
<1>4. CASE clientRequests[c] # 0
  <2>1. chans \in Seq(Chan) /\ clientRequests[c] \in 1..Len(chans)
    <3>1. chans \in Seq(Chan) /\ clientRequests[c] \in 0..Len(chans) /\ Len(chans) \in Nat
      BY LenProperties DEF AgentTypeOK
    <3>2. QED
      BY <1>4, <3>1
  <2>2. Channel(c) \in Chan
    BY <2>1, ElementOfSeq DEF Channel
  <2>3. Channel(c).work \in Seq(Packet) /\ Channel(c).queue \in Seq(Packet)
    BY <2>2 DEF Chan
  <2>4. Held(c) \in Seq(Packet)
    BY <1>4, <2>3, ConcatProperties DEF Held
  <2>5. QED
    BY <1>2, <2>4
<1>5. QED
  BY <1>3, <1>4

\* A client's packets are packets.
LEMMA OwnArePackets ==
  ASSUME NEW c \in Clients, NEW s \in Seq(Own(c))
  PROVE  s \in Seq(Packet)
<1>1. Own(c) \subseteq Packet
  BY DEF Own, Packet
<1>2. QED
  BY <1>1, SeqMonotonic

(***************************************************************************)
(* Moving packets along keeps their order.                                 *)
(***************************************************************************)
\* A packet that is read comes last.
LEMMA ReadLast ==
  ASSUME NEW S, NEW a \in Seq(S), NEW b \in Seq(S), NEW x \in S
  PROVE  Append(a \o (b \o <<>>), x) = a \o (b \o <<x>>)
<1>1. b \o <<>> = b
  BY ConcatEmptySeq
<1>2. a \o b \in Seq(S) /\ <<x>> \in Seq(S)
  BY ConcatProperties
<1>3. Append(a \o b, x) = (a \o b) \o <<x>>
  BY <1>2, AppendIsConcat
<1>4. (a \o b) \o <<x>> = a \o (b \o <<x>>)
  BY <1>2, ConcatAssociative
<1>5. QED
  BY <1>1, <1>3, <1>4

\* A packet that is sent goes behind those in the channel.
LEMMA SendBehind ==
  ASSUME NEW S, NEW w \in Seq(S), NEW q \in Seq(S), NEW k \in Seq(S)
  PROVE  (w \o q) \o k = (w \o (q \o k)) \o <<>>
<1>1. (w \o q) \o k = w \o (q \o k)
  BY ConcatAssociative
<1>2. q \o k \in Seq(S)
  BY ConcatProperties
<1>3. w \o (q \o k) \in Seq(S)
  BY <1>2, ConcatProperties
<1>4. (w \o (q \o k)) \o <<>> = w \o (q \o k)
  BY <1>3, ConcatEmptySeq
<1>5. QED
  BY <1>1, <1>4

\* A handler takes the first packet of its channel.
LEMMA TakeFirst ==
  ASSUME NEW S, NEW q \in Seq(S), q # <<>>
  PROVE  /\ <<>> \o q = <<Head(q)>> \o Tail(q)
         /\ <<Head(q)>> \in Seq(S) /\ Tail(q) \in Seq(S) /\ Len(<<Head(q)>>) = 1
<1>1. <<>> \o q = q
  BY ConcatEmptySeq
<1>2. /\ Len(q) \in Nat /\ Len(q) >= 1
  BY EmptySeq
<1>3. /\ SubSeq(q, 1, Len(q)) = q
  BY SubSeqFull
<1>4. SubSeq(q, 1, Len(q)) = <<q[1]>> \o SubSeq(q, 1 + 1, Len(q))
  <2>1. 1 \in 1..Len(q) /\ Len(q) \in 1..Len(q)
    BY <1>2
  <2>2. QED
    BY <2>1, SubSeqRecursiveFirst
<1>5. Tail(q) = SubSeq(q, 2, Len(q)) /\ Tail(q) \in Seq(S) /\ Head(q) \in S
  BY TailIsSubSeq, HeadTailProperties
<1>6. Head(q) = q[1] /\ 1 + 1 = 2
  OBVIOUS
<1>7. QED
  BY <1>1, <1>3, <1>4, <1>5, <1>6

FromFront(a, w, r) == (a \o w) \o r = a \o (w \o r)

\* A packet that is handled leaves from the front.
LEMMA HandleFront ==
  ASSUME NEW S, NEW a \in Seq(S), NEW w \in Seq(S), NEW r \in Seq(S)
  PROVE  FromFront(a, w, r)
BY ConcatAssociative DEF FromFront

\* The handler's packet stands before those of its channel.
LEMMA WorkFirst ==
  ASSUME NEW S, NEW w \in Seq(S), NEW q \in Seq(S), NEW k \in Seq(S)
  PROVE  (w \o q) \o k = w \o ((<<>> \o q) \o k) /\ (<<>> \o q) \o k \in Seq(S)
<1>1. <<>> \o q = q
  BY ConcatEmptySeq
<1>2. (w \o q) \o k = w \o (q \o k)
  BY ConcatAssociative
<1>3. q \o k \in Seq(S)
  BY ConcatProperties
<1>4. QED
  BY <1>1, <1>2, <1>3

\* AInv holds in the initial state.
LEMMA AInvInit == AgentInit => AInv
<1> SUFFICES ASSUME AgentInit PROVE AInv
  OBVIOUS
<1>1. /\ <<>> \in Seq(Packet) /\ <<>> \in Seq(Chan) /\ Len(<<>>) = 0
  BY EmptySeq
<1>2. AgentTypeOK
  BY <1>1 DEF AgentInit, AgentTypeOK
<1>3. Dispatching /\ OneChannelEach /\ OwnPackets
  BY <1>1 DEF AgentInit, Dispatching, OneChannelEach, OwnPackets
<1>4. <<>> \o (<<>> \o <<>>) = <<>>
  BY <1>1, ConcatEmptySeq
<1>5. ASSUME NEW c \in Clients PROVE received[c] = handled[c] \o Pending(c)
  <2>1. Held(c) = <<>> /\ Carried(c) = <<>> /\ received[c] = <<>> /\ handled[c] = <<>>
    BY DEF AgentInit, Held, Carried
  <2>2. QED
    BY <1>4, <2>1, PendingIs
<1>6. QED
  BY <1>2, <1>3, <1>5 DEF AInv, InOrderPerClient

\* A datagram that arrives changes nothing of what was read.
LEMMA ArriveStep ==
  ASSUME AInv, NEW c \in Clients, Arrive(c)
  PROVE  AInv'
<1>1. UNCHANGED <<pc, packet, clientChan, clientRequests, chans, received, handled>>
  BY DEF Arrive
<1>2. sent \in [Clients -> Nat] /\ socket \in Seq(Packet)
  BY DEF AInv, AgentTypeOK
<1>3. sent' \in [Clients -> Nat]
  BY <1>2 DEF Arrive
<1>4. [from |-> c, n |-> sent[c] + 1] \in Packet
  BY <1>2 DEF Packet
<1>5. socket' \in Seq(Packet)
  BY <1>2, <1>4, AppendProperties DEF Arrive
<1>6. AgentTypeOK'
  BY <1>1, <1>3, <1>5 DEF AInv, AgentTypeOK
<1>7. Dispatching' /\ OneChannelEach' /\ OwnPackets'
  BY <1>1 DEF AInv, Dispatching, OneChannelEach, OwnPackets
<1>8. InOrderPerClient'
  BY <1>1 DEF AInv, InOrderPerClient, Pending, Channel
<1>9. QED
  BY <1>6, <1>7, <1>8 DEF AInv

\* Reading a datagram preserves AInv.
LEMMA ReadStep ==
  ASSUME AInv, Read
  PROVE  AInv'
<1>1. /\ pc = "read" /\ pc' = "lock" /\ socket # <<>>
      /\ packet' = <<Head(socket)>> /\ socket' = Tail(socket)
      /\ UNCHANGED <<sent, clientChan, clientRequests, chans, handled>>
  BY DEF Read
<1> DEFINE x == Head(socket)
<1>2. received' = [received EXCEPT ![x.from] = Append(@, x)]
  BY DEF Read
<1>t. /\ socket \in Seq(Packet)
      /\ received \in [Clients -> Seq(Packet)] /\ handled \in [Clients -> Seq(Packet)]
  BY DEF AInv, AgentTypeOK
<1>3. x \in Packet /\ socket' \in Seq(Packet)
  BY <1>t, <1>1, HeadTailProperties
<1> HIDE DEF x
<1>4. x.from \in Clients
  BY <1>3 DEF Packet
<1>5. /\ packet' = <<x>> /\ packet' \in Seq(Packet) /\ Len(packet') = 1
      /\ packet'[1] = x /\ packet' # <<>>
  BY <1>1, <1>3 DEF x
<1>6. Append(received[x.from], x) \in Seq(Packet)
  BY <1>t, <1>3, <1>4, AppendProperties
<1>7. /\ received' \in [Clients -> Seq(Packet)]
      /\ received'[x.from] = Append(received[x.from], x)
      /\ \A d \in Clients : d # x.from => received'[d] = received[d]
  BY <1>t, <1>2, <1>4, <1>6, Zenon
<1>8. AgentTypeOK'
  BY <1>1, <1>3, <1>5, <1>7 DEF AInv, AgentTypeOK
<1>9. OneChannelEach' /\ OwnPackets'
  BY <1>1 DEF AInv, OneChannelEach, OwnPackets
<1>10. Dispatching'
  BY <1>1, <1>5 DEF Dispatching
<1>11. ASSUME NEW d \in Clients PROVE received'[d] = handled'[d] \o Pending(d)'
  <2>1. Held(d)' = Held(d) /\ handled' = handled /\ packet = <<>>
    BY <1>1 DEF Held, Channel, AInv, Dispatching
  <2>2. Carried(d) = <<>> /\ Carried(d)' = IF x.from = d THEN <<x>> ELSE <<>>
    BY <1>5, <2>1 DEF Carried
  <2>3. received[d] = handled[d] \o (Held(d) \o <<>>)
    BY <2>2, PendingIs DEF AInv, InOrderPerClient
  <2>4. Held(d) \in Seq(Packet) /\ handled[d] \in Seq(Packet)
    BY <1>t, HeldTypes DEF AInv
  <2>5. CASE x.from = d
    <3>1. received'[d] = Append(handled[d] \o (Held(d) \o <<>>), x)
      BY <1>7, <2>3, <2>5
    <3>2. received'[d] = handled[d] \o (Held(d) \o <<x>>)
      BY <1>3, <2>4, <3>1, ReadLast
    <3>3. QED
      BY <2>1, <2>2, <2>5, <3>2, PendingIs
  <2>6. CASE x.from # d
    BY <1>7, <2>1, <2>2, <2>3, <2>6, PendingIs
  <2>7. QED
    BY <2>5, <2>6
<1>12. QED
  BY <1>8, <1>9, <1>10, <1>11 DEF AInv, InOrderPerClient

\* The packet the dispatcher holds has a client.
LEMMA PacketHasClient ==
  ASSUME AInv, pc # "read"
  PROVE  packet[1] \in Packet /\ packet[1].from \in Clients /\ packet # <<>>
<1>1. packet \in Seq(Packet) /\ Len(packet) = 1
  BY DEF AInv, AgentTypeOK, Dispatching
<1>2. packet[1] \in Packet /\ packet # <<>>
  BY <1>1, ElementOfSeq, EmptySeq
<1>3. QED
  BY <1>2 DEF Packet

\* Finding the channel, or making it with its handler, preserves AInv.
LEMMA LookupStep ==
  ASSUME AInv, Lookup
  PROVE  AInv'
<1> DEFINE c == packet[1].from
           k == [queue |-> <<>>, at |-> "range", work |-> <<>>]
<1>1. /\ pc = "lock" /\ pc' = "send"
      /\ UNCHANGED <<socket, sent, packet, received, handled>>
  BY DEF Lookup
<1>2. c \in Clients
  BY <1>1, PacketHasClient
<1>t. /\ chans \in Seq(Chan) /\ Len(chans) \in Nat
      /\ clientRequests \in [Clients -> 0..Len(chans)]
  BY LenProperties DEF AInv, AgentTypeOK
<1>3. CASE clientRequests[c] # 0
  <2>1. clientChan' = clientRequests[c] /\ UNCHANGED <<chans, clientRequests>>
    BY <1>3 DEF Lookup
  <2>2. AgentTypeOK'
    BY <1>1, <1>2, <1>t, <2>1 DEF AInv, AgentTypeOK
  <2>3. Dispatching' /\ OneChannelEach' /\ OwnPackets'
    BY <1>1, <1>3, <2>1 DEF AInv, Dispatching, OneChannelEach, OwnPackets
  <2>4. InOrderPerClient'
    BY <1>1, <2>1 DEF AInv, InOrderPerClient, Pending, Channel
  <2>5. QED
    BY <2>2, <2>3, <2>4 DEF AInv
<1>4. CASE clientRequests[c] = 0
  <2> DEFINE m == Len(chans) + 1
  <2>1. /\ chans' = Append(chans, k) /\ clientChan' = m
        /\ clientRequests' = [clientRequests EXCEPT ![c] = m]
    BY <1>4 DEF Lookup
  <2>2. k \in Chan
    BY EmptySeq DEF Chan, HandlerPC
  <2> HIDE DEF c, k
  <2>3. /\ chans' \in Seq(Chan) /\ Len(chans') = m /\ chans'[m] = k
        /\ \A h \in 1..Len(chans) : chans'[h] = chans[h]
    BY <1>t, <2>1, <2>2, AppendProperties
  <2>4. m \in 1..m /\ m # 0 /\ m \notin 0..Len(chans)
        /\ \A i \in 0..Len(chans) : i \in 0..m
    BY <1>t
  <2>40. \A h \in 1..m : h \in 1..Len(chans) \/ h = m
    BY <1>t
  <2> HIDE DEF m
  <2>5. /\ clientRequests' \in [Clients -> 0..m] /\ clientRequests'[c] = m
        /\ \A d \in Clients : d # c => clientRequests'[d] = clientRequests[d]
    <3>1. m \in 0..m
      BY <1>t DEF m
    <3>2. QED
      BY <1>t, <1>2, <2>1, <2>4, <3>1
  <2>6. AgentTypeOK'
    <3>1. clientChan' \in 0..Len(chans')
      BY <1>t, <2>1, <2>3 DEF m
    <3>2. QED
      BY <1>1, <2>3, <2>5, <3>1 DEF AInv, AgentTypeOK
  <2>7. Dispatching'
    BY <1>1, <2>1, <2>4, <2>5 DEF AInv, Dispatching, c
  <2>8. OneChannelEach'
    BY <1>t, <2>4, <2>5 DEF AInv, OneChannelEach
  <2>9. OwnPackets'
    <3> SUFFICES ASSUME NEW h \in 1..m
                 PROVE  /\ AtWork(chans'[h])
                        /\ \E d \in Clients : /\ clientRequests'[d] = h
                                              /\ chans'[h].queue \in Seq(Own(d))
                                              /\ chans'[h].work \in Seq(Own(d))
      BY <2>3 DEF OwnPackets, AtWork, Own
    <3>1. CASE h = m
      <4>1. k.queue = <<>> /\ k.work = <<>> /\ k.at = "range"
        BY DEF k
      <4>2. <<>> \in Seq(Own(c))
        BY EmptySeq
      <4>3. QED
        BY <1>2, <2>3, <2>5, <3>1, <4>1, <4>2 DEF AtWork
    <3>2. CASE h \in 1..Len(chans)
      <4>1. PICK d \in Clients : /\ AtWork(chans[h]) /\ clientRequests[d] = h
                                 /\ chans[h].queue \in Seq(Own(d))
                                 /\ chans[h].work \in Seq(Own(d))
        BY <3>2 DEF AInv, OwnPackets
      <4>2. d # c
        BY <1>4, <3>2, <4>1 DEF c
      <4>3. clientRequests'[d] = h /\ chans'[h] = chans[h]
        BY <2>3, <2>5, <3>2, <4>1, <4>2
      <4>4. QED
        BY <4>1, <4>3
    <3>3. QED
      BY <2>40, <3>1, <3>2
  <2>10. ASSUME NEW d \in Clients PROVE received'[d] = handled'[d] \o Pending(d)'
    <3>1. Carried(d)' = Carried(d)
      BY <1>1 DEF Carried
    <3>2. Held(d)' = Held(d)
      <4>1. CASE d = c
        <5>1. Held(d) = <<>>
          BY <1>4, <4>1 DEF Held, c
        <5>2. Held(d)' = <<>> \o <<>>
          <6>1. k.queue = <<>> /\ k.work = <<>>
            BY DEF k
          <6>2. QED
            BY <2>3, <2>4, <2>5, <4>1, <6>1 DEF Held, Channel
        <5>3. <<>> \o <<>> = <<>>
          BY EmptySeq, ConcatEmptySeq
        <5>4. QED
          BY <5>1, <5>2, <5>3
      <4>2. CASE d # c
        <5>1. clientRequests'[d] = clientRequests[d]
          BY <2>5, <4>2
        <5>2. clientRequests[d] # 0 => clientRequests[d] \in 1..Len(chans)
          BY <1>t
        <5>3. QED
          BY <2>3, <5>1, <5>2 DEF Held, Channel
      <4>3. QED
        BY <4>1, <4>2
    <3>3. received[d] = handled[d] \o Pending(d)
      BY DEF AInv, InOrderPerClient
    <3>4. QED
      BY <1>1, <3>1, <3>2, <3>3, PendingIs
  <2>11. QED
    BY <2>6, <2>7, <2>8, <2>9, <2>10 DEF AInv, InOrderPerClient
<1>5. QED
  BY <1>3, <1>4

\* The client of a channel.
LEMMA OwnerOf ==
  ASSUME AInv, NEW h \in 1..Len(chans)
  PROVE  \E c \in Clients : /\ clientRequests[c] = h /\ h # 0 /\ AtWork(chans[h])
                            /\ chans[h].queue \in Seq(Own(c)) /\ chans[h].work \in Seq(Own(c))
                            /\ chans[h].queue \in Seq(Packet) /\ chans[h].work \in Seq(Packet)
                            /\ \A d \in Clients : d # c => clientRequests[d] # h
<1>1. PICK c \in Clients : /\ clientRequests[c] = h /\ AtWork(chans[h])
                           /\ chans[h].queue \in Seq(Own(c))
                           /\ chans[h].work \in Seq(Own(c))
  BY DEF AInv, OwnPackets
<1>2. chans[h].queue \in Seq(Packet) /\ chans[h].work \in Seq(Packet)
  BY <1>1, OwnArePackets
<1>3. h # 0
  OBVIOUS
<1>4. \A d \in Clients : d # c => clientRequests[d] # h
  BY <1>1, <1>3 DEF AInv, OneChannelEach
<1>5. QED
  BY <1>1, <1>2, <1>3, <1>4

\* The channel h of c changes to k, and holds packets of c still.
Changes(h, k, c) ==
  /\ h \in 1..Len(chans) /\ k \in Chan /\ c \in Clients /\ clientRequests[c] = h
  /\ AtWork(k) /\ k.queue \in Seq(Own(c)) /\ k.work \in Seq(Own(c))
  /\ chans' = [chans EXCEPT ![h] = k]
  /\ clientRequests' = clientRequests

\* What then follows: everything but the order of the packets.
Follows(k, c) ==
  /\ chans' \in Seq(Chan) /\ Len(chans') = Len(chans)
  /\ OneChannelEach' /\ OwnPackets'
  /\ Held(c)' = k.work \o k.queue
  /\ \A d \in Clients : d # c => Held(d)' = Held(d)

\* A handler or the dispatcher changes one channel, and keeps it to its client.
LEMMA ChannelChange ==
  ASSUME AInv, NEW h, NEW k, NEW c, Changes(h, k, c)
  PROVE  Follows(k, c)
<1> USE DEF Changes
<1>t. /\ chans \in Seq(Chan) /\ Len(chans) \in Nat
      /\ clientRequests \in [Clients -> 0..Len(chans)]
  BY LenProperties DEF AInv, AgentTypeOK
<1>1. /\ chans' \in Seq(Chan) /\ Len(chans') = Len(chans) /\ chans'[h] = k
      /\ \A i \in 1..Len(chans) : i # h => chans'[i] = chans[i]
  BY <1>t, ExceptSeq
<1>2. OneChannelEach'
  BY DEF AInv, OneChannelEach
<1>3. OwnPackets'
  <2> SUFFICES ASSUME NEW i \in 1..Len(chans)
               PROVE  /\ AtWork(chans'[i])
                      /\ \E d \in Clients : /\ clientRequests[d] = i
                                            /\ chans'[i].queue \in Seq(Own(d))
                                            /\ chans'[i].work \in Seq(Own(d))
    BY <1>1 DEF OwnPackets, AtWork, Own
  <2>1. CASE i = h
    BY <1>1, <2>1
  <2>2. CASE i # h
    BY <1>1, <2>2 DEF AInv, OwnPackets
  <2>3. QED
    BY <2>1, <2>2
<1>4. h # 0
  BY DEF Changes
<1>5. Held(c)' = k.work \o k.queue
  BY <1>1, <1>4 DEF Held, Channel
<1>6. ASSUME NEW d \in Clients, d # c PROVE Held(d)' = Held(d)
  <2>1. clientRequests[d] # h
    BY <1>4, <1>6 DEF AInv, OneChannelEach
  <2>2. clientRequests[d] # 0 => clientRequests[d] \in 1..Len(chans)
    BY <1>t
  <2>3. QED
    BY <1>1, <2>1, <2>2 DEF Held, Channel
<1>7. QED
  BY <1>1, <1>2, <1>3, <1>5, <1>6 DEF Follows

\* Sending the packet on the channel of its client preserves AInv.
LEMMA EnqueueStep ==
  ASSUME AInv, Enqueue
  PROVE  AInv'
<1>h. PICK h : h = clientChan
  OBVIOUS
<1>k. PICK k : k = [chans[h] EXCEPT !.queue = @ \o packet]
  OBVIOUS
<1>c. PICK c : c = packet[1].from
  OBVIOUS
<1>1. /\ pc = "send" /\ pc' = "read" /\ packet' = <<>>
      /\ chans' = [chans EXCEPT ![h] = k]
      /\ UNCHANGED <<socket, sent, clientChan, clientRequests, received, handled>>
  BY <1>h, <1>k DEF Enqueue
<1>t. /\ chans \in Seq(Chan) /\ Len(chans) \in Nat /\ clientChan \in 0..Len(chans)
      /\ packet \in Seq(Packet) /\ handled \in [Clients -> Seq(Packet)]
  BY LenProperties DEF AInv, AgentTypeOK
<1>2. h # 0 /\ h = clientRequests[c] /\ Len(packet) = 1
  BY <1>1, <1>h, <1>c DEF AInv, Dispatching
<1>3. h \in 1..Len(chans)
  BY <1>t, <1>2, <1>h
<1>4. packet[1] \in Packet /\ c \in Clients /\ packet # <<>>
  BY <1>1, <1>c, PacketHasClient
<1>5. /\ AtWork(chans[h])
      /\ chans[h].queue \in Seq(Own(c)) /\ chans[h].work \in Seq(Own(c))
      /\ chans[h].queue \in Seq(Packet) /\ chans[h].work \in Seq(Packet)
  BY <1>2, <1>3, <1>4, OwnerOf
<1>6. packet \in Seq(Own(c))
  <2>1. packet[1] \in Own(c)
    BY <1>4, <1>c DEF Packet, Own
  <2>2. packet = <<packet[1]>>
    BY <1>t, <1>2
  <2>3. <<packet[1]>> \in Seq(Own(c))
    BY <2>1
  <2>4. QED
    BY <2>2, <2>3, Zenon
<1>7. chans[h].queue \o packet \in Seq(Own(c)) /\ chans[h].queue \o packet \in Seq(Packet)
  BY <1>t, <1>5, <1>6, ConcatProperties
<1>8. chans[h] \in Chan
  BY <1>t, <1>3, ElementOfSeq
<1>9. /\ k \in Chan /\ k.queue = chans[h].queue \o packet
      /\ k.work = chans[h].work /\ k.at = chans[h].at
  BY <1>7, <1>8, <1>k DEF Chan
<1>10. AtWork(k)
  BY <1>5, <1>9 DEF AtWork
<1>11. c \in Clients /\ clientRequests[c] = h /\ k.queue \in Seq(Own(c)) /\ k.work \in Seq(Own(c))
  BY <1>2, <1>4, <1>5, <1>7, <1>9
<1>12. /\ chans' \in Seq(Chan) /\ Len(chans') = Len(chans)
       /\ OneChannelEach' /\ OwnPackets'
       /\ Held(c)' = k.work \o k.queue
       /\ \A d \in Clients : d # c => Held(d)' = Held(d)
  <2>1. Changes(h, k, c)
    BY <1>1, <1>3, <1>9, <1>10, <1>11 DEF Changes
  <2>2. QED
    BY <2>1, ChannelChange DEF Follows
<1>13. AgentTypeOK'
  <2>1. packet' \in Seq(Packet)
    BY <1>1, EmptySeq
  <2>2. QED
    BY <1>1, <1>12, <2>1 DEF AInv, AgentTypeOK
<1>14. Dispatching'
  BY <1>1 DEF Dispatching
<1>15. ASSUME NEW d \in Clients PROVE received'[d] = handled'[d] \o Pending(d)'
  <2>1. received[d] = handled[d] \o (Held(d) \o Carried(d))
    BY PendingIs DEF AInv, InOrderPerClient
  <2>2. Carried(d)' = <<>>
    BY <1>1 DEF Carried
  <2>3. Held(d) \o Carried(d) = Held(d)' \o <<>>
    <3>1. CASE d = c
      <4>1. Held(d) = chans[h].work \o chans[h].queue /\ Carried(d) = packet
        BY <1>2, <1>4, <1>c, <3>1 DEF Held, Carried, Channel
      <4>2. Held(d)' = chans[h].work \o (chans[h].queue \o packet)
        BY <1>9, <1>12, <3>1
      <4>3. QED
        <5>1. (chans[h].work \o chans[h].queue) \o packet
                = (chans[h].work \o (chans[h].queue \o packet)) \o <<>>
          <6>1. PICK u \in Seq(Packet) : u = chans[h].work
            BY <1>5
          <6>2. PICK v \in Seq(Packet) : v = chans[h].queue
            BY <1>5
          <6>3. PICK x \in Seq(Packet) : x = packet
            BY <1>t
          <6>4. (u \o v) \o x = (u \o (v \o x)) \o <<>>
            BY SendBehind
          <6>5. QED
            BY <6>1, <6>2, <6>3, <6>4
        <5>2. QED
          BY <4>1, <4>2, <5>1
    <3>2. CASE d # c
      BY <1>12, <1>c, <3>2 DEF Carried
    <3>3. QED
      BY <3>1, <3>2
  <2>4. QED
    BY <1>1, <2>1, <2>2, <2>3, PendingIs
<1>16. QED
  BY <1>12, <1>13, <1>14, <1>15 DEF AInv, InOrderPerClient

\* A step of a handler that keeps what its channel and it hold, in order, or
\* is done with the first packet of that, preserves AInv.
LEMMA HandlerKeeps ==
  ASSUME AInv, NEW h, NEW k, NEW c, Changes(h, k, c),
         UNCHANGED <<socket, sent, pc, packet, clientChan, clientRequests, received>>,
         handled' \in [Clients -> Seq(Packet)],
         \A d \in Clients : d # c => handled'[d] = handled[d],
         handled'[c] \o ((k.work \o k.queue) \o Carried(c))
           = handled[c] \o ((chans[h].work \o chans[h].queue) \o Carried(c))
  PROVE  AInv'
<1>1. /\ chans' \in Seq(Chan) /\ Len(chans') = Len(chans)
      /\ OneChannelEach' /\ OwnPackets'
      /\ Held(c)' = k.work \o k.queue
      /\ \A d \in Clients : d # c => Held(d)' = Held(d)
  <2>1. Follows(k, c)
    BY ChannelChange
  <2>2. QED
    BY <2>1 DEF Follows
<1>2. AgentTypeOK'
  BY <1>1 DEF AInv, AgentTypeOK
<1>3. Dispatching'
  BY DEF AInv, Dispatching
<1>4. h # 0 /\ clientRequests[c] = h
  BY DEF Changes
<1>5. Held(c) = chans[h].work \o chans[h].queue
  BY <1>4 DEF Held, Channel
<1>6. ASSUME NEW d \in Clients PROVE received'[d] = handled'[d] \o Pending(d)'
  <2>1. received[d] = handled[d] \o (Held(d) \o Carried(d))
    BY PendingIs DEF AInv, InOrderPerClient
  <2>2. Carried(d)' = Carried(d)
    BY DEF Carried
  <2>3. handled'[d] \o (Held(d)' \o Carried(d)) = handled[d] \o (Held(d) \o Carried(d))
    BY <1>1, <1>5
  <2>4. QED
    BY <2>1, <2>2, <2>3, PendingIs
<1>7. QED
  BY <1>1, <1>2, <1>3, <1>6 DEF AInv, InOrderPerClient

\* Every step of a handler preserves AInv.
LEMMA HandlerStep ==
  ASSUME AInv, NEW h \in 1..Len(chans), handleClient(h)
  PROVE  AInv'
<1>1. UNCHANGED <<socket, sent, pc, packet, clientChan, clientRequests, received>>
  BY DEF handleClient
<1>t. chans \in Seq(Chan) /\ chans[h] \in Chan /\ handled \in [Clients -> Seq(Packet)]
  BY ElementOfSeq DEF AInv, AgentTypeOK
<1>2. PICK c \in Clients : /\ clientRequests[c] = h /\ AtWork(chans[h])
                           /\ chans[h].queue \in Seq(Own(c)) /\ chans[h].work \in Seq(Own(c))
                           /\ chans[h].queue \in Seq(Packet) /\ chans[h].work \in Seq(Packet)
  BY OwnerOf
<1>3. Carried(c) \in Seq(Packet)
  BY HeldTypes DEF AInv
<1>4. CASE RangeChan(h)
  <2> DEFINE q == chans[h].queue
             k == [queue |-> Tail(q), at |-> "parse", work |-> <<Head(q)>>]
  <2>1. /\ chans[h].at = "range" /\ q # <<>> /\ chans' = [chans EXCEPT ![h] = k]
        /\ handled' = handled
    BY <1>4 DEF RangeChan
  <2>2. chans[h].work = <<>>
    BY <1>2, <2>1 DEF AtWork
  <2>3. /\ <<>> \o q = <<Head(q)>> \o Tail(q) /\ Len(<<Head(q)>>) = 1
        /\ <<Head(q)>> \in Seq(Own(c)) /\ Tail(q) \in Seq(Own(c))
    BY <1>2, <2>1, TakeFirst
  <2>4. <<Head(q)>> \in Seq(Packet) /\ Tail(q) \in Seq(Packet)
    BY <1>2, <2>1, TakeFirst
  <2>5. k \in Chan
    BY <2>4 DEF Chan, HandlerPC
  <2>6. k.queue = Tail(q) /\ k.work = <<Head(q)>> /\ k.at = "parse"
    OBVIOUS
  <2> HIDE DEF k, q
  <2>7. AtWork(k)
    BY <2>3, <2>6 DEF AtWork
  <2>8. k.work \o k.queue = chans[h].work \o chans[h].queue
    BY <2>2, <2>3, <2>6 DEF q
  <2>9. k.queue \in Seq(Own(c)) /\ k.work \in Seq(Own(c))
    BY <2>3, <2>6
  <2>10. Changes(h, k, c)
    BY <1>1, <1>2, <2>1, <2>5, <2>7, <2>9 DEF Changes
  <2>11. handled' = handled
    BY <2>1
  <2>12. QED
    BY <1>1, <1>t, <2>8, <2>10, <2>11, HandlerKeeps
<1>5. ASSUME NEW at \in HandlerPC \ {"range"}, chans[h].at # "range", Goto(h, at) PROVE AInv'
  <2> DEFINE k == [chans[h] EXCEPT !.at = at]
  <2>1. chans' = [chans EXCEPT ![h] = k] /\ handled' = handled
    BY <1>5 DEF Goto
  <2>2. k \in Chan /\ k.queue = chans[h].queue /\ k.work = chans[h].work /\ k.at = at
    BY <1>t DEF Chan
  <2> HIDE DEF k
  <2>3. AtWork(k)
    BY <1>2, <1>5, <2>2 DEF AtWork
  <2>4. Changes(h, k, c)
    BY <1>1, <1>2, <2>1, <2>2, <2>3 DEF Changes
  <2>5. handled' = handled /\ k.work \o k.queue = chans[h].work \o chans[h].queue
    BY <2>1, <2>2
  <2>6. QED
    BY <1>1, <1>t, <2>4, <2>5, HandlerKeeps
<1>6. CASE chans[h].at # "range" /\ Continue(h)
  <2> DEFINE k == [chans[h] EXCEPT !.at = "range", !.work = <<>>]
             w == chans[h].work
  <2>1. chans' = [chans EXCEPT ![h] = k]
    BY <1>6 DEF Continue
  <2>2. k \in Chan /\ k.queue = chans[h].queue /\ k.work = <<>> /\ k.at = "range"
    BY <1>t, EmptySeq DEF Chan, HandlerPC
  <2>3. w[1].from = c
    <3>1. Len(w) = 1 /\ w \in Seq(Own(c))
      BY <1>2, <1>6 DEF AtWork
    <3>2. w[1] \in Own(c)
      BY <3>1, ElementOfSeq
    <3>3. QED
      BY <3>2 DEF Own
  <2>4. handled' = [handled EXCEPT ![c] = @ \o w]
    BY <1>6, <2>3 DEF Continue
  <2>5. handled[c] \o w \in Seq(Packet)
    BY <1>2, <1>t, ConcatProperties
  <2> HIDE DEF k
  <2>6. /\ handled' \in [Clients -> Seq(Packet)] /\ handled'[c] = handled[c] \o w
        /\ \A d \in Clients : d # c => handled'[d] = handled[d]
    BY <1>t, <2>4, <2>5, Zenon
  <2>7. AtWork(k) /\ k.work \in Seq(Own(c))
    BY <2>2, EmptySeq DEF AtWork
  <2>8. /\ (w \o chans[h].queue) \o Carried(c) = w \o ((<<>> \o chans[h].queue) \o Carried(c))
        /\ (<<>> \o chans[h].queue) \o Carried(c) \in Seq(Packet)
    <3>1. PICK u \in Seq(Packet) : u = w
      BY <1>2
    <3>2. PICK v \in Seq(Packet) : v = chans[h].queue
      BY <1>2
    <3>3. PICK x \in Seq(Packet) : x = Carried(c)
      BY <1>3
    <3>4. (u \o v) \o x = u \o ((<<>> \o v) \o x) /\ (<<>> \o v) \o x \in Seq(Packet)
      BY WorkFirst
    <3>5. QED
      BY <3>1, <3>2, <3>3, <3>4
  <2>9. (handled[c] \o w) \o ((<<>> \o chans[h].queue) \o Carried(c))
          = handled[c] \o (w \o ((<<>> \o chans[h].queue) \o Carried(c)))
    <3>1. PICK r \in Seq(Packet) : r = (<<>> \o chans[h].queue) \o Carried(c)
      BY <2>8
    <3>2. PICK a \in Seq(Packet) : a = handled[c]
      BY <1>t
    <3>3. PICK u \in Seq(Packet) : u = w
      BY <1>2
    <3>4. FromFront(a, u, r)
      BY HandleFront
    <3>5. QED
      BY <3>1, <3>2, <3>3, <3>4 DEF FromFront
  <2>10. Changes(h, k, c)
    BY <1>1, <1>2, <2>1, <2>2, <2>7 DEF Changes
  <2>11. handled'[c] \o ((k.work \o k.queue) \o Carried(c))
           = handled[c] \o ((w \o chans[h].queue) \o Carried(c))
    BY <2>2, <2>6, <2>8, <2>9
  <2>12. QED
    BY <1>1, <2>6, <2>10, <2>11, HandlerKeeps
<1>7. QED
  BY <1>4, <1>5, <1>6 DEF handleClient, ParseRequest, GetVariables, WriteFails, HandlerPC

\* Every step preserves AInv: one step of the proof per action.
LEMMA AInvStep == AInv /\ [AgentNext]_avars => AInv'
<1> SUFFICES ASSUME AInv, [AgentNext]_avars PROVE AInv'
  OBVIOUS
<1>1. CASE UNCHANGED avars
  <2>1. AgentTypeOK' /\ Dispatching' /\ OneChannelEach'
    BY <1>1 DEF avars, AInv, AgentTypeOK, Dispatching, OneChannelEach
  <2>2. OwnPackets' /\ InOrderPerClient'
    BY <1>1 DEF avars, AInv, OwnPackets, InOrderPerClient, Pending, Channel
  <2>3. QED
    BY <2>1, <2>2 DEF AInv
<1>2. QED
  BY <1>1, ArriveStep, ReadStep, LookupStep, EnqueueStep, HandlerStep
     DEF AgentNext, ListenAndServe

(***************************************************************************)
(* The parts together: a step of one leaves the others as they are.        *)
(***************************************************************************)
UtilsInv == QInv /\ ElementsHaveTakers /\ MInv /\ DInv /\ AInv /\ ArenaInv

\* UtilsInv holds in every state.
THEOREM UtilsInvariant == Spec => []UtilsInv
<1>1. Init => UtilsInv
  <2>1. QueueInit => ElementsHaveTakers
    BY DEF QueueInit, ElementsHaveTakers, Waiting
  <2>2. QED
    BY <2>1, QInvInit, MInvInit, DInvInit, AInvInit, ArenaFirst DEF Init, UtilsInv
<1>2. UtilsInv /\ [Next]_vars => UtilsInv'
  <2>1. [Next]_vars => /\ [QueueNext]_qvars /\ [MultiNext]_mvars
                       /\ [DogNext]_dvars /\ [AgentNext]_avars
                       /\ [ArenaNext]_arenaVars
    BY DEF Next, vars
  <2>2. QED
    BY <2>1, QInvStep, TakersStep, MInvStep, DInvStep, AInvStep, ArenaStep DEF UtilsInv
<1>3. QED
  BY <1>1, <1>2, PTL DEF Spec

\* The parts keep to their types: no index of utils/multi.h, watch_dog or
\* the SNMP agent, and no offset of the arena, leaves its range.
THEOREM UtilsTypes == Spec => []TypesOK
<1>1. UtilsInv => TypesOK
  BY DEF UtilsInv, QInv, MInv, DInv, AInv, ArenaInv, TypesOK
<1>2. QED
  BY <1>1, UtilsInvariant, PTL

\* A get reads the front of an empty queue only after a spurious wakeup or
\* when it was overtaken between its notify and its lock.
THEOREM EmptyRead == Spec => []EmptyReadOnlyIfOvertaken
<1>1. UtilsInv => EmptyReadOnlyIfOvertaken
  BY DEF UtilsInv, QInv, ElementThere, EmptyReadOnlyIfOvertaken
<1>2. QED
  BY <1>1, UtilsInvariant, PTL

\* While a get waits, every element of the queue has a woken get of its own
\* or a notification on its way.
THEOREM Takers == Spec => []ElementsHaveTakers
BY UtilsInvariant, PTL DEF UtilsInv

\* When watch_process has returned, every child of multi_create was waited for.
THEOREM ChildrenWaitedFor == Spec => []AllWaitedFor
<1>1. UtilsInv => AllWaitedFor
  BY DEF UtilsInv, MInv, MultiTypeOK, Waited, AllWaitedFor
<1>2. QED
  BY <1>1, UtilsInvariant, PTL

\* Every CPU has one worker known to watch_dog's pool, or is queued once.
THEOREM WorkerPerCpu == Spec => []OneWorkerPerCpu
<1>1. UtilsInv => OneWorkerPerCpu
  BY DInvWorkers DEF UtilsInv
<1>2. QED
  BY <1>1, UtilsInvariant, PTL

\* No datagram the SNMP agent has read is lost, repeated or overtaken by a
\* later one of its client.
THEOREM PacketsInOrder == Spec => []InOrderPerClient
<1>1. UtilsInv => InOrderPerClient
  BY DEF UtilsInv, AInv
<1>2. QED
  BY <1>1, UtilsInvariant, PTL
=============================================================================
