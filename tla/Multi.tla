------------------------------- MODULE Multi --------------------------------
(***************************************************************************)
(* utils/multi.h: multi_create forks procnum children; each runs           *)
(* thread_create, which starts threadnum detached threads and polls them   *)
(* with pthread_kill(tid, 0) until its pool is empty; the parent waits for *)
(* its children in watch_process.                                          *)
(*                                                                         *)
(* pthread_kill returns 0 for a thread that is alive, and the code erases  *)
(* the thread from its pool then.  For a thread that has ended (detached,  *)
(* so its id is no longer valid) the C library in use returns always       *)
(* ESRCH, or always 0: gone.  Its id may be given to the next thread, so   *)
(* that both have one entry in the pool.  A pid[i] whose pthread_create    *)
(* failed is indeterminate; looking it up does nothing or kills the        *)
(* process.                                                                *)
(***************************************************************************)
EXTENDS Naturals, FiniteSets

CONSTANTS procnum, threadnum

ASSUME MultiAssumption == procnum \in Nat /\ threadnum \in Nat

Procs == 1..procnum
Threads == 1..threadnum

VARIABLES
  gone,       \* what pthread_kill returns for an ended thread: "ESRCH" or "0"
  parent,     \* where the parent is: "fork", "watch" or "done"
  wpool,      \* multi_create's pool: the children not yet waited for
  child,      \* child[p]: where the child p is in thread_create
  pid,        \* pid[p][t]: the id of its thread t (of 1..threadnum)
  tpool,      \* tpool[p]: its pool, the ids it still waits for
  idx,        \* idx[p]: its loop index i
  thread      \* thread[p][t]: the state of a thread

mvars == <<gone, parent, wpool, child, pid, tpool, idx, thread>>

MultiTypeOK ==
  /\ gone \in {"ESRCH", "0"}
  /\ parent \in {"fork", "watch", "done"}
  /\ wpool \subseteq Procs
  /\ child \in [Procs -> {"none", "create", "poll", "returned", "exited",
                        "crashed", "reaped"}]
  /\ pid \in [Procs -> [Threads -> Threads]]
  /\ tpool \in [Procs -> SUBSET Threads]
  /\ idx \in [Procs -> 1..threadnum + 1]
  /\ thread \in [Procs -> [Threads -> {"none", "failed", "running", "ended", "killed"}]]

MultiInit == /\ gone \in {"ESRCH", "0"}
             /\ parent = "fork"
             /\ wpool = {}
             /\ child = [p \in Procs |-> "none"]
             /\ pid = [p \in Procs |-> [t \in Threads |-> t]]
             /\ tpool = [p \in Procs |-> {}]
             /\ idx = [p \in Procs |-> 1]
             /\ thread = [p \in Procs |-> [t \in Threads |-> "none"]]

Forked == {p \in Procs : child[p] # "none"}

\* multi_create: one turn of the fork loop.  The child leaves the loop.
Fork(p) ==
  /\ parent = "fork"
  /\ p = Cardinality(Forked) + 1
  /\ child' = [child EXCEPT ![p] = "create"]
  /\ wpool' = wpool \cup {p}
  /\ UNCHANGED <<gone, parent, pid, tpool, idx, thread>>

\* The loop is done, or a fork failed: the parent calls watch_process.
ForkEnds ==
  /\ parent = "fork"
  /\ parent' = "watch"
  /\ UNCHANGED <<gone, pid, wpool, child, tpool, idx, thread>>

\* set_multi_env fails: exit(0) before any fork.
EnvFails ==
  /\ parent = "fork"
  /\ Forked = {}
  /\ parent' = "done"
  /\ UNCHANGED <<gone, pid, wpool, child, tpool, idx, thread>>

\* Mutant: a waitpid that was interrupted counts as an exit too.
WaitChildAny(p) ==
  /\ parent = "watch"
  /\ p \in wpool
  /\ child' = [child EXCEPT ![p] = IF @ \in {"exited", "crashed"} THEN "reaped" ELSE @]
  /\ wpool' = wpool \ {p}
  /\ UNCHANGED <<gone, parent, pid, tpool, idx, thread>>

\* watch_process: waitpid(p) returns p.  It blocks until p exits; when it is
\* interrupted the entry stays and the next one is tried.
WaitChild(p) ==
  /\ parent = "watch"
  /\ p \in wpool
  /\ child[p] \in {"exited", "crashed"}
  /\ child' = [child EXCEPT ![p] = "reaped"]
  /\ wpool' = wpool \ {p}
  /\ UNCHANGED <<gone, parent, pid, tpool, idx, thread>>

WatchEnds ==
  /\ parent = "watch"
  /\ wpool = {}
  /\ parent' = "done"
  /\ UNCHANGED <<gone, pid, wpool, child, tpool, idx, thread>>

\* The ids that no running thread of p has: a new one, or one of the ended.
FreeIds(p) == {id \in 1..idx[p] : \A t \in Threads :
                 thread[p][t] = "running" => pid[p][t] # id}

\* thread_create: pthread_create succeeds, or fails and is skipped.
CreateThread(p) ==
  /\ child[p] = "create"
  /\ idx[p] <= threadnum
  /\ \/ \E id \in FreeIds(p) :
          /\ thread' = [thread EXCEPT ![p][idx[p]] = "running"]
          /\ pid' = [pid EXCEPT ![p][idx[p]] = id]
          /\ tpool' = [tpool EXCEPT ![p] = @ \cup {id}]
     \/ /\ thread' = [thread EXCEPT ![p][idx[p]] = "failed"]
        /\ UNCHANGED <<pid, tpool>>
  /\ idx' = [idx EXCEPT ![p] = @ + 1]
  /\ UNCHANGED <<gone, parent, wpool, child>>

CreateEnds(p) ==
  /\ child[p] = "create"
  /\ idx[p] > threadnum
  /\ child' = [child EXCEPT ![p] = "poll"]
  /\ idx' = [idx EXCEPT ![p] = 1]
  /\ UNCHANGED <<gone, parent, pid, wpool, tpool, thread>>

\* pthread_kill(id, 0) == 0
PthreadKill(p, id) ==
  \E t \in Threads : /\ pid[p][t] = id
                     /\ \/ thread[p][t] = "running"
                        \/ thread[p][t] = "ended" /\ gone = "0"

\* One turn of the for loop; after the last thread sleep(1), then the first.
\* The loop runs to its end before the size of the pool is looked at again.
Poll(p) ==
  /\ child[p] = "poll"
  /\ tpool[p] # {} \/ idx[p] > 1
  /\ LET id == pid[p][idx[p]]
         alive == thread[p][idx[p]] # "failed" /\ PthreadKill(p, id)
     IN tpool' = [tpool EXCEPT ![p] = IF alive THEN @ \ {id} ELSE @]
  /\ idx' = [idx EXCEPT ![p] = (@ % threadnum) + 1]
  /\ UNCHANGED <<gone, parent, pid, wpool, child, thread>>

\* The process is over, and with it every thread that still runs.
EndProcess(p, how) ==
  /\ child' = [child EXCEPT ![p] = how]
  /\ thread' = [thread EXCEPT ![p] =
                  [t \in Threads |-> IF @[t] = "running" THEN "killed" ELSE @[t]]]

\* thread_create returns to multi_create, and that to its caller.
PollEnds(p) ==
  /\ child[p] = "poll"
  /\ idx[p] = 1
  /\ tpool[p] = {}
  /\ child' = [child EXCEPT ![p] = "returned"]
  /\ UNCHANGED <<gone, parent, pid, wpool, tpool, idx, thread>>

\* The caller of multi_create, in the child, comes to the end of main.
CallerExits(p) ==
  /\ child[p] = "returned"
  /\ EndProcess(p, "exited")
  /\ UNCHANGED <<gone, parent, pid, wpool, tpool, idx>>

\* pthread_kill on the id of a thread that was never created.
PollCrashes(p) ==
  /\ child[p] = "poll"
  /\ tpool[p] # {} \/ idx[p] > 1
  /\ thread[p][idx[p]] = "failed"
  /\ EndProcess(p, "crashed")
  /\ UNCHANGED <<gone, parent, pid, wpool, tpool, idx>>

\* The task of a thread returns, and the thread ends.
ThreadEnds(p, t) ==
  /\ child[p] \in {"create", "poll", "returned"}
  /\ thread[p][t] = "running"
  /\ thread' = [thread EXCEPT ![p][t] = "ended"]
  /\ UNCHANGED <<gone, parent, pid, wpool, child, tpool, idx>>

ParentStep == ForkEnds \/ EnvFails \/ WatchEnds \/ \E p \in Procs : Fork(p) \/ WaitChild(p)
ChildStep(p) == \/ CreateThread(p) \/ CreateEnds(p) \/ Poll(p) \/ PollEnds(p)
                \/ PollCrashes(p) \/ CallerExits(p)

MultiNext == \/ ParentStep
             \/ \E p \in Procs : ChildStep(p) \/ \E t \in Threads : ThreadEnds(p, t)

(***************************************************************************)
(* Properties.                                                             *)
(***************************************************************************)
\* multi.h:76-77 takes a 0 of pthread_kill for "the thread does not exist" and
\* erases the thread then: a thread that runs is in the pool of its process.
RunningIsInPool ==
  \A p \in Procs, t \in Threads : thread[p][t] = "running" => pid[p][t] \in tpool[p]

\* When watch_process has returned every child was waited for, also when a
\* fork failed half-way and whatever became of the children: none is left
\* running or as a zombie.
AllWaitedFor == parent = "done" => \A p \in Procs : child[p] \in {"none", "reaped"}

\* An id that its process has never found and whose threads are all over.
Missed(p) == child[p] = "poll" /\ gone = "ESRCH"
             /\ \E id \in tpool[p] : ~PthreadKill(p, id)

\* multi_create comes to its end, with every child it forked waited for, also
\* when a fork or a pthread_create failed; unless some thread was over before
\* the first pthread_kill looked at it and its id is reported unknown from
\* then on: that child polls forever and the parent waits for it forever.
EndsUnlessMissed ==
  <>(\/ parent = "done" /\ \A p \in Procs : child[p] \in {"none", "reaped"}
     \/ \E p \in Procs : Missed(p))
=============================================================================
