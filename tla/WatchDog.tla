------------------------------ MODULE WatchDog ------------------------------
(***************************************************************************)
(* gencode/mg_server/server/main.cpp, watch_dog: one worker process per    *)
(* CPU.  myqueue holds the CPUs that need a worker, pool the pid of the    *)
(* worker of each CPU; a worker that is found dead has its CPU queued      *)
(* again.  (main's call of watch_dog is commented out.)                    *)
(*                                                                         *)
(* A pid stays taken until waitpid has reaped the process, and may then be *)
(* given to the next one.                                                  *)
(***************************************************************************)
EXTENDS Integers, Sequences, FiniteSets

CONSTANTS
  cpunum,    \* _SC_NPROCESSORS_CONF
  Pids       \* the pids fork may return

ASSUME DogAssumption == cpunum \in Nat \ {0} /\ Pids \subseteq Nat \ {0}

Cpus == 0..cpunum-1

VARIABLES
  dog,       \* where watch_dog is: "fork", "scan", "sleep", or "exited"
  myqueue,   \* the CPUs to start a worker for
  wdpool,    \* wdpool[cpu]: pool, 0 where there is no pid
  scan,      \* the CPU its for loop is at
  proc       \* proc[pid]: "free", "alive" or "zombie"; and the CPU it is bound to

dvars == <<dog, myqueue, wdpool, scan, proc>>

DogTypeOK == /\ dog \in {"fork", "scan", "sleep", "exited"}
             /\ myqueue \in Seq(Cpus)
             /\ wdpool \in [Cpus -> Pids \cup {0}]
             /\ scan \in 0..cpunum
             /\ proc \in [Pids -> [state : {"free", "alive", "zombie"}, cpu : Cpus]]

DogInit == /\ dog = "fork"
           /\ myqueue = [i \in 1..cpunum |-> i - 1]
           /\ wdpool = [c \in Cpus |-> 0]
           /\ scan = 0
           /\ proc = [p \in Pids |-> [state |-> "free", cpu |-> 0]]

\* fork: the parent notes the pid; the child binds itself to the CPU and
\* returns to main.
StartWorker ==
  /\ dog = "fork"
  /\ myqueue # <<>>
  /\ \E p \in Pids :
       /\ proc[p].state = "free"
       /\ proc' = [proc EXCEPT ![p] = [state |-> "alive", cpu |-> Head(myqueue)]]
       /\ wdpool' = [wdpool EXCEPT ![Head(myqueue)] = p]
  /\ myqueue' = Tail(myqueue)
  /\ UNCHANGED <<dog, scan>>

\* fork fails: exit(1).  The workers live on without a parent.
StartFails ==
  /\ dog = "fork"
  /\ myqueue # <<>>
  /\ dog' = "exited"
  /\ UNCHANGED <<myqueue, wdpool, scan, proc>>

StartEnds ==
  /\ dog = "fork"
  /\ myqueue = <<>>
  /\ dog' = "scan"
  /\ scan' = 0
  /\ UNCHANGED <<myqueue, wdpool, proc>>

\* What waitpid(pid, NULL, WNOHANG) returns: pid, 0 or -1 (no such child).
WaitPid(pid) ==
  IF pid = 0 \/ proc[pid].state = "alive" THEN 0
  ELSE IF proc[pid].state = "zombie" THEN pid ELSE -1

\* Mutant: waitpid's 0, the worker is alive, is taken for success.
ScanCpuZero ==
  /\ dog = "scan"
  /\ scan < cpunum
  /\ LET pid == wdpool[scan]
     IN IF WaitPid(pid) \in {0, pid}
        THEN /\ proc' = [proc EXCEPT ![pid].state = IF @ = "zombie" THEN "free" ELSE @]
             /\ wdpool' = [wdpool EXCEPT ![scan] = 0]
             /\ myqueue' = Append(myqueue, scan)
        ELSE UNCHANGED <<proc, wdpool, myqueue>>
  /\ scan' = scan + 1
  /\ UNCHANGED dog

\* Mutant: the CPU of a dead worker is not queued.
ScanCpuForgets ==
  /\ dog = "scan"
  /\ scan < cpunum
  /\ LET pid == wdpool[scan]
     IN IF WaitPid(pid) = pid
        THEN /\ proc' = [proc EXCEPT ![pid].state = "free"]
             /\ UNCHANGED <<myqueue, wdpool>>
        ELSE UNCHANGED <<proc, wdpool, myqueue>>
  /\ scan' = scan + 1
  /\ UNCHANGED dog

\* One turn of the for loop over pool.
ScanCpu ==
  /\ dog = "scan"
  /\ scan < cpunum
  /\ LET pid == wdpool[scan]
     IN IF WaitPid(pid) = pid
        THEN /\ proc' = [proc EXCEPT ![pid].state = "free"]
             /\ wdpool' = [wdpool EXCEPT ![scan] = 0]
             /\ myqueue' = Append(myqueue, scan)
        ELSE UNCHANGED <<proc, wdpool, myqueue>>
  /\ scan' = scan + 1
  /\ UNCHANGED dog

ScanEnds ==
  /\ dog = "scan"
  /\ scan = cpunum
  /\ dog' = "sleep"
  /\ UNCHANGED <<myqueue, wdpool, scan, proc>>

Sleep ==
  /\ dog = "sleep"
  /\ dog' = "fork"
  /\ UNCHANGED <<myqueue, wdpool, scan, proc>>

\* A worker ends or is killed.
WorkerDies(p) ==
  /\ proc[p].state = "alive"
  /\ proc' = [proc EXCEPT ![p].state = "zombie"]
  /\ UNCHANGED <<dog, myqueue, wdpool, scan>>

DogStep == StartWorker \/ StartEnds \/ ScanCpu \/ ScanEnds \/ Sleep

DogNext == DogStep \/ StartFails \/ \E p \in Pids : WorkerDies(p)

(***************************************************************************)
(* Properties.                                                             *)
(***************************************************************************)
Unreaped(cpu) == {p \in Pids : proc[p].state # "free" /\ proc[p].cpu = cpu}
Queued(cpu) == {i \in 1..Len(myqueue) : myqueue[i] = cpu}

\* Every CPU has exactly one worker that was not reaped, known to pool, or is
\* queued exactly once for a new one; the 0 that waitpid returns for a living
\* worker and the 0 that pool keeps for a dead one are never mixed up, and a
\* pid that is reused is never taken for the worker that had it before.
OneWorkerPerCpu ==
  \A c \in Cpus :
    \/ Unreaped(c) = {wdpool[c]} /\ Queued(c) = {}
    \/ Unreaped(c) = {} /\ wdpool[c] = 0 /\ Cardinality(Queued(c)) = 1

\* A CPU without a living worker gets one again, however often workers die,
\* unless a fork fails.
WorkersRestart ==
  \A c \in Cpus : (\A p \in Unreaped(c) : proc[p].state = "zombie")
                    ~> (dog = "exited" \/ \E p \in Unreaped(c) : proc[p].state = "alive")
=============================================================================
