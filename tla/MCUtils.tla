------------------------------ MODULE MCUtils -------------------------------
(***************************************************************************)
(* The small parts that threads and processes share or are started by,     *)
(* side by side for TLC: in a behaviour one of them runs and the others    *)
(* rest in their initial states.                                           *)
(***************************************************************************)
EXTENDS BlockingQueue, Multi, WatchDog, SnmpAgent, Arena

VARIABLE part    \* which of them runs

vars == <<part, qvars, mvars, dvars, avars, arenaVars>>

Init == /\ part \in {"queue", "multi", "watch_dog", "agent", "arena"}
        /\ QueueInit
        /\ MultiInit
        /\ DogInit
        /\ AgentInit
        /\ ArenaInit
        /\ gone = "0" \/ part = "multi"      \* what a part at rest might have chosen
        /\ ~ndebug \/ part = "arena"         \* makes no difference

Next == \/ part = "queue" /\ QueueNext /\ UNCHANGED <<part, mvars, dvars, avars, arenaVars>>
        \/ part = "multi" /\ MultiNext /\ UNCHANGED <<part, qvars, dvars, avars, arenaVars>>
        \/ part = "watch_dog" /\ DogNext /\ UNCHANGED <<part, qvars, mvars, avars, arenaVars>>
        \/ part = "agent" /\ AgentNext /\ UNCHANGED <<part, qvars, mvars, dvars, arenaVars>>
        \/ part = "arena" /\ ArenaNext /\ UNCHANGED <<part, qvars, mvars, dvars, avars>>

\* Every process and goroutine of the part that runs is scheduled, and every
\* call in an SNMP handler returns (Get times out).  Threads that spin or hold
\* the lock of the arena keep running.  Tasks of threads need not
\* end, workers need not die, datagrams need not arrive, and nobody need call
\* get or put.
Fairness ==
  /\ WF_mvars(part = "multi" /\ ParentStep)
  /\ \A p \in Procs : WF_mvars(part = "multi" /\ ChildStep(p))
  /\ WF_dvars(part = "watch_dog" /\ DogStep)
  /\ WF_avars(part = "agent" /\ ListenAndServe)
  /\ \A i \in 1..Cardinality(Clients) :
       WF_avars(part = "agent" /\ i \in 1..Len(chans) /\ handleClient(i))
  /\ \A t \in Thread : WF_arenaVars(part = "arena" /\ Step(t))

Spec == Init /\ [][Next]_vars /\ Fairness

\* The parts keep to their types.
TypesOK == QueueTypeOK /\ MultiTypeOK /\ DogTypeOK /\ AgentTypeOK /\ ArenaTypeOK

\* EndsUnlessMissed, in the behaviours in which multi_create is called.
MultiEnds == part = "multi" => EndsUnlessMissed

\* WorkersRestart, in the behaviours in which watch_dog runs.
DogRestarts == part = "watch_dog" => WorkersRestart
=============================================================================
