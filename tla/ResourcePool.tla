---------------------------- MODULE ResourcePool ----------------------------
(***************************************************************************)
(* What a pool of shared resources promises its clients, independent of    *)
(* how it is synchronised: resources wait in first-in first-out order, a   *)
(* request is granted the oldest free resource, only a request with a      *)
(* timeout may be turned away, and a resource is released by its holder.   *)
(* ConnectionPool implements this specification (see RefinesPool there).   *)
(***************************************************************************)
EXTENDS Naturals, Sequences

CONSTANTS Client,    \* the clients of the pool
          Resource   \* the resources

VARIABLES free,      \* the free resources, oldest first
          holds,     \* holds[t]: the resources client t has
          request    \* request[t]: "none", "block" or "timed"

vars == <<free, holds, request>>

Kind == {"block", "timed"}

Init == /\ free = <<>>
        /\ holds = [t \in Client |-> {}]
        /\ request = [t \in Client |-> "none"]

\* A client that is not waiting brings a resource that nobody has.
Create(t, c) == /\ request[t] = "none"
                /\ \A u \in Client : c \notin holds[u]
                /\ \A i \in 1..Len(free) : free[i] # c
                /\ holds' = [holds EXCEPT ![t] = @ \cup {c}]
                /\ UNCHANGED <<free, request>>

Ask(t, k) == /\ request[t] = "none"
             /\ request' = [request EXCEPT ![t] = k]
             /\ UNCHANGED <<free, holds>>

Grant(t) == /\ request[t] # "none"
            /\ free # <<>>
            /\ holds' = [holds EXCEPT ![t] = @ \cup {Head(free)}]
            /\ free' = Tail(free)
            /\ request' = [request EXCEPT ![t] = "none"]

Refuse(t) == /\ request[t] = "timed"
             /\ free = <<>>
             /\ request' = [request EXCEPT ![t] = "none"]
             /\ UNCHANGED <<free, holds>>

Release(t, c) == /\ request[t] = "none"
                 /\ c \in holds[t]
                 /\ holds' = [holds EXCEPT ![t] = @ \ {c}]
                 /\ free' = Append(free, c)
                 /\ UNCHANGED request

Next == \E t \in Client :
          \/ Grant(t) \/ Refuse(t)
          \/ \E k \in Kind : Ask(t, k)
          \/ \E c \in Resource : Create(t, c) \/ Release(t, c)

Spec == Init /\ [][Next]_vars
=============================================================================
