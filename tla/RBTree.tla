-------------------------------- MODULE RBTree --------------------------------
(***************************************************************************)
(* utils/rbtree.h: insert and search of mg::RBTree, on a heap of nodes     *)
(* with parent, child and colour fields.  A node is named by its value.    *)
(* insert runs under the tree's lock, so one call runs at a time; a step   *)
(* is one turn of one of its loops.  search takes no lock: a thread may    *)
(* run it beside an insert, and then sees the pointers a rotation writes   *)
(* one by one, in any order (nothing orders them for it).                  *)
(*                                                                         *)
(* del is not here: it assigns an enumerator to a pointer (lines 281 and   *)
(* 332) and cannot be instantiated.                                        *)
(***************************************************************************)
EXTENDS Integers, Sequences, FiniteSets

CONSTANTS
  Value,       \* a finite set of integers
  Searched,    \* bound: the values searched for beside an insert
  NULL,        \* nullptr
  Garbage      \* what a function may return that ends without a return

ASSUME RBAssumption == /\ Value \subseteq Int /\ IsFiniteSet(Value) /\ NULL \notin Value /\ Searched \subseteq Value
                       /\ Garbage \subseteq Int

VARIABLES
  h,           \* the heap: tree, and parent, lchild, rchild, type by node
  nodes,       \* the nodes that insert has linked
  pc,
  val, root, p,   \* insert's argument and the locals of its first loop
  locate,      \* the node at which the tree is rebalanced
  ret,         \* what the last insert returned
  targets,     \* what h is to become by the rotations under way, one after the other
  busy,        \* whether a search is under way
  at, sval,    \* its p, and its argument
  known,       \* history: its value was in the tree when the search began
  rotated      \* history: a rotation has run beside it

insertion == <<nodes, pc, val, root, p, locate, ret, targets>>
searching == <<busy, at, sval, known, rotated>>
vars == <<h, insertion, searching>>

Ptr == Value \cup {NULL}
Color == {"red", "black"}

Heap == [tree : Ptr, parent : [Value -> Ptr], lchild : [Value -> Ptr],
         rchild : [Value -> Ptr], type : [Value -> Color]]

TypeOK ==
  /\ h \in Heap
  /\ nodes \subseteq Value
  /\ pc \in {"idle", "find", "rebalance", "write"}
  /\ val \in Ptr /\ root \in Ptr /\ p \in Ptr /\ locate \in Ptr
  /\ ret \in {0, 1, -1} \cup Garbage
  /\ targets \in Seq(Heap)
  /\ busy \in BOOLEAN /\ at \in Ptr /\ sval \in Ptr
  /\ known \in BOOLEAN /\ rotated \in BOOLEAN

\* No node yet: the fields are those that create_node gives each new one.
Init ==
  /\ h = [tree |-> NULL, parent |-> [v \in Value |-> NULL], lchild |-> [v \in Value |-> NULL],
          rchild |-> [v \in Value |-> NULL], type |-> [v \in Value |-> "red"]]
  /\ nodes = {}
  /\ pc = "idle"
  /\ val = NULL /\ root = NULL /\ p = NULL /\ locate = NULL
  /\ ret \in Garbage
  /\ targets = <<>>
  /\ busy = FALSE /\ at = NULL /\ sval = NULL /\ known = FALSE /\ rotated = FALSE

(***************************************************************************)
(* Rotations.                                                              *)
(***************************************************************************)
\* If q is not null, field f of q becomes x.
Set(f, q, x) == IF q = NULL THEN f ELSE [f EXCEPT ![q] = x]

\* Mutant: the subtree that changes sides keeps its parent.
left_rotate_parent(g, node) ==
  LET up == g.parent[node]
      child == g.rchild[node]
      inner == g.lchild[child]
      top == [g EXCEPT !.tree = IF up = NULL THEN child ELSE @,
                       !.lchild = IF up # NULL /\ g.lchild[up] = node THEN Set(@, up, child) ELSE @,
                       !.rchild = IF up # NULL /\ g.rchild[up] = node THEN Set(@, up, child) ELSE @]
  IN [top EXCEPT !.rchild[node] = inner, !.lchild[child] = node,
                 !.parent = [@ EXCEPT ![child] = up, ![node] = child]]

left_rotate(g, node) ==
  LET up == g.parent[node]
      child == g.rchild[node]
      inner == g.lchild[child]
      top == [g EXCEPT !.tree = IF up = NULL THEN child ELSE @,
                       !.lchild = IF up # NULL /\ g.lchild[up] = node THEN Set(@, up, child) ELSE @,
                       !.rchild = IF up # NULL /\ g.rchild[up] = node THEN Set(@, up, child) ELSE @]
  IN [top EXCEPT !.rchild[node] = inner, !.lchild[child] = node,
                 !.parent = [Set(@, inner, node) EXCEPT ![child] = up, ![node] = child]]

\* Mutant: the subtree between the two nodes is dropped.
right_rotate_drop(g, node) ==
  LET up == g.parent[node]
      child == g.lchild[node]
      top == [g EXCEPT !.tree = IF up = NULL THEN child ELSE @,
                       !.lchild = IF up # NULL /\ g.lchild[up] = node THEN Set(@, up, child) ELSE @,
                       !.rchild = IF up # NULL /\ g.lchild[up] # node THEN Set(@, up, child) ELSE @]
  IN [top EXCEPT !.lchild[node] = NULL, !.rchild[child] = node,
                 !.parent = [@ EXCEPT ![child] = up, ![node] = child]]

right_rotate(g, node) ==
  LET up == g.parent[node]
      child == g.lchild[node]
      inner == g.rchild[child]
      top == [g EXCEPT !.tree = IF up = NULL THEN child ELSE @,
                       !.lchild = IF up # NULL /\ g.lchild[up] = node THEN Set(@, up, child) ELSE @,
                       !.rchild = IF up # NULL /\ g.lchild[up] # node THEN Set(@, up, child) ELSE @]
  IN [top EXCEPT !.lchild[node] = inner, !.rchild[child] = node,
                 !.parent = [Set(@, inner, node) EXCEPT ![child] = up, ![node] = child]]

Paint(g, n, c) == [g EXCEPT !.type[n] = c]

(***************************************************************************)
(* insert.                                                                 *)
(***************************************************************************)
\* Into an empty tree.
InsertFirst(v) ==
  /\ pc = "idle" /\ h.tree = NULL
  /\ h' = Paint([h EXCEPT !.tree = v], v, "black")
  /\ nodes' = {v}
  /\ ret' = 1
  /\ UNCHANGED <<pc, val, root, p, locate, targets, searching>>

Insert(v) ==
  /\ pc = "idle" /\ h.tree # NULL
  /\ val' = v /\ root' = h.tree /\ p' = NULL
  /\ pc' = "find"
  /\ UNCHANGED <<h, nodes, locate, ret, targets, searching>>

Find ==
  /\ pc = "find" /\ root \notin {NULL, val}
  /\ p' = root
  /\ root' = IF root > val THEN h.lchild[root] ELSE h.rchild[root]
  /\ UNCHANGED <<h, nodes, pc, val, locate, ret, targets, searching>>

Exists ==
  /\ pc = "find" /\ root = val
  /\ ret' = -1
  /\ pc' = "idle"
  /\ UNCHANGED <<h, nodes, val, root, p, locate, targets, searching>>

Link ==
  /\ pc = "find" /\ root = NULL
  /\ h' = IF val < p THEN [h EXCEPT !.parent[val] = p, !.lchild[p] = val]
                     ELSE [h EXCEPT !.parent[val] = p, !.rchild[p] = val]
  /\ nodes' = nodes \cup {val}
  /\ locate' = val
  /\ pc' = "rebalance"
  /\ UNCHANGED <<val, root, p, ret, targets, searching>>

Up == h.parent[locate]                    \* p in the second loop
UpUp == h.parent[Up]                      \* pp
RedUp == Up # NULL /\ h.type[Up] = "red"  \* the condition of that loop

\* u: the child of pp on the side that locate does not have in p.
Uncle == IF locate = h.rchild[Up] THEN h.lchild[UpUp] ELSE h.rchild[UpUp]
RedUncle == Uncle # NULL /\ h.type[Uncle] = "red"

\* Mutant: the loop goes on at p.
RecolorStays ==
  /\ pc = "rebalance" /\ RedUp /\ RedUncle
  /\ h' = Paint(Paint(Paint(h, UpUp, "red"), Uncle, "black"), Up, "red")
  /\ UNCHANGED <<insertion, searching>>

Recolor ==
  /\ pc = "rebalance" /\ RedUp /\ RedUncle
  /\ h' = Paint(Paint(Paint(h, UpUp, "red"), Uncle, "black"), Up, "black")
  /\ locate' = UpUp
  /\ UNCHANGED <<nodes, pc, val, root, p, ret, targets, searching>>

\* The four cases of the rotation.  The inner ones end the loop, and so does
\* the test of the parent's colour after an outer one.
Rotations ==
  LET outer == Paint(Paint(h, Up, "black"), UpUp, "red")
      inner(g) == Paint(Paint(g, locate, "black"), UpUp, "red")
      l == left_rotate(h, Up)
      r == right_rotate(h, Up)
  IN IF Up = h.lchild[UpUp]
     THEN IF locate = h.lchild[Up] THEN <<right_rotate(outer, UpUp)>>
          ELSE <<l, right_rotate(inner(l), UpUp)>>
     ELSE IF locate = h.rchild[Up] THEN <<left_rotate(outer, UpUp)>>
          ELSE <<r, left_rotate(inner(r), UpUp)>>

\* g with the pointers of h that a search follows.  It does not look at
\* colours and parents, so these may change at once.
Begun(g) == [g EXCEPT !.tree = h.tree, !.lchild = h.lchild, !.rchild = h.rchild]

Rotate ==
  /\ pc = "rebalance" /\ RedUp /\ ~RedUncle
  /\ targets' = Rotations
  /\ h' = Begun(Head(Rotations))
  /\ pc' = "write"
  /\ rotated' = busy
  /\ UNCHANGED <<nodes, val, root, p, locate, ret, busy, at, sval, known>>

\* One pointer of a rotation is written.
WritePointer ==
  /\ pc = "write"
  /\ LET g == Head(targets)
     IN \/ h.tree # g.tree /\ h' = [h EXCEPT !.tree = g.tree]
        \/ \E v \in Value :
             \/ h.lchild[v] # g.lchild[v] /\ h' = [h EXCEPT !.lchild[v] = g.lchild[v]]
             \/ h.rchild[v] # g.rchild[v] /\ h' = [h EXCEPT !.rchild[v] = g.rchild[v]]
  /\ UNCHANGED <<insertion, searching>>

\* All of them are: the next rotation, or back to the loop.
Rotated ==
  /\ pc = "write"
  /\ h = Head(targets)
  /\ targets' = Tail(targets)
  /\ IF Len(targets) > 1 THEN h' = Begun(targets[2]) /\ UNCHANGED pc
     ELSE pc' = "rebalance" /\ UNCHANGED h
  /\ UNCHANGED <<nodes, val, root, p, locate, ret, searching>>

\* The root is painted black, and insert ends without a return.
Finish ==
  /\ pc = "rebalance" /\ ~RedUp
  /\ h' = Paint(h, h.tree, "black")
  /\ ret' \in Garbage
  /\ pc' = "idle"
  /\ UNCHANGED <<nodes, val, root, p, locate, targets, searching>>

\* create_node finds no memory: the code returned is 0.
InsertNoNode ==
  /\ pc = "idle"
  /\ ret' = 0
  /\ UNCHANGED <<h, nodes, pc, val, root, p, locate, targets, searching>>

(***************************************************************************)
(* search, in a thread of its own.                                         *)
(***************************************************************************)
Search(v) ==
  /\ ~busy
  /\ busy' = TRUE /\ at' = h.tree /\ sval' = v
  /\ known' = (v \in nodes) /\ rotated' = (pc = "write")
  /\ UNCHANGED <<h, insertion>>

\* Mutant: the search turns the wrong way.
SearchTurnFlipped ==
  /\ busy /\ at \notin {NULL, sval}
  /\ at' = IF at > sval THEN h.rchild[at] ELSE h.lchild[at]
  /\ UNCHANGED <<h, insertion, busy, sval, known, rotated>>

SearchTurn ==
  /\ busy /\ at \notin {NULL, sval}
  /\ at' = IF at > sval THEN h.lchild[at] ELSE h.rchild[at]
  /\ UNCHANGED <<h, insertion, busy, sval, known, rotated>>

\* return p, or nullptr.
SearchReturns ==
  /\ busy /\ at \in {NULL, sval}
  /\ busy' = FALSE /\ at' = NULL /\ sval' = NULL /\ known' = FALSE /\ rotated' = FALSE
  /\ UNCHANGED <<h, insertion>>

Running == Find \/ Exists \/ Link \/ Recolor \/ Rotate \/ WritePointer \/ Rotated \/ Finish

Next == \/ Running \/ InsertNoNode \/ SearchTurn \/ SearchReturns
        \/ \E v \in Value : InsertFirst(v) \/ Insert(v)
        \/ \E v \in Searched : Search(v)

Spec == Init /\ [][Next]_vars

\* A call that has begun runs on.
FairSpec == Spec /\ WF_vars(Running) /\ WF_vars(SearchTurn \/ SearchReturns)

(***************************************************************************)
(* Properties.                                                             *)
(***************************************************************************)
\* No pointer of a rotation is still to be written.
Settled == pc = "write" => h = Head(targets)

\* search(v): the nodes its loop visits, when nothing runs beside it.
Visits(v) ==
  LET step[i \in 0..Cardinality(Value)] ==
        IF i = 0 THEN h.tree
        ELSE LET n == step[i - 1]
             IN IF n = NULL \/ n = v THEN n
                ELSE IF n > v THEN h.lchild[n] ELSE h.rchild[n]
  IN {step[i] : i \in 0..Cardinality(Value)}

\* search finds exactly the values that were inserted, after every turn of
\* the rebalancing too: no recolouring or rotation loses a node, moves it to
\* the wrong side or closes a cycle.
SearchFindsInserted == Settled => \A v \in Value : v \in Visits(v) <=> v \in nodes

\* Parent and child pointers agree, as the next rebalancing relies on.
ParentsMatch == Settled =>
  /\ h.tree # NULL => h.parent[h.tree] = NULL
  /\ \A n \in nodes :
       /\ h.lchild[n] # NULL => h.parent[h.lchild[n]] = n
       /\ h.rchild[n] # NULL => h.parent[h.rchild[n]] = n
       /\ h.parent[n] # NULL => n \in {h.lchild[h.parent[n]], h.rchild[h.parent[n]]}

\* A red parent has a parent: "because parent is red, so pp must be exist".
\* The loop dereferences it without a test.
GrandparentExists == pc = "rebalance" /\ RedUp => UpUp # NULL

\* The tree is a tree, and the loop never leaves it.
WellFormed == TypeOK /\ ParentsMatch /\ GrandparentExists

\* Every insert ends.
InsertEnds == (pc # "idle") ~> (pc = "idle")

\* A search beside an insert misses a value that was in the tree only if a
\* rotation ran beside it: linking a node and recolouring do it no harm.
MissOnlyIfRotated == busy /\ at = NULL /\ known => rotated

\* Every search ends, although half-written rotations close cycles.
SearchEnds == busy ~> ~busy

\* Calls end, also when an insert and a search run side by side.
CallsEnd == InsertEnds /\ SearchEnds

Blacks(n) ==
  LET up[i \in 0..Cardinality(Value)] ==
        IF i = 0 THEN n ELSE IF up[i - 1] = NULL THEN NULL ELSE h.parent[up[i - 1]]
  IN Cardinality({up[i] : i \in 0..Cardinality(Value)} \cap {v \in Value : h.type[v] = "black"})

\* Between calls the tree is balanced: the paths from the root to the missing
\* children have the same number of black nodes.
BlackBalanced ==
  pc = "idle" =>
    \A m, n \in {v \in nodes : NULL \in {h.lchild[v], h.rchild[v]}} : Blacks(m) = Blacks(n)
=============================================================================
