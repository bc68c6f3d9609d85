---------------------------- MODULE RBTreeProof ----------------------------
(***************************************************************************)
(* Proofs about RBTree for any finite set of values: the tree stays a      *)
(* search tree, and the rebalancing never leaves it.                       *)
(*                                                                         *)
(* That a search finds a node is a statement about paths.  The invariant   *)
(* speaks of single nodes instead: some function D gives every node n the  *)
(* values D[n] whose search comes by n.  A child's values are those of its *)
(* parent on its side, and no search ends at two nodes (OneEnd).           *)
(***************************************************************************)
EXTENDS RBTree, FiniteSetTheorems, WellFoundedInduction, NaturalsInduction, TLAPS

\* The values on either side of each node.
Below == [n \in Value |-> {v \in Value : v < n}]
Above == [n \in Value |-> {v \in Value : v > n}]

\* lo and hi are the two sides of a strict order: the left and right of the
\* tree, or, mirrored, the right and left.
Sides(lo, hi) ==
  /\ lo \in [Value -> SUBSET Value] /\ hi \in [Value -> SUBSET Value]
  /\ \A x \in Value : x \notin lo[x] /\ x \notin hi[x]
  /\ \A x, y \in Value : x \in lo[y] \/ x \in hi[y] \/ x = y
  /\ \A x, y \in Value : x \in lo[y] <=> y \in hi[x]
  /\ \A x, y \in Value : x \in lo[y] => lo[x] \subseteq lo[y] /\ hi[y] \subseteq hi[x]

\* Pointers of the heap, and of its mirror image.
Pointers(t, up, l, r) ==
  /\ t \in Ptr /\ up \in [Value -> Ptr] /\ l \in [Value -> Ptr] /\ r \in [Value -> Ptr]

\* The search for v ends at n: n has v, or no child on the side of v.
End(l, r, D, lo, hi, n, v) ==
  /\ v \in D[n]
  /\ \/ v = n
     \/ v \in lo[n] /\ l[n] = NULL
     \/ v \in hi[n] /\ r[n] = NULL

\* t is the root, and every search passes it.
Rooted(t, up, S, D) == t \in S /\ D[t] = Value /\ up[t] = NULL

\* The search for a node passes it.
Home(S, D) == \A n \in S : n \in D[n]

\* The children on one side are nodes, point back, and see the searches of
\* their parent that turn to this side.
Children(up, c, S, D, side) ==
  \A n \in S : c[n] # NULL => c[n] \in S /\ up[c[n]] = n /\ D[c[n]] = D[n] \cap side[n]

\* Every node but the root hangs below its parent.
Hangs(t, up, l, r, S) ==
  /\ \A n \in S : up[n] # NULL => up[n] \in S /\ (n = l[up[n]] \/ n = r[up[n]])
  /\ \A n \in S : up[n] = NULL => n = t

\* No search ends at two nodes.
OneEnd(l, r, S, D, lo, hi) ==
  \A v \in Value : \A m, n \in S :
    End(l, r, D, lo, hi, m, v) /\ End(l, r, D, lo, hi, n, v) => m = n

\* Nodes that are not linked have no pointers.
Unlinked(up, l, r, S) ==
  \A n \in Value \ S : up[n] = NULL /\ l[n] = NULL /\ r[n] = NULL

Tree(t, up, l, r, S, D, lo, hi) ==
  /\ S \subseteq Value /\ D \in [Value -> SUBSET Value]
  /\ Rooted(t, up, S, D) /\ Home(S, D)
  /\ Children(up, l, S, D, lo) /\ Children(up, r, S, D, hi)
  /\ Hangs(t, up, l, r, S)
  /\ OneEnd(l, r, S, D, lo, hi)
  /\ Unlinked(up, l, r, S)

\* The order of the integers, and its mirror image.
LEMMA Order == Sides(Below, Above) /\ Sides(Above, Below)
<1>0. Value \subseteq Int
  BY RBAssumption
<1>1. Below \in [Value -> SUBSET Value] /\ Above \in [Value -> SUBSET Value]
  BY DEF Below, Above
<1>2. \A x, y \in Value : (x \in Below[y] <=> x < y) /\ (x \in Above[y] <=> x > y)
  BY DEF Below, Above
<1>3. \A x, y, z \in Value : x < y /\ y < z => x < z
  BY <1>0
<1>4. \A x, y \in Value : (x < y <=> y > x) /\ (x < y \/ x > y \/ x = y) /\ ~(x < x) /\ ~(x > x)
  BY <1>0
<1>5. \A x, y \in Value : x \in Below[y] => Below[x] \subseteq Below[y] /\ Above[y] \subseteq Above[x]
  <2> SUFFICES ASSUME NEW x \in Value, NEW y \in Value, x \in Below[y]
               PROVE  Below[x] \subseteq Below[y] /\ Above[y] \subseteq Above[x]
    OBVIOUS
  <2>1. \A v \in Below[x] : v \in Value /\ v \in Below[y]
    BY <1>1, <1>2, <1>3
  <2>2. \A v \in Above[y] : v \in Value /\ v \in Above[x]
    BY <1>1, <1>2, <1>3, <1>4
  <2> QED BY <2>1, <2>2
<1>6. \A x, y \in Value : x \in Above[y] => Above[x] \subseteq Above[y] /\ Below[y] \subseteq Below[x]
  <2> SUFFICES ASSUME NEW x \in Value, NEW y \in Value, x \in Above[y]
               PROVE  Above[x] \subseteq Above[y] /\ Below[y] \subseteq Below[x]
    OBVIOUS
  <2>1. y \in Below[x]
    BY <1>2, <1>4
  <2> QED BY <2>1, <1>5
<1>7. \A x, y \in Value : (x \in Below[y] <=> y \in Above[x]) /\ (x \in Below[y] \/ x \in Above[y] \/ x = y)
                          /\ x \notin Below[x] /\ x \notin Above[x]
  BY <1>2, <1>4
<1> QED BY <1>1, <1>5, <1>6, <1>7 DEF Sides

\* The mirror image of a tree is a tree.
LEMMA Mirror ==
  ASSUME NEW t, NEW up, NEW l, NEW r, NEW S, NEW D, NEW lo, NEW hi
  PROVE  Tree(t, up, l, r, S, D, lo, hi) <=> Tree(t, up, r, l, S, D, hi, lo)
<1>1. Hangs(t, up, l, r, S) <=> Hangs(t, up, r, l, S)
  BY DEF Hangs
<1>2. Unlinked(up, l, r, S) <=> Unlinked(up, r, l, S)
  BY DEF Unlinked
<1>3. \A n, v : End(l, r, D, lo, hi, n, v) <=> End(r, l, D, hi, lo, n, v)
  BY DEF End
<1>4. OneEnd(l, r, S, D, lo, hi) <=> OneEnd(r, l, S, D, hi, lo)
  BY <1>3 DEF OneEnd
<1> QED BY <1>1, <1>2, <1>4 DEF Tree

(***************************************************************************)
(* Rotations.                                                              *)
(***************************************************************************)
\* The second tree is the first one turned at y: the left child x of y takes
\* the place of y, and y the right subtree of x.
Turned(t, up, l, r, y, t2, up2, l2, r2) ==
  LET x == l[y]
      b == r[x]
      u == up[y]
  IN /\ Pointers(t2, up2, l2, r2)
     /\ t2 = IF u = NULL THEN x ELSE t
     /\ \A n \in Value : l2[n] = IF n = y THEN b ELSE IF n = u /\ l[u] = y THEN x ELSE l[n]
     /\ \A n \in Value : r2[n] = IF n = x THEN y ELSE IF n = u /\ r[u] = y THEN x ELSE r[n]
     /\ \A n \in Value : up2[n] = IF n = y THEN x ELSE IF n = x THEN u ELSE IF n = b THEN y ELSE up[n]

\* Then the searches that came by y come by x, and y keeps those above x.
TurnedExtents(D, l, y, hi) == [D EXCEPT ![l[y]] = D[y], ![y] = D[y] \cap hi[l[y]]]

\* A node, its child and its grandchild are not one another, nor the parent.
LEMMA Apart ==
  ASSUME NEW t, NEW up, NEW l, NEW r, NEW S, NEW D, NEW lo, NEW hi,
         Sides(lo, hi), Tree(t, up, l, r, S, D, lo, hi), Pointers(t, up, l, r),
         NEW y \in S, NEW x \in S, x = l[y], NEW b, b = r[x], NEW u, u = up[y]
  PROVE  /\ y \in Value /\ x \in Value /\ x # y /\ up[x] = y
         /\ x \in lo[y] /\ y \in hi[x] /\ D[x] = D[y] \cap lo[y] /\ x \in D[x] /\ y \in D[y]
         /\ b # NULL => /\ b \in S /\ b # x /\ b # y /\ up[b] = x /\ D[b] = D[x] \cap hi[x]
                        /\ b # u
         /\ u # NULL => /\ u \in S /\ u # x /\ u # y
                        /\ (l[u] = y \/ r[u] = y) /\ ~(l[u] = y /\ r[u] = y)
<1> USE DEF Tree, Pointers
<1>0. NULL \notin Value
  BY RBAssumption
<1>1. y \in Value /\ x \in Value /\ x # NULL
  BY <1>0
<1>2. x \in D[x] /\ y \in D[y]
  BY DEF Home
<1>3. up[x] = y /\ D[x] = D[y] \cap lo[y]
  BY <1>1 DEF Children
<1>4. x \in lo[y] /\ y \notin lo[y] /\ y \in hi[x]
  BY <1>1, <1>2, <1>3 DEF Sides
<1>5. x # y
  BY <1>4
<1>6. ASSUME b # NULL
      PROVE  b \in S /\ b # x /\ b # y /\ up[b] = x /\ D[b] = D[x] \cap hi[x]
  <2>1. b \in S /\ up[b] = x /\ D[b] = D[x] \cap hi[x]
    BY <1>6 DEF Children
  <2>2. b \in D[b]
    BY <2>1 DEF Home
  <2>3. x \notin hi[x] /\ y \notin lo[y]
    BY <1>1 DEF Sides
  <2> QED BY <2>1, <2>2, <2>3, <1>3
<1>7. ASSUME u # NULL
      PROVE  /\ u \in S /\ u # x /\ u # y
             /\ (l[u] = y \/ r[u] = y) /\ ~(l[u] = y /\ r[u] = y)
             /\ D[y] \subseteq D[u]
  <2>1. u \in S /\ (l[u] = y \/ r[u] = y)
    BY <1>7 DEF Hangs
  <2>2. y # NULL /\ u \in Value
    BY <1>0, <1>1, <2>1
  <2>3. /\ l[u] = y => D[y] = D[u] \cap lo[u]
        /\ r[u] = y => D[y] = D[u] \cap hi[u]
    BY <2>1, <2>2 DEF Children
  <2>4. u \notin lo[u] /\ u \notin hi[u]
    BY <2>2 DEF Sides
  <2>5. u # y
    BY <1>2, <2>1, <2>3, <2>4
  <2>6. ~(l[u] = y /\ r[u] = y)
    <3> SUFFICES ASSUME l[u] = y, r[u] = y PROVE FALSE
      OBVIOUS
    <3>1. y \in lo[u] /\ y \in hi[u]
      BY <1>2, <2>3
    <3>2. u \in hi[y] /\ hi[u] \subseteq hi[y] /\ y \in hi[y]
      BY <3>1, <2>2, <1>1 DEF Sides
    <3> QED BY <3>2, <1>1 DEF Sides
  <2>7. D[y] \subseteq D[u]
    BY <2>1, <2>3
  <2>8. u # x
    BY <2>7, <1>2, <1>3, <1>4
  <2> QED BY <2>1, <2>5, <2>6, <2>7, <2>8
<1>8. b # NULL => b # u
  <2> SUFFICES ASSUME b # NULL, b = u PROVE FALSE
    OBVIOUS
  <2>1. D[y] \subseteq D[b] /\ D[b] \subseteq D[x]
    BY <1>6, <1>7
  <2> QED BY <2>1, <1>2, <1>3, <1>4
<1> QED BY <1>1, <1>2, <1>3, <1>4, <1>5, <1>6, <1>7, <1>8

\* A rotation keeps a search tree.
LEMMA TurnKeepsTree ==
  ASSUME NEW t, NEW up, NEW l, NEW r, NEW S, NEW D, NEW lo, NEW hi,
         Sides(lo, hi), Tree(t, up, l, r, S, D, lo, hi), Pointers(t, up, l, r),
         NEW y \in S, l[y] # NULL,
         NEW t2, NEW up2, NEW l2, NEW r2, Turned(t, up, l, r, y, t2, up2, l2, r2)
  PROVE  Tree(t2, up2, l2, r2, S, TurnedExtents(D, l, y, hi), lo, hi)
<1>0. NULL \notin Value /\ S \subseteq Value /\ D \in [Value -> SUBSET Value]
  BY RBAssumption DEF Tree
<1>00. PICK x : x = l[y]
  OBVIOUS
<1>01. PICK b : b = r[x]
  OBVIOUS
<1>02. PICK u : u = up[y]
  OBVIOUS
<1>03. PICK E : E = TurnedExtents(D, l, y, hi)
  OBVIOUS
<1>04. x \in S /\ x # NULL
  BY <1>00 DEF Tree, Children
<1>1. /\ y \in Value /\ x \in Value /\ x # y /\ up[x] = y
      /\ x \in lo[y] /\ y \in hi[x] /\ D[x] = D[y] \cap lo[y] /\ x \in D[x] /\ y \in D[y]
  BY <1>00, <1>01, <1>02, <1>04, Apart
<1>2. b # NULL => /\ b \in S /\ b # x /\ b # y /\ up[b] = x /\ D[b] = D[x] \cap hi[x]
                  /\ b # u
  BY <1>00, <1>01, <1>02, <1>04, Apart
<1>3. u # NULL => /\ u \in S /\ u # x /\ u # y
                  /\ (l[u] = y \/ r[u] = y) /\ ~(l[u] = y /\ r[u] = y)
  BY <1>00, <1>01, <1>02, <1>04, Apart
<1>4. /\ Pointers(t2, up2, l2, r2)
      /\ t2 = IF u = NULL THEN x ELSE t
  BY <1>00, <1>01, <1>02 DEF Turned
<1>5. \A n \in S : l2[n] = IF n = y THEN b ELSE IF n = u /\ l[u] = y THEN x ELSE l[n]
  BY <1>0, <1>00, <1>01, <1>02 DEF Turned
<1>6. \A n \in S : r2[n] = IF n = x THEN y ELSE IF n = u /\ r[u] = y THEN x ELSE r[n]
  BY <1>0, <1>00, <1>01, <1>02 DEF Turned
<1>7. \A n \in S : up2[n] = IF n = y THEN x ELSE IF n = x THEN u ELSE IF n = b THEN y ELSE up[n]
  BY <1>0, <1>00, <1>01, <1>02 DEF Turned
<1>8. /\ E \in [Value -> SUBSET Value]
      /\ E[x] = D[y] /\ E[y] = D[y] \cap hi[x]
      /\ \A n \in S : n # x /\ n # y => E[n] = D[n]
  BY <1>0, <1>00, <1>03, <1>1 DEF TurnedExtents
<1>9. /\ t \in S /\ D[t] = Value /\ up[t] = NULL
      /\ \A n \in S : n \in D[n]
      /\ \A n \in S : l[n] # NULL => l[n] \in S /\ up[l[n]] = n /\ D[l[n]] = D[n] \cap lo[n]
      /\ \A n \in S : r[n] # NULL => r[n] \in S /\ up[r[n]] = n /\ D[r[n]] = D[n] \cap hi[n]
  BY DEF Tree, Rooted, Home, Children
<1>10. /\ \A n \in S : up[n] # NULL => up[n] \in S /\ (n = l[up[n]] \/ n = r[up[n]])
       /\ \A n \in S : up[n] = NULL => n = t
  BY DEF Tree, Hangs
<1>11. lo[x] \subseteq lo[y] /\ hi[y] \subseteq hi[x] /\ x \notin hi[x] /\ y \notin lo[y]
  BY <1>1 DEF Sides
<1>12. y # NULL
  BY <1>0, <1>1
<1>13. Rooted(t2, up2, S, E)
  <2>1. CASE u = NULL
    BY <2>1, <1>02, <1>04, <1>1, <1>4, <1>7, <1>8, <1>9, <1>10 DEF Rooted
  <2>2. CASE u # NULL
    <3>1. t2 = t /\ t # y /\ t # x /\ t # b
      BY <2>2, <1>0, <1>02, <1>1, <1>2, <1>4, <1>9, <1>12, <1>04
    <3> QED BY <3>1, <1>7, <1>8, <1>9 DEF Rooted
  <2> QED BY <2>1, <2>2
<1>14. Home(S, E)
  <2> SUFFICES ASSUME NEW n \in S PROVE n \in E[n]
    BY DEF Home
  <2> QED BY <1>1, <1>8, <1>9
<1>15. Children(up2, l2, S, E, lo)
  <2> SUFFICES ASSUME NEW n \in S, l2[n] # NULL
               PROVE  l2[n] \in S /\ up2[l2[n]] = n /\ E[l2[n]] = E[n] \cap lo[n]
    BY DEF Children
  <2>1. CASE n = y
    <3>1. l2[n] = b /\ b # NULL
      BY <2>1, <1>5
    <3>2. b \in S /\ up2[b] = y /\ E[b] = D[b]
      BY <3>1, <1>2, <1>7, <1>8
    <3>3. D[b] = (D[y] \cap hi[x]) \cap lo[y]
      BY <3>1, <1>1, <1>2
    <3> QED BY <2>1, <3>1, <3>2, <3>3, <1>8
  <2>2. CASE n = x
    <3>1. l2[n] = l[x] /\ l[x] # NULL
      BY <2>2, <1>1, <1>3, <1>5, <1>04
    <3>2. l[x] \in S /\ up[l[x]] = x /\ D[l[x]] = D[x] \cap lo[x]
      BY <3>1, <1>04, <1>9
    <3>3. l[x] # y /\ l[x] # x /\ l[x] # b
      <4>1. l[x] # x
        BY <3>2, <1>1
      <4>2. l[x] # y
        BY <3>2, <1>02, <1>3, <1>04
      <4>3. l[x] # b
        <5> SUFFICES ASSUME l[x] = b PROVE FALSE
          OBVIOUS
        <5>1. b \in lo[x] /\ b \in hi[x] /\ b \in Value
          BY <3>1, <3>2, <1>0, <1>2, <1>9
        <5>2. x \in lo[b] /\ lo[b] \subseteq lo[x]
          BY <5>1, <1>1 DEF Sides
        <5> QED BY <5>2, <1>1 DEF Sides
      <4> QED BY <4>1, <4>2, <4>3
    <3>4. up2[l[x]] = x /\ E[l[x]] = D[l[x]]
      BY <3>2, <3>3, <1>7, <1>8
    <3>5. D[l[x]] = D[y] \cap lo[x]
      BY <3>2, <1>1, <1>11
    <3> QED BY <2>2, <3>1, <3>2, <3>4, <3>5, <1>8
  <2>3. CASE n # y /\ n # x /\ n = u /\ l[u] = y
    <3>1. l2[n] = x
      BY <2>3, <1>5
    <3>2. up2[x] = u /\ E[u] = D[u] /\ E[x] = D[y]
      BY <2>3, <1>1, <1>7, <1>8, <1>04
    <3>3. D[y] = D[u] \cap lo[u]
      BY <2>3, <1>9, <1>12
    <3> QED BY <2>3, <3>1, <3>2, <3>3, <1>04
  <2>4. CASE n # y /\ n # x /\ ~(n = u /\ l[u] = y)
    <3>1. l2[n] = l[n] /\ l[n] # NULL
      BY <2>4, <1>5
    <3>2. l[n] \in S /\ up[l[n]] = n /\ D[l[n]] = D[n] \cap lo[n]
      BY <3>1, <1>9
    <3>3. l[n] # x /\ l[n] # b
      BY <3>1, <3>2, <2>4, <1>1, <1>2
    <3>4. l[n] # y
      BY <3>2, <2>4, <1>02
    <3>5. up2[l[n]] = n /\ E[l[n]] = D[l[n]] /\ E[n] = D[n]
      BY <3>2, <3>3, <3>4, <2>4, <1>7, <1>8
    <3> QED BY <3>1, <3>2, <3>5
  <2> QED BY <2>1, <2>2, <2>3, <2>4
<1>16. Children(up2, r2, S, E, hi)
  <2> SUFFICES ASSUME NEW n \in S, r2[n] # NULL
               PROVE  r2[n] \in S /\ up2[r2[n]] = n /\ E[r2[n]] = E[n] \cap hi[n]
    BY DEF Children
  <2>1. CASE n = x
    <3>1. r2[n] = y /\ up2[y] = x
      BY <2>1, <1>6, <1>7
    <3> QED BY <2>1, <3>1, <1>8
  <2>2. CASE n = y
    <3>1. r2[n] = r[y] /\ r[y] # NULL
      BY <2>2, <1>1, <1>3, <1>6, <1>12
    <3>2. r[y] \in S /\ up[r[y]] = y /\ D[r[y]] = D[y] \cap hi[y]
      BY <3>1, <1>9
    <3>3. r[y] # y /\ r[y] # b
      BY <3>1, <3>2, <1>1, <1>2, <1>02, <1>3, <1>12
    <3>4. r[y] # x
      <4> SUFFICES ASSUME r[y] = x PROVE FALSE
        OBVIOUS
      <4>1. x \in hi[y] /\ x \in lo[y]
        BY <3>2, <1>1
      <4>2. x \in hi[x]
        BY <4>1, <1>11
      <4> QED BY <4>2, <1>11
    <3>5. up2[r[y]] = y /\ E[r[y]] = D[r[y]]
      BY <3>2, <3>3, <3>4, <1>7, <1>8
    <3>6. D[r[y]] = (D[y] \cap hi[x]) \cap hi[y]
      BY <3>2, <1>11
    <3> QED BY <2>2, <3>1, <3>2, <3>5, <3>6, <1>8
  <2>3. CASE n # y /\ n # x /\ n = u /\ r[u] = y
    <3>1. r2[n] = x
      BY <2>3, <1>6
    <3>2. up2[x] = u /\ E[u] = D[u] /\ E[x] = D[y]
      BY <2>3, <1>1, <1>7, <1>8, <1>04
    <3>3. D[y] = D[u] \cap hi[u]
      BY <2>3, <1>9, <1>12
    <3> QED BY <2>3, <3>1, <3>2, <3>3, <1>04
  <2>4. CASE n # y /\ n # x /\ ~(n = u /\ r[u] = y)
    <3>1. r2[n] = r[n] /\ r[n] # NULL
      BY <2>4, <1>6
    <3>2. r[n] \in S /\ up[r[n]] = n /\ D[r[n]] = D[n] \cap hi[n]
      BY <3>1, <1>9
    <3>3. r[n] # x /\ r[n] # b
      BY <3>1, <3>2, <2>4, <1>1, <1>2
    <3>4. r[n] # y
      BY <3>2, <2>4, <1>02
    <3>5. up2[r[n]] = n /\ E[r[n]] = D[r[n]] /\ E[n] = D[n]
      BY <3>2, <3>3, <3>4, <2>4, <1>7, <1>8
    <3> QED BY <3>1, <3>2, <3>5
  <2> QED BY <2>1, <2>2, <2>3, <2>4
<1>17. Hangs(t2, up2, l2, r2, S)
  <2> SUFFICES ASSUME NEW n \in S
               PROVE  /\ up2[n] # NULL => up2[n] \in S /\ (n = l2[up2[n]] \/ n = r2[up2[n]])
                      /\ up2[n] = NULL => n = t2
    BY DEF Hangs
  <2>1. CASE n = y
    BY <2>1, <1>6, <1>7, <1>04
  <2>2. CASE n = x
    <3>1. up2[n] = u
      BY <2>2, <1>1, <1>7
    <3>2. u # NULL => u \in S /\ (l2[u] = x \/ r2[u] = x)
      BY <1>3, <1>5, <1>6
    <3> QED BY <2>2, <3>1, <3>2, <1>4
  <2>3. CASE n # y /\ n # x /\ n = b
    <3>1. up2[n] = y /\ l2[y] = b
      BY <2>3, <1>7, <1>5
    <3> QED BY <2>3, <3>1, <1>12
  <2>4. CASE n # y /\ n # x /\ n # b
    <3>1. up2[n] = up[n]
      BY <2>4, <1>7
    <3>2. up[n] = NULL => n = t /\ u # NULL
      BY <2>4, <1>02, <1>10
    <3>3. ASSUME up[n] # NULL
          PROVE  up[n] \in S /\ (n = l2[up[n]] \/ n = r2[up[n]])
      <4>1. PICK q : q = up[n]
        OBVIOUS
      <4>2. q \in S /\ (n = l[q] \/ n = r[q])
        BY <3>3, <4>1, <1>10
      <4>3. n = l[q] => n = l2[q]
        BY <4>2, <2>4, <1>5, <1>00
      <4>4. n = r[q] => n = r2[q]
        BY <4>2, <2>4, <1>6, <1>01
      <4> QED BY <4>1, <4>2, <4>3, <4>4
    <3> QED BY <3>1, <3>2, <3>3, <1>4
  <2> QED BY <2>1, <2>2, <2>3, <2>4
<1>18. OneEnd(l2, r2, S, E, lo, hi)
  <2>1. ASSUME NEW n \in S, NEW v \in Value, n # y, End(l2, r2, E, lo, hi, n, v)
        PROVE  End(l, r, D, lo, hi, n, v) /\ (n = x => v \notin hi[x])
    <3>1. CASE n = x
      <4>1. r2[x] # NULL /\ l2[x] = l[x] /\ E[x] = D[y]
        BY <1>04, <1>1, <1>3, <1>5, <1>6, <1>8, <1>12
      <4>2. v = x \/ (v \in lo[x] /\ l[x] = NULL)
        BY <2>1, <3>1, <4>1 DEF End
      <4>3. v \in D[x]
        BY <2>1, <3>1, <4>1, <4>2, <1>1, <1>11 DEF End
      <4>4. v \notin hi[x]
        <5> SUFFICES ASSUME v \in lo[x], v \in hi[x] PROVE FALSE
          BY <4>2, <1>11
        <5>1. x \in lo[v] /\ lo[v] \subseteq lo[x]
          BY <1>1 DEF Sides
        <5> QED BY <5>1, <1>1 DEF Sides
      <4> QED BY <3>1, <4>2, <4>3, <4>4 DEF End
    <3>2. CASE n # x
      <4>1. E[n] = D[n] /\ (l2[n] = NULL => l[n] = NULL) /\ (r2[n] = NULL => r[n] = NULL)
        BY <3>2, <2>1, <1>5, <1>6, <1>8, <1>04
      <4> QED BY <2>1, <3>2, <4>1 DEF End
    <3> QED BY <3>1, <3>2
  <2>2. ASSUME NEW v \in Value, End(l2, r2, E, lo, hi, y, v)
        PROVE  \/ End(l, r, D, lo, hi, y, v)
               \/ End(l, r, D, lo, hi, x, v) /\ v \in hi[x]
    <3>1. l2[y] = b /\ E[y] = D[y] \cap hi[x] /\ r2[y] = r[y]
      BY <1>1, <1>3, <1>5, <1>6, <1>8, <1>12
    <3>2. v \in D[y] /\ v \in hi[x]
      BY <2>2, <3>1 DEF End
    <3>3. CASE v = y
      BY <3>2, <3>3 DEF End
    <3>4. CASE v \in hi[y] /\ r[y] = NULL
      BY <3>2, <3>4 DEF End
    <3>5. CASE v \in lo[y] /\ b = NULL
      BY <3>2, <3>5, <1>01, <1>1 DEF End
    <3> QED BY <2>2, <3>1, <3>3, <3>4, <3>5 DEF End
  <2>3. \A v \in Value : \A m, n \in S :
          End(l, r, D, lo, hi, m, v) /\ End(l, r, D, lo, hi, n, v) => m = n
    BY DEF Tree, OneEnd
  <2>4. ASSUME NEW v \in Value, NEW n \in S, n # y,
               End(l2, r2, E, lo, hi, n, v), End(l2, r2, E, lo, hi, y, v)
        PROVE  FALSE
    <3>1. End(l, r, D, lo, hi, n, v) /\ (n = x => v \notin hi[x])
      BY <2>4, <2>1
    <3>2. \/ End(l, r, D, lo, hi, y, v)
          \/ End(l, r, D, lo, hi, x, v) /\ v \in hi[x]
      BY <2>4, <2>2
    <3> QED BY <3>1, <3>2, <2>3, <2>4, <1>04
  <2>5. \A v \in Value : \A m, n \in S :
          End(l2, r2, E, lo, hi, m, v) /\ End(l2, r2, E, lo, hi, n, v) => m = n
    BY <2>1, <2>3, <2>4
  <2> QED BY <2>5 DEF OneEnd
<1>19. Unlinked(up2, l2, r2, S)
  <2> SUFFICES ASSUME NEW n \in Value \ S
               PROVE  up2[n] = NULL /\ l2[n] = NULL /\ r2[n] = NULL
    BY DEF Unlinked
  <2>1. up[n] = NULL /\ l[n] = NULL /\ r[n] = NULL
    BY DEF Tree, Unlinked
  <2>2. n # x /\ n # y /\ n # b /\ n # u
    BY <1>0, <1>04, <1>2, <1>3
  <2>3. l2[n] = l[n] /\ r2[n] = r[n] /\ up2[n] = up[n]
    BY <2>2, <1>00, <1>01, <1>02 DEF Turned
  <2> QED BY <2>1, <2>3
<1> QED BY <1>0, <1>03, <1>8, <1>13, <1>14, <1>15, <1>16, <1>17, <1>18, <1>19 DEF Tree

\* The two rotations of the code turn the tree, one of them its mirror image.
LEMMA RightTurns ==
  ASSUME NEW g \in Heap, NEW S, NEW D, NEW y \in S, g.lchild[y] # NULL,
         Tree(g.tree, g.parent, g.lchild, g.rchild, S, D, Below, Above),
         NEW g2, g2 = right_rotate(g, y)
  PROVE  /\ Turned(g.tree, g.parent, g.lchild, g.rchild, y, g2.tree, g2.parent, g2.lchild, g2.rchild)
         /\ g2 \in Heap /\ g2.type = g.type
<1>0. NULL \notin Value
  BY RBAssumption
<1>1. /\ g.tree \in Ptr /\ g.parent \in [Value -> Ptr] /\ g.lchild \in [Value -> Ptr]
      /\ g.rchild \in [Value -> Ptr] /\ g.type \in [Value -> Color]
  BY DEF Heap
<1>2. Pointers(g.tree, g.parent, g.lchild, g.rchild)
  BY <1>1 DEF Pointers
<1>3. PICK x : x = g.lchild[y]
  OBVIOUS
<1>4. PICK b : b = g.rchild[x]
  OBVIOUS
<1>5. PICK u : u = g.parent[y]
  OBVIOUS
<1>6. x \in S /\ x # NULL
  BY <1>3 DEF Tree, Children
<1>7. /\ y \in Value /\ x \in Value /\ x # y
      /\ b # NULL => b \in Value /\ b # x /\ b # y
      /\ u # NULL => /\ u \in Value /\ u # x /\ u # y
                     /\ (g.lchild[u] = y \/ g.rchild[u] = y) /\ ~(g.lchild[u] = y /\ g.rchild[u] = y)
  BY <1>2, <1>3, <1>4, <1>5, <1>6, Order, Apart DEF Tree
<1>8. /\ g2.tree = IF u = NULL THEN x ELSE g.tree
      /\ g2.type = g.type
      /\ g2.lchild = [(IF u # NULL /\ g.lchild[u] = y THEN Set(g.lchild, u, x) ELSE g.lchild)
                        EXCEPT ![y] = b]
      /\ g2.rchild = [(IF u # NULL /\ g.lchild[u] # y THEN Set(g.rchild, u, x) ELSE g.rchild)
                        EXCEPT ![x] = y]
      /\ g2.parent = [Set(g.parent, b, y) EXCEPT ![x] = u, ![y] = x]
      /\ g2 = [tree |-> g2.tree, parent |-> g2.parent, lchild |-> g2.lchild,
               rchild |-> g2.rchild, type |-> g2.type]
  BY <1>3, <1>4, <1>5 DEF right_rotate, Heap
<1>9. /\ x \in Ptr /\ b \in Ptr /\ u \in Ptr /\ y \in Ptr
  BY <1>1, <1>3, <1>4, <1>5, <1>7 DEF Ptr
<1>10. /\ g2.lchild \in [Value -> Ptr]
       /\ \A n \in Value : g2.lchild[n] = IF n = y THEN b ELSE IF n = u /\ g.lchild[u] = y THEN x ELSE g.lchild[n]
  BY <1>0, <1>1, <1>7, <1>8, <1>9 DEF Set
<1>11. /\ g2.rchild \in [Value -> Ptr]
       /\ \A n \in Value : g2.rchild[n] = IF n = x THEN y ELSE IF n = u /\ g.rchild[u] = y THEN x ELSE g.rchild[n]
  BY <1>0, <1>1, <1>7, <1>8, <1>9 DEF Set
<1>12. /\ g2.parent \in [Value -> Ptr]
       /\ \A n \in Value : g2.parent[n] = IF n = y THEN x ELSE IF n = x THEN u ELSE IF n = b THEN y ELSE g.parent[n]
  BY <1>0, <1>1, <1>7, <1>8, <1>9 DEF Set
<1>13. g2.tree \in Ptr
  BY <1>1, <1>8, <1>9
<1>14. g2 \in Heap
  BY <1>1, <1>8, <1>10, <1>11, <1>12, <1>13 DEF Heap
<1>15. g2.type = g.type /\ g2.tree = IF u = NULL THEN x ELSE g.tree
  BY <1>8
<1>16. Pointers(g2.tree, g2.parent, g2.lchild, g2.rchild)
  BY <1>10, <1>11, <1>12, <1>13 DEF Pointers
<1>17. Turned(g.tree, g.parent, g.lchild, g.rchild, y, g2.tree, g2.parent, g2.lchild, g2.rchild)
  BY <1>3, <1>4, <1>5, <1>10, <1>11, <1>12, <1>15, <1>16 DEF Turned
<1> QED BY <1>14, <1>15, <1>17

\* left_rotate turns the mirror image.
LEMMA LeftTurns ==
  ASSUME NEW g \in Heap, NEW S, NEW D, NEW y \in S, g.rchild[y] # NULL,
         Tree(g.tree, g.parent, g.lchild, g.rchild, S, D, Below, Above),
         NEW g2, g2 = left_rotate(g, y)
  PROVE  /\ Turned(g.tree, g.parent, g.rchild, g.lchild, y, g2.tree, g2.parent, g2.rchild, g2.lchild)
         /\ g2 \in Heap /\ g2.type = g.type
<1>0. NULL \notin Value
  BY RBAssumption
<1>1. /\ g.tree \in Ptr /\ g.parent \in [Value -> Ptr] /\ g.lchild \in [Value -> Ptr]
      /\ g.rchild \in [Value -> Ptr] /\ g.type \in [Value -> Color]
  BY DEF Heap
<1>2. /\ Pointers(g.tree, g.parent, g.rchild, g.lchild)
      /\ Tree(g.tree, g.parent, g.rchild, g.lchild, S, D, Above, Below)
  BY <1>1, Mirror DEF Pointers
<1>3. PICK x : x = g.rchild[y]
  OBVIOUS
<1>4. PICK b : b = g.lchild[x]
  OBVIOUS
<1>5. PICK u : u = g.parent[y]
  OBVIOUS
<1>6. x \in S /\ x # NULL
  BY <1>3 DEF Tree, Children
<1>7. /\ y \in Value /\ x \in Value /\ x # y
      /\ b # NULL => b \in Value /\ b # x /\ b # y
      /\ u # NULL => /\ u \in Value /\ u # x /\ u # y
                     /\ (g.rchild[u] = y \/ g.lchild[u] = y) /\ ~(g.rchild[u] = y /\ g.lchild[u] = y)
  BY <1>2, <1>3, <1>4, <1>5, <1>6, Order, Apart DEF Tree
<1>8. /\ g2.tree = IF u = NULL THEN x ELSE g.tree
      /\ g2.type = g.type
      /\ g2.lchild = [(IF u # NULL /\ g.lchild[u] = y THEN Set(g.lchild, u, x) ELSE g.lchild)
                        EXCEPT ![x] = y]
      /\ g2.rchild = [(IF u # NULL /\ g.rchild[u] = y THEN Set(g.rchild, u, x) ELSE g.rchild)
                        EXCEPT ![y] = b]
      /\ g2.parent = [Set(g.parent, b, y) EXCEPT ![x] = u, ![y] = x]
      /\ g2 = [tree |-> g2.tree, parent |-> g2.parent, lchild |-> g2.lchild,
               rchild |-> g2.rchild, type |-> g2.type]
  BY <1>3, <1>4, <1>5 DEF left_rotate, Heap
<1>9. /\ x \in Ptr /\ b \in Ptr /\ u \in Ptr /\ y \in Ptr
  BY <1>1, <1>3, <1>4, <1>5, <1>7 DEF Ptr
<1>10. /\ g2.rchild \in [Value -> Ptr]
       /\ \A n \in Value : g2.rchild[n] = IF n = y THEN b ELSE IF n = u /\ g.rchild[u] = y THEN x ELSE g.rchild[n]
  BY <1>0, <1>1, <1>7, <1>8, <1>9 DEF Set
<1>11. /\ g2.lchild \in [Value -> Ptr]
       /\ \A n \in Value : g2.lchild[n] = IF n = x THEN y ELSE IF n = u /\ g.lchild[u] = y THEN x ELSE g.lchild[n]
  BY <1>0, <1>1, <1>7, <1>8, <1>9 DEF Set
<1>12. /\ g2.parent \in [Value -> Ptr]
       /\ \A n \in Value : g2.parent[n] = IF n = y THEN x ELSE IF n = x THEN u ELSE IF n = b THEN y ELSE g.parent[n]
  BY <1>0, <1>1, <1>7, <1>8, <1>9 DEF Set
<1>13. g2.tree \in Ptr
  BY <1>1, <1>8, <1>9
<1>14. g2 \in Heap
  BY <1>1, <1>8, <1>10, <1>11, <1>12, <1>13 DEF Heap
<1> QED BY <1>3, <1>4, <1>5, <1>8, <1>10, <1>11, <1>12, <1>13, <1>14 DEF Turned, Pointers

(***************************************************************************)
(* Linking, searching and recolouring.                                     *)
(***************************************************************************)
\* The search for w ends at q, to the left of it: w may be linked there.
LEMMA LinkKeepsTree ==
  ASSUME NEW t, NEW up, NEW l, NEW r, NEW S, NEW D, NEW lo, NEW hi,
         Sides(lo, hi), Tree(t, up, l, r, S, D, lo, hi), Pointers(t, up, l, r),
         NEW q \in S, NEW w \in Value, w \in lo[q], End(l, r, D, lo, hi, q, w)
  PROVE  /\ w \notin S
         /\ Tree(t, [up EXCEPT ![w] = q], [l EXCEPT ![q] = w], r, S \cup {w},
                 [D EXCEPT ![w] = D[q] \cap lo[q]], lo, hi)
<1>0. NULL \notin Value /\ S \subseteq Value /\ D \in [Value -> SUBSET Value]
  BY RBAssumption DEF Tree
<1>1. w # q /\ w \notin hi[q]
  <2>1. w # q
    BY <1>0 DEF Sides
  <2>2. ASSUME w \in hi[q] PROVE FALSE
    <3>1. q \in lo[w] /\ lo[w] \subseteq lo[q]
      BY <1>0, <2>2 DEF Sides
    <3> QED BY <3>1, <1>0 DEF Sides
  <2> QED BY <2>1, <2>2
<1>2. w \in D[q] /\ l[q] = NULL
  BY <1>1 DEF End
<1>3. w \notin S
  <2> SUFFICES ASSUME w \in S PROVE FALSE
    OBVIOUS
  <2>1. End(l, r, D, lo, hi, w, w)
    BY DEF End, Tree, Home
  <2> QED BY <2>1, <1>1 DEF Tree, OneEnd
<1>4. PICK up2 : up2 = [up EXCEPT ![w] = q]
  OBVIOUS
<1>5. PICK l2 : l2 = [l EXCEPT ![q] = w]
  OBVIOUS
<1>6. PICK E : E = [D EXCEPT ![w] = D[q] \cap lo[q]]
  OBVIOUS
<1>7. /\ up2[w] = q /\ \A n \in Value : n # w => up2[n] = up[n]
      /\ l2[q] = w /\ \A n \in Value : n # q => l2[n] = l[n]
  BY <1>0, <1>4, <1>5 DEF Pointers
<1>8. /\ E \in [Value -> SUBSET Value] /\ E[w] = D[q] \cap lo[q]
      /\ \A n \in S : E[n] = D[n]
  BY <1>0, <1>3, <1>6
<1>9. up[w] = NULL /\ l[w] = NULL /\ r[w] = NULL /\ l2[w] = NULL
  BY <1>1, <1>3, <1>7 DEF Tree, Unlinked
<1>10. Rooted(t, up2, S \cup {w}, E)
  BY <1>0, <1>3, <1>7, <1>8 DEF Tree, Rooted
<1>11. Home(S \cup {w}, E)
  BY <1>2, <1>8 DEF Tree, Home
<1>12. Children(up2, l2, S \cup {w}, E, lo)
  <2> SUFFICES ASSUME NEW n \in S \cup {w}, l2[n] # NULL
               PROVE  l2[n] \in S \cup {w} /\ up2[l2[n]] = n /\ E[l2[n]] = E[n] \cap lo[n]
    BY DEF Children
  <2>1. CASE n = q
    BY <2>1, <1>7, <1>8
  <2>2. CASE n # q
    <3>1. n \in S /\ n \in Value /\ l2[n] = l[n]
      BY <2>2, <1>0, <1>7, <1>9
    <3>2. l[n] \in S /\ up[l[n]] = n /\ D[l[n]] = D[n] \cap lo[n]
      BY <3>1 DEF Tree, Children
    <3>3. up2[l[n]] = n
      BY <3>2, <1>0, <1>3, <1>7
    <3> QED BY <3>1, <3>2, <3>3, <1>8
  <2> QED BY <2>1, <2>2
<1>13. Children(up2, r, S \cup {w}, E, hi)
  <2> SUFFICES ASSUME NEW n \in S \cup {w}, r[n] # NULL
               PROVE  r[n] \in S \cup {w} /\ up2[r[n]] = n /\ E[r[n]] = E[n] \cap hi[n]
    BY DEF Children
  <2>1. n \in S
    BY <1>9
  <2>2. r[n] \in S /\ up[r[n]] = n /\ D[r[n]] = D[n] \cap hi[n]
    BY <2>1 DEF Tree, Children
  <2>3. up2[r[n]] = n
    BY <2>2, <1>0, <1>3, <1>7
  <2> QED BY <2>1, <2>2, <2>3, <1>8
<1>14. Hangs(t, up2, l2, r, S \cup {w})
  <2> SUFFICES ASSUME NEW n \in S \cup {w}
               PROVE  /\ up2[n] # NULL => up2[n] \in S \cup {w} /\ (n = l2[up2[n]] \/ n = r[up2[n]])
                      /\ up2[n] = NULL => n = t
    BY DEF Hangs
  <2>1. CASE n = w
    BY <2>1, <1>0, <1>7
  <2>2. CASE n # w
    <3>1. n \in S /\ n \in Value /\ up2[n] = up[n] /\ n # NULL
      BY <2>2, <1>0, <1>7
    <3>2. /\ up[n] # NULL => up[n] \in S /\ (n = l[up[n]] \/ n = r[up[n]])
          /\ up[n] = NULL => n = t
      BY <3>1 DEF Tree, Hangs
    <3>3. up[n] # NULL /\ n = l[up[n]] => l2[up[n]] = n
      BY <3>1, <3>2, <1>0, <1>2, <1>7
    <3> QED BY <3>1, <3>2, <3>3
  <2> QED BY <2>1, <2>2
<1>15. OneEnd(l2, r, S \cup {w}, E, lo, hi)
  <2>1. ASSUME NEW n \in S, NEW v \in Value, End(l2, r, E, lo, hi, n, v)
        PROVE  End(l, r, D, lo, hi, n, v) /\ (n = q => v \notin lo[q])
    <3>1. E[n] = D[n] /\ (l2[n] = NULL => l[n] = NULL) /\ l2[q] # NULL
      BY <1>0, <1>7, <1>8
    <3>2. End(l, r, D, lo, hi, n, v)
      BY <2>1, <3>1 DEF End
    <3>3. ASSUME n = q, v \in lo[q] PROVE FALSE
      <4>1. v = q \/ v \in hi[q]
        BY <2>1, <3>1, <3>3 DEF End
      <4>2. v = q \/ (lo[v] \subseteq lo[q] /\ q \in lo[v])
        BY <4>1, <3>3, <1>0 DEF Sides
      <4> QED BY <4>2, <3>3, <1>0 DEF Sides
    <3> QED BY <3>2, <3>3
  <2>2. ASSUME NEW v \in Value, End(l2, r, E, lo, hi, w, v)
        PROVE  End(l, r, D, lo, hi, q, v) /\ v \in lo[q]
    BY <2>2, <1>2, <1>8 DEF End
  <2>3. \A v \in Value : \A m, n \in S :
          End(l, r, D, lo, hi, m, v) /\ End(l, r, D, lo, hi, n, v) => m = n
    BY DEF Tree, OneEnd
  <2>4. ASSUME NEW v \in Value, NEW n \in S,
               End(l2, r, E, lo, hi, n, v), End(l2, r, E, lo, hi, w, v)
        PROVE  FALSE
    <3>1. End(l, r, D, lo, hi, n, v) /\ (n = q => v \notin lo[q])
      BY <2>4, <2>1
    <3>2. End(l, r, D, lo, hi, q, v) /\ v \in lo[q]
      BY <2>4, <2>2
    <3> QED BY <3>1, <3>2, <2>3
  <2>5. \A v \in Value : \A m, n \in S \cup {w} :
          End(l2, r, E, lo, hi, m, v) /\ End(l2, r, E, lo, hi, n, v) => m = n
    BY <2>1, <2>3, <2>4
  <2> QED BY <2>5 DEF OneEnd
<1>16. Unlinked(up2, l2, r, S \cup {w})
  BY <1>7 DEF Tree, Unlinked
<1> QED BY <1>0, <1>3, <1>4, <1>5, <1>6, <1>8, <1>10, <1>11, <1>12, <1>13, <1>14, <1>15, <1>16 DEF Tree

\* A search that turns left at n goes on at a child that it passes; if there
\* is none it ends there, and what it looks for is not in the tree.
LEMMA TurnStaysOnPath ==
  ASSUME NEW t, NEW up, NEW l, NEW r, NEW S, NEW D, NEW lo, NEW hi,
         Sides(lo, hi), Tree(t, up, l, r, S, D, lo, hi),
         NEW n \in S, NEW v \in Value, v \in D[n], v \in lo[n]
  PROVE  /\ l[n] # NULL => l[n] \in S /\ v \in D[l[n]] /\ D[l[n]] \subseteq D[n] \ {n}
         /\ l[n] = NULL => End(l, r, D, lo, hi, n, v) /\ v \notin S
<1>1. n \in Value /\ n \notin lo[n]
  BY DEF Tree, Sides
<1>2. ASSUME l[n] # NULL
      PROVE  l[n] \in S /\ v \in D[l[n]] /\ D[l[n]] \subseteq D[n] \ {n}
  <2>1. l[n] \in S /\ D[l[n]] = D[n] \cap lo[n]
    BY <1>2 DEF Tree, Children
  <2> QED BY <2>1, <1>1
<1>3. ASSUME l[n] = NULL
      PROVE  End(l, r, D, lo, hi, n, v) /\ v \notin S
  <2>1. End(l, r, D, lo, hi, n, v)
    BY <1>3 DEF End
  <2>2. v \in S => End(l, r, D, lo, hi, v, v)
    BY DEF End, Tree, Home
  <2> QED BY <2>1, <2>2, <1>1 DEF Tree, OneEnd
<1> QED BY <1>2, <1>3

(***************************************************************************)
(* The invariant.                                                          *)
(***************************************************************************)
\* The heap g is the search tree of the nodes S, or empty.
SearchTree(g, S, D) ==
  IF S = {} THEN g.tree = NULL /\ Unlinked(g.parent, g.lchild, g.rchild, {})
  ELSE Tree(g.tree, g.parent, g.lchild, g.rchild, S, D, Below, Above)

\* The first loop of insert is on the path of val.
Finding(D) == pc = "find" =>
  /\ val \in Value
  /\ root # NULL => root \in nodes /\ val \in D[root]
  /\ root = NULL => p \in nodes /\ p # val /\ End(h.lchild, h.rchild, D, Below, Above, p, val)

\* A search that no rotation has met is on the path of its value.
Looking(D) == busy /\ known /\ ~rotated => at \in nodes /\ sval \in nodes /\ sval \in D[at]

Searchable(D) == SearchTree(h, nodes, D) /\ Finding(D) /\ Looking(D)

BlackRoot(g) == g.type[g.tree] = "black"

\* While pointers are written, the trees they lead to are search trees.
Writing ==
  /\ targets # <<>>
  /\ \A i \in 1..Len(targets) : \E D : SearchTree(targets[i], nodes, D)
  /\ BlackRoot(targets[Len(targets)])
  /\ busy => rotated

\* The rebalancing is at a node; only there may the root be red.
Rebalancing ==
  /\ pc \in {"rebalance", "write"} => locate \in nodes
  /\ pc \in {"find", "rebalance", "write"} => nodes # {}
  /\ pc \in {"idle", "find"} /\ nodes # {} => BlackRoot(h)
  /\ pc = "rebalance" => locate = h.tree \/ BlackRoot(h)

IInv ==
  /\ TypeOK
  /\ pc # "write" => \E D : Searchable(D)
  /\ pc = "write" => Writing
  /\ Rebalancing

\* The pointers of a heap are typed.
LEMMA HeapPointers ==
  ASSUME NEW g \in Heap
  PROVE  /\ g.tree \in Ptr /\ g.parent \in [Value -> Ptr] /\ g.lchild \in [Value -> Ptr]
         /\ g.rchild \in [Value -> Ptr] /\ g.type \in [Value -> Color]
         /\ Pointers(g.tree, g.parent, g.lchild, g.rchild)
         /\ Pointers(g.tree, g.parent, g.rchild, g.lchild)
  BY DEF Heap, Pointers

\* Colours do not matter to the shape of the tree.
LEMMA PaintKeepsTree ==
  ASSUME NEW g \in Heap, NEW n \in Value, NEW c \in Color
  PROVE  /\ Paint(g, n, c) \in Heap
         /\ Paint(g, n, c).tree = g.tree /\ Paint(g, n, c).parent = g.parent
         /\ Paint(g, n, c).lchild = g.lchild /\ Paint(g, n, c).rchild = g.rchild
         /\ Paint(g, n, c).type = [g.type EXCEPT ![n] = c]
         /\ \A S, D : SearchTree(g, S, D) => SearchTree(Paint(g, n, c), S, D)
<1>1. /\ Paint(g, n, c) \in Heap
      /\ Paint(g, n, c).tree = g.tree /\ Paint(g, n, c).parent = g.parent
      /\ Paint(g, n, c).lchild = g.lchild /\ Paint(g, n, c).rchild = g.rchild
      /\ Paint(g, n, c).type = [g.type EXCEPT ![n] = c]
  BY DEF Paint, Heap
<1> QED BY <1>1 DEF SearchTree

\* A rotation to the right at a node that has a left child.
LEMMA RightKeepsTree ==
  ASSUME NEW g \in Heap, NEW S, NEW D, SearchTree(g, S, D), NEW y \in S, g.lchild[y] # NULL,
         NEW g2, g2 = right_rotate(g, y)
  PROVE  /\ g2 \in Heap /\ g2.type = g.type
         /\ g2.tree = IF g.parent[y] = NULL THEN g.lchild[y] ELSE g.tree
         /\ g.parent[y] # NULL /\ g.rchild[g.parent[y]] = y => g2.rchild[g.parent[y]] = g.lchild[y]
         /\ \E E : SearchTree(g2, S, E)
<1>1. Tree(g.tree, g.parent, g.lchild, g.rchild, S, D, Below, Above) /\ S # {}
  BY DEF SearchTree
<1>2. /\ Turned(g.tree, g.parent, g.lchild, g.rchild, y, g2.tree, g2.parent, g2.lchild, g2.rchild)
      /\ g2 \in Heap /\ g2.type = g.type
  BY <1>1, RightTurns
<1>3. Tree(g2.tree, g2.parent, g2.lchild, g2.rchild, S, TurnedExtents(D, g.lchild, y, Above), Below, Above)
  BY <1>1, <1>2, HeapPointers, Order, TurnKeepsTree
<1>4. \E E : SearchTree(g2, S, E)
  BY <1>1, <1>3 DEF SearchTree
<1>5. PICK u : u = g.parent[y]
  OBVIOUS
<1>6. PICK x : x = g.lchild[y]
  OBVIOUS
<1>7. x \in S
  BY <1>1, <1>6 DEF Tree, Children
<1>8. u # NULL => u \in Value /\ u # x
  BY <1>1, <1>5, <1>6, <1>7, HeapPointers, Order, Apart DEF Tree
<1>9. u # NULL /\ g.rchild[u] = y => g2.rchild[u] = x
  BY <1>2, <1>5, <1>6, <1>8 DEF Turned
<1>10. g2.tree = IF u = NULL THEN x ELSE g.tree
  BY <1>2, <1>5, <1>6 DEF Turned
<1> QED BY <1>2, <1>4, <1>5, <1>6, <1>9, <1>10

\* A rotation to the left at a node that has a right child.
LEMMA LeftKeepsTree ==
  ASSUME NEW g \in Heap, NEW S, NEW D, SearchTree(g, S, D), NEW y \in S, g.rchild[y] # NULL,
         NEW g2, g2 = left_rotate(g, y)
  PROVE  /\ g2 \in Heap /\ g2.type = g.type
         /\ g2.tree = IF g.parent[y] = NULL THEN g.rchild[y] ELSE g.tree
         /\ g.parent[y] # NULL /\ g.lchild[g.parent[y]] = y => g2.lchild[g.parent[y]] = g.rchild[y]
         /\ \E E : SearchTree(g2, S, E)
<1>1. Tree(g.tree, g.parent, g.lchild, g.rchild, S, D, Below, Above) /\ S # {}
  BY DEF SearchTree
<1>2. /\ Turned(g.tree, g.parent, g.rchild, g.lchild, y, g2.tree, g2.parent, g2.rchild, g2.lchild)
      /\ g2 \in Heap /\ g2.type = g.type
  BY <1>1, LeftTurns
<1>0. Tree(g.tree, g.parent, g.rchild, g.lchild, S, D, Above, Below)
  BY <1>1, Mirror
<1>3. Tree(g2.tree, g2.parent, g2.rchild, g2.lchild, S, TurnedExtents(D, g.rchild, y, Below), Above, Below)
  BY <1>0, <1>2, HeapPointers, Order, TurnKeepsTree
<1>4. \E E : SearchTree(g2, S, E)
  BY <1>1, <1>3, Mirror DEF SearchTree
<1>5. PICK u : u = g.parent[y]
  OBVIOUS
<1>6. PICK x : x = g.rchild[y]
  OBVIOUS
<1>7. x \in S
  BY <1>1, <1>6 DEF Tree, Children
<1>8. u # NULL => u \in Value /\ u # x
  BY <1>0, <1>5, <1>6, <1>7, HeapPointers, Order, Apart DEF Tree
<1>9. u # NULL /\ g.lchild[u] = y => g2.lchild[u] = x
  BY <1>2, <1>5, <1>6, <1>8 DEF Turned
<1>10. g2.tree = IF u = NULL THEN x ELSE g.tree
  BY <1>2, <1>5, <1>6 DEF Turned
<1> QED BY <1>2, <1>4, <1>5, <1>6, <1>9, <1>10

\* What the second loop may rely on: p and pp are nodes, each a child of the
\* next, u is one if it is red, and the root is black.
LEMMA RedUpFacts ==
  ASSUME IInv, pc = "rebalance", RedUp
  PROVE  /\ locate \in nodes /\ Up \in nodes /\ UpUp \in nodes
         /\ locate = h.lchild[Up] \/ locate = h.rchild[Up]
         /\ Up = h.lchild[UpUp] \/ Up = h.rchild[UpUp]
         /\ UpUp # Up
         /\ Uncle # NULL => Uncle \in nodes
         /\ BlackRoot(h) /\ h.tree \in nodes /\ h.parent[h.tree] = NULL
<1>1. h \in Heap /\ locate \in nodes /\ nodes # {}
  BY DEF IInv, TypeOK, Rebalancing
<1>2. PICK D : SearchTree(h, nodes, D)
  BY DEF IInv, Searchable
<1>3. Tree(h.tree, h.parent, h.lchild, h.rchild, nodes, D, Below, Above)
  BY <1>1, <1>2 DEF SearchTree
<1>4. /\ \A n \in nodes : h.parent[n] # NULL => h.parent[n] \in nodes /\ (n = h.lchild[h.parent[n]] \/ n = h.rchild[h.parent[n]])
      /\ \A n \in nodes : h.parent[n] = NULL => n = h.tree
      /\ h.parent[h.tree] = NULL /\ h.tree \in nodes
      /\ \A n \in nodes : h.lchild[n] # NULL => h.lchild[n] \in nodes
      /\ \A n \in nodes : h.rchild[n] # NULL => h.rchild[n] \in nodes
  BY <1>3 DEF Tree, Hangs, Rooted, Children
<1>5. Up \in nodes /\ (locate = h.lchild[Up] \/ locate = h.rchild[Up])
  BY <1>1, <1>4 DEF RedUp, Up
<1>6. locate # h.tree
  BY <1>4 DEF RedUp, Up
<1>7. BlackRoot(h)
  BY <1>6 DEF IInv, Rebalancing
<1>8. Up # h.tree
  BY <1>7 DEF RedUp, BlackRoot
<1>9. UpUp # NULL
  BY <1>4, <1>5, <1>8 DEF UpUp
<1>10. UpUp \in nodes /\ (Up = h.lchild[UpUp] \/ Up = h.rchild[UpUp])
  BY <1>4, <1>5, <1>9 DEF UpUp
<1>11. Uncle # NULL => Uncle \in nodes
  BY <1>4, <1>10 DEF Uncle
<1>12. UpUp # Up
  <2>1. Up \in D[Up] /\ Up \in Value
    BY <1>3, <1>5 DEF Tree, Home
  <2>2. D[Up] = D[UpUp] \cap Below[UpUp] \/ D[Up] = D[UpUp] \cap Above[UpUp]
    BY <1>3, <1>5, <1>10, RBAssumption DEF Tree, Children
  <2>3. Up \in Below[UpUp] \/ Up \in Above[UpUp]
    BY <2>1, <2>2
  <2> QED BY <2>1, <2>3, Order DEF Sides
<1> QED BY <1>1, <1>4, <1>5, <1>7, <1>10, <1>11, <1>12

\* The child takes the colour black and the place of its parent, which turns
\* red: the root stays, or becomes, black.
LEMMA RightOnce ==
  ASSUME NEW g \in Heap, NEW S, NEW D, SearchTree(g, S, D), BlackRoot(g),
         NEW z \in S, NEW x, x = g.lchild[z], x # NULL,
         NEW o, o = Paint(Paint(g, x, "black"), z, "red"), NEW g2, g2 = right_rotate(o, z)
  PROVE  g2 \in Heap /\ BlackRoot(g2) /\ \E E : SearchTree(g2, S, E)
<1>1. Tree(g.tree, g.parent, g.lchild, g.rchild, S, D, Below, Above) /\ S # {}
  BY DEF SearchTree
<1>2. x \in S /\ S \subseteq Value /\ g.tree \in S /\ g.parent[g.tree] = NULL
  BY <1>1 DEF Tree, Children, Rooted
<1>3. x # z
  BY <1>1, <1>2, HeapPointers, Order, Apart
<1>4. PICK m : m = Paint(g, x, "black")
  OBVIOUS
<1>5. /\ m \in Heap /\ m.tree = g.tree /\ m.parent = g.parent /\ m.lchild = g.lchild
      /\ m.type = [g.type EXCEPT ![x] = "black"] /\ SearchTree(m, S, D)
  BY <1>2, <1>4, PaintKeepsTree DEF Color
<1>6. /\ o \in Heap /\ o.tree = g.tree /\ o.parent = g.parent /\ o.lchild = g.lchild
      /\ o.type = [m.type EXCEPT ![z] = "red"] /\ SearchTree(o, S, D)
  <2>1. o = Paint(m, z, "red") /\ z \in Value /\ "red" \in Color
    BY <1>2, <1>4 DEF Color
  <2> QED BY <2>1, <1>5, PaintKeepsTree
<1>7. g.type \in [Value -> Color] /\ m.type \in [Value -> Color]
  BY <1>5, HeapPointers
<1>8. o.type[x] = "black" /\ (g.tree # z => o.type[g.tree] = "black")
  BY <1>2, <1>3, <1>5, <1>6, <1>7 DEF BlackRoot
<1>9. /\ g2 \in Heap /\ g2.type = o.type
      /\ g2.tree = IF o.parent[z] = NULL THEN o.lchild[z] ELSE o.tree
      /\ \E E : SearchTree(g2, S, E)
  BY <1>6, RightKeepsTree
<1>10. BlackRoot(g2)
  BY <1>2, <1>6, <1>8, <1>9 DEF BlackRoot
<1> QED BY <1>9, <1>10

\* The same to the left.
LEMMA LeftOnce ==
  ASSUME NEW g \in Heap, NEW S, NEW D, SearchTree(g, S, D), BlackRoot(g),
         NEW z \in S, NEW x, x = g.rchild[z], x # NULL,
         NEW o, o = Paint(Paint(g, x, "black"), z, "red"), NEW g2, g2 = left_rotate(o, z)
  PROVE  g2 \in Heap /\ BlackRoot(g2) /\ \E E : SearchTree(g2, S, E)
<1>1. Tree(g.tree, g.parent, g.lchild, g.rchild, S, D, Below, Above) /\ S # {}
  BY DEF SearchTree
<1>2. x \in S /\ S \subseteq Value /\ g.tree \in S /\ g.parent[g.tree] = NULL
  BY <1>1 DEF Tree, Children, Rooted
<1>3. x # z
  BY <1>1, <1>2, HeapPointers, Order, Mirror, Apart
<1>4. PICK m : m = Paint(g, x, "black")
  OBVIOUS
<1>5. /\ m \in Heap /\ m.tree = g.tree /\ m.parent = g.parent /\ m.rchild = g.rchild
      /\ m.type = [g.type EXCEPT ![x] = "black"] /\ SearchTree(m, S, D)
  BY <1>2, <1>4, PaintKeepsTree DEF Color
<1>6. /\ o \in Heap /\ o.tree = g.tree /\ o.parent = g.parent /\ o.rchild = g.rchild
      /\ o.type = [m.type EXCEPT ![z] = "red"] /\ SearchTree(o, S, D)
  <2>1. o = Paint(m, z, "red") /\ z \in Value /\ "red" \in Color
    BY <1>2, <1>4 DEF Color
  <2> QED BY <2>1, <1>5, PaintKeepsTree
<1>7. g.type \in [Value -> Color] /\ m.type \in [Value -> Color]
  BY <1>5, HeapPointers
<1>8. o.type[x] = "black" /\ (g.tree # z => o.type[g.tree] = "black")
  BY <1>2, <1>3, <1>5, <1>6, <1>7 DEF BlackRoot
<1>9. /\ g2 \in Heap /\ g2.type = o.type
      /\ g2.tree = IF o.parent[z] = NULL THEN o.rchild[z] ELSE o.tree
      /\ \E E : SearchTree(g2, S, E)
  BY <1>6, LeftKeepsTree
<1>10. BlackRoot(g2)
  BY <1>2, <1>6, <1>8, <1>9 DEF BlackRoot
<1> QED BY <1>9, <1>10

\* The heaps that a turn of the rebalancing leads to are search trees, and
\* the last one has a black root.
Leads(gs, S) ==
  /\ gs \in Seq(Heap) /\ gs # <<>>
  /\ \A i \in 1..Len(gs) : \E D : SearchTree(gs[i], S, D)
  /\ BlackRoot(gs[Len(gs)])

\* One rotation.
LEMMA LeadsOne ==
  ASSUME NEW S, NEW g \in Heap, BlackRoot(g), \E D : SearchTree(g, S, D)
  PROVE  Leads(<<g>>, S)
<1>1. <<g>> \in Seq(Heap) /\ <<g>> # <<>> /\ Len(<<g>>) = 1 /\ <<g>>[1] = g
  OBVIOUS
<1> QED BY <1>1 DEF Leads

\* Two rotations.
LEMMA LeadsTwo ==
  ASSUME NEW S, NEW f \in Heap, NEW g \in Heap, BlackRoot(g),
         \E D : SearchTree(f, S, D), \E D : SearchTree(g, S, D)
  PROVE  Leads(<<f, g>>, S)
<1>1. /\ <<f, g>> \in Seq(Heap) /\ <<f, g>> # <<>> /\ Len(<<f, g>>) = 2
      /\ <<f, g>>[1] = f /\ <<f, g>>[2] = g
  OBVIOUS
<1>2. \A i \in 1..2 : i = 1 \/ i = 2
  OBVIOUS
<1> QED BY <1>1, <1>2 DEF Leads

\* Rotations is right in each of its four cases.
LEMMA RotationsLead ==
  ASSUME IInv, pc = "rebalance", RedUp
  PROVE  Leads(Rotations, nodes)
<1>1. h \in Heap /\ nodes \subseteq Value /\ NULL \notin Value
  BY RBAssumption DEF IInv, TypeOK
<1>2. PICK D : SearchTree(h, nodes, D)
  BY DEF IInv, Searchable
<1>3. PICK g : g = h
  OBVIOUS
<1>4. PICK x : x = locate
  OBVIOUS
<1>5. PICK y : y = Up
  OBVIOUS
<1>6. PICK z : z = UpUp
  OBVIOUS
<1>7. PICK S : S = nodes
  OBVIOUS
<1>8. /\ x \in S /\ y \in S /\ z \in S
      /\ x = g.lchild[y] \/ x = g.rchild[y]
      /\ y = g.lchild[z] \/ y = g.rchild[z]
      /\ BlackRoot(g)
  BY <1>3, <1>4, <1>5, <1>6, <1>7, RedUpFacts
<1>9. g \in Heap /\ SearchTree(g, S, D) /\ g.parent[y] = z /\ x # NULL /\ y # NULL /\ z # NULL
  BY <1>1, <1>2, <1>3, <1>5, <1>6, <1>7, <1>8 DEF UpUp
<1>10. PICK o : o = Paint(Paint(g, y, "black"), z, "red")
  OBVIOUS
<1>11. CASE y = g.lchild[z] /\ x = g.lchild[y]
  <2>1. Rotations = <<right_rotate(o, z)>>
    BY <1>3, <1>4, <1>5, <1>6, <1>10, <1>11 DEF Rotations
  <2>2. PICK g2 : g2 = right_rotate(o, z)
    OBVIOUS
  <2>3. g2 \in Heap /\ BlackRoot(g2) /\ \E E : SearchTree(g2, S, E)
    BY <2>2, <1>8, <1>9, <1>10, <1>11, RightOnce
  <2> QED BY <2>1, <2>2, <2>3, <1>7, LeadsOne
<1>12. CASE y = g.lchild[z] /\ x # g.lchild[y]
  <2>1. PICK f : f = left_rotate(g, y)
    OBVIOUS
  <2>2. PICK w : w = Paint(Paint(f, x, "black"), z, "red")
    OBVIOUS
  <2>3. PICK g2 : g2 = right_rotate(w, z)
    OBVIOUS
  <2>4. Rotations = <<f, g2>>
    BY <2>1, <2>2, <2>3, <1>3, <1>4, <1>5, <1>6, <1>12 DEF Rotations
  <2>5. x = g.rchild[y]
    BY <1>8, <1>12
  <2>6. /\ f \in Heap /\ f.type = g.type /\ f.tree = g.tree /\ f.lchild[z] = x
        /\ \E E : SearchTree(f, S, E)
    BY <2>1, <2>5, <1>8, <1>9, <1>12, LeftKeepsTree
  <2>7. BlackRoot(f)
    BY <2>6, <1>8 DEF BlackRoot
  <2>8. g2 \in Heap /\ BlackRoot(g2) /\ \E E : SearchTree(g2, S, E)
    BY <2>2, <2>3, <2>6, <2>7, <1>8, <1>9, RightOnce
  <2> QED BY <2>4, <2>6, <2>8, <1>7, LeadsTwo
<1>13. CASE y # g.lchild[z] /\ x = g.rchild[y]
  <2>1. Rotations = <<left_rotate(o, z)>>
    BY <1>3, <1>4, <1>5, <1>6, <1>10, <1>13 DEF Rotations
  <2>2. PICK g2 : g2 = left_rotate(o, z)
    OBVIOUS
  <2>3. g2 \in Heap /\ BlackRoot(g2) /\ \E E : SearchTree(g2, S, E)
    BY <2>2, <1>8, <1>9, <1>10, <1>13, LeftOnce
  <2> QED BY <2>1, <2>2, <2>3, <1>7, LeadsOne
<1>14. CASE y # g.lchild[z] /\ x # g.rchild[y]
  <2>1. PICK f : f = right_rotate(g, y)
    OBVIOUS
  <2>2. PICK w : w = Paint(Paint(f, x, "black"), z, "red")
    OBVIOUS
  <2>3. PICK g2 : g2 = left_rotate(w, z)
    OBVIOUS
  <2>4. Rotations = <<f, g2>>
    BY <2>1, <2>2, <2>3, <1>3, <1>4, <1>5, <1>6, <1>14 DEF Rotations
  <2>5. x = g.lchild[y] /\ y = g.rchild[z]
    BY <1>8, <1>14
  <2>6. /\ f \in Heap /\ f.type = g.type /\ f.tree = g.tree /\ f.rchild[z] = x
        /\ \E E : SearchTree(f, S, E)
    BY <2>1, <2>5, <1>8, <1>9, RightKeepsTree
  <2>7. BlackRoot(f)
    BY <2>6, <1>8 DEF BlackRoot
  <2>8. g2 \in Heap /\ BlackRoot(g2) /\ \E E : SearchTree(g2, S, E)
    BY <2>2, <2>3, <2>6, <2>7, <1>8, <1>9, LeftOnce
  <2> QED BY <2>4, <2>6, <2>8, <1>7, LeadsTwo
<1> QED BY <1>11, <1>12, <1>13, <1>14

(***************************************************************************)
(* The invariant is inductive: one lemma for each action that changes the  *)
(* tree.                                                                   *)
(***************************************************************************)
\* Init establishes the invariant.
LEMMA InitIInv == Init => IInv
<1> SUFFICES ASSUME Init PROVE IInv
  OBVIOUS
<1>1. h \in Heap
  BY DEF Init, Heap, Ptr, Color
<1>2. TypeOK
  <2>1. targets \in Seq(Heap) /\ nodes \subseteq Value
    BY DEF Init
  <2>2. ret \in {0, 1, -1} \cup Garbage
    BY DEF Init
  <2> QED BY <1>1, <2>1, <2>2 DEF Init, TypeOK, Ptr
<1>3. \A D : Searchable(D)
  <2>1. h.tree = NULL /\ \A n \in Value : h.parent[n] = NULL /\ h.lchild[n] = NULL /\ h.rchild[n] = NULL
    BY DEF Init
  <2> QED BY <2>1 DEF Init, Searchable, SearchTree, Unlinked, Finding, Looking
<1>4. Rebalancing
  BY DEF Init, Rebalancing
<1> QED BY <1>2, <1>3, <1>4 DEF Init, IInv

\* The first node.
LEMMA InsertFirstStep ==
  ASSUME IInv, NEW v \in Value, InsertFirst(v)
  PROVE  IInv'
<1>1. /\ h \in Heap /\ nodes \subseteq Value /\ NULL \notin Value /\ pc = "idle" /\ pc' = "idle"
      /\ h.tree = NULL /\ nodes' = {v}
  BY RBAssumption DEF IInv, TypeOK, InsertFirst
<1>2. PICK D : Searchable(D)
  BY <1>1 DEF IInv
<1>3. nodes = {} /\ Unlinked(h.parent, h.lchild, h.rchild, {})
  BY <1>1, <1>2 DEF Searchable, SearchTree, Tree, Rooted
<1>4. /\ h'.tree = v /\ h'.parent = h.parent /\ h'.lchild = h.lchild /\ h'.rchild = h.rchild
      /\ h'.type = [h.type EXCEPT ![v] = "black"] /\ h' \in Heap
  BY <1>1 DEF InsertFirst, Paint, Heap, Ptr, Color
<1>5. TypeOK'
  BY <1>1, <1>4 DEF IInv, TypeOK, InsertFirst, searching
<1>6. PICK E : E = [n \in Value |-> Value]
  OBVIOUS
<1>7. \A n \in Value : h.parent[n] = NULL /\ h.lchild[n] = NULL /\ h.rchild[n] = NULL
  BY <1>3 DEF Unlinked
<1>8. Tree(v, h.parent, h.lchild, h.rchild, {v}, E, Below, Above)
  BY <1>6, <1>7 DEF Tree, Rooted, Home, Children, Hangs, OneEnd, Unlinked
<1>9. SearchTree(h', nodes', E)
  BY <1>1, <1>4, <1>8 DEF SearchTree
<1>10. ~(busy /\ known /\ ~rotated)
  BY <1>2, <1>3 DEF Searchable, Looking
<1>11. Searchable(E)'
  BY <1>1, <1>9, <1>10 DEF Searchable, Finding, Looking, InsertFirst, searching
<1>12. Rebalancing'
  BY <1>1, <1>4, HeapPointers DEF Rebalancing, BlackRoot
<1> QED BY <1>1, <1>5, <1>11, <1>12 DEF IInv

\* insert begins at the root, which every search passes.
LEMMA InsertStep ==
  ASSUME IInv, NEW v \in Value, Insert(v)
  PROVE  IInv'
<1>1. /\ pc = "idle" /\ pc' = "find" /\ h.tree # NULL /\ h' = h /\ nodes' = nodes /\ h \in Heap
      /\ val' = v /\ root' = h.tree
  BY DEF Insert, IInv, TypeOK
<1>2. PICK D : Searchable(D)
  BY <1>1 DEF IInv
<1>3. nodes # {} /\ Tree(h.tree, h.parent, h.lchild, h.rchild, nodes, D, Below, Above)
  BY <1>1, <1>2 DEF Searchable, SearchTree
<1>4. h.tree \in nodes /\ D[h.tree] = Value
  BY <1>3 DEF Tree, Rooted
<1>5. TypeOK'
  BY HeapPointers DEF IInv, TypeOK, Insert, searching, Ptr
<1>6. Searchable(D)'
  BY <1>1, <1>2, <1>4 DEF Searchable, Finding, Looking, Insert, searching
<1>7. Rebalancing'
  BY <1>1, <1>3 DEF IInv, Rebalancing
<1> QED BY <1>1, <1>5, <1>6, <1>7 DEF IInv

\* A turn at a node, to either side.
LEMMA Descend ==
  ASSUME NEW g \in Heap, NEW S, NEW D, SearchTree(g, S, D),
         NEW n \in S, NEW v \in Value, v \in D[n], v # n, NEW c,
         c = IF n > v THEN g.lchild[n] ELSE g.rchild[n]
  PROVE  /\ c # NULL => c \in S /\ v \in D[c] /\ D[c] \subseteq D[n] \ {n}
         /\ c = NULL => End(g.lchild, g.rchild, D, Below, Above, n, v) /\ v \notin S
<1>1. Tree(g.tree, g.parent, g.lchild, g.rchild, S, D, Below, Above)
  BY DEF SearchTree
<1>2. n \in Value /\ n \in Int /\ v \in Int
  BY <1>1, RBAssumption DEF Tree
<1>3. CASE n > v
  <2>1. v \in Below[n]
    BY <1>2, <1>3 DEF Below
  <2> QED BY <2>1, <1>1, <1>3, Order, TurnStaysOnPath
<1>4. CASE ~(n > v)
  <2>1. v \in Above[n]
    BY <1>2, <1>4 DEF Above
  <2>2. Tree(g.tree, g.parent, g.rchild, g.lchild, S, D, Above, Below)
    BY <1>1, Mirror
  <2>3. /\ c # NULL => c \in S /\ v \in D[c] /\ D[c] \subseteq D[n] \ {n}
        /\ c = NULL => End(g.rchild, g.lchild, D, Above, Below, n, v) /\ v \notin S
    BY <2>1, <2>2, <1>4, Order, TurnStaysOnPath
  <2> QED BY <2>3 DEF End
<1> QED BY <1>3, <1>4

\* A turn of the first loop.
LEMMA FindStep ==
  ASSUME IInv, Find
  PROVE  IInv'
<1>1. /\ pc = "find" /\ pc' = "find" /\ root # NULL /\ root # val /\ h' = h /\ nodes' = nodes
      /\ val' = val /\ p' = root
      /\ root' = IF root > val THEN h.lchild[root] ELSE h.rchild[root]
      /\ h \in Heap /\ nodes \subseteq Value /\ root \in Ptr
  BY DEF Find, IInv, TypeOK
<1>2. PICK D : Searchable(D)
  BY <1>1 DEF IInv
<1>3. val \in Value /\ root \in nodes /\ val \in D[root] /\ SearchTree(h, nodes, D)
  BY <1>1, <1>2 DEF Searchable, Finding
<1>4. /\ root' # NULL => root' \in nodes /\ val \in D[root']
      /\ root' = NULL => End(h.lchild, h.rchild, D, Below, Above, root, val)
  BY <1>1, <1>3, Descend
<1>5. root' \in Ptr
  BY <1>1, <1>3, HeapPointers
<1>6. TypeOK'
  BY <1>1, <1>5 DEF IInv, TypeOK, Find, searching
<1>7. Finding(D)'
  BY <1>1, <1>3, <1>4 DEF Finding
<1>8. Searchable(D)'
  BY <1>1, <1>2, <1>7 DEF Searchable, Looking, Find, searching
<1>9. Rebalancing'
  BY <1>1 DEF IInv, Rebalancing
<1> QED BY <1>1, <1>6, <1>8, <1>9 DEF IInv

\* The new node is linked where its search ended.
LEMMA LinkStep ==
  ASSUME IInv, Link
  PROVE  IInv'
<1>1. /\ pc = "find" /\ pc' = "rebalance" /\ root = NULL /\ nodes' = nodes \cup {val}
      /\ locate' = val /\ h \in Heap /\ nodes \subseteq Value
  BY DEF Link, IInv, TypeOK
<1>2. PICK D : Searchable(D)
  BY <1>1 DEF IInv
<1>3. nodes # {} /\ BlackRoot(h)
  BY <1>1 DEF IInv, Rebalancing
<1>4. /\ Tree(h.tree, h.parent, h.lchild, h.rchild, nodes, D, Below, Above)
      /\ val \in Value /\ p \in nodes /\ p # val /\ End(h.lchild, h.rchild, D, Below, Above, p, val)
  BY <1>1, <1>2, <1>3 DEF Searchable, SearchTree, Finding
<1>5. p \in Value /\ p \in Int /\ val \in Int
  BY <1>1, <1>4, RBAssumption
<1>6. \E E : /\ SearchTree(h', nodes', E) /\ val \notin nodes
             /\ \A n \in nodes : E[n] = D[n]
  <2>1. CASE val < p
    <3>1. val \in Below[p]
      BY <2>1, <1>4, <1>5 DEF Below
    <3>2. /\ h'.tree = h.tree /\ h'.parent = [h.parent EXCEPT ![val] = p]
          /\ h'.lchild = [h.lchild EXCEPT ![p] = val] /\ h'.rchild = h.rchild
      BY <1>1, <2>1 DEF Link, Heap
    <3>3. PICK E : E = [D EXCEPT ![val] = D[p] \cap Below[p]]
      OBVIOUS
    <3>4. val \notin nodes /\ Tree(h'.tree, h'.parent, h'.lchild, h'.rchild, nodes', E, Below, Above)
      <4>1. Pointers(h.tree, h.parent, h.lchild, h.rchild) /\ Sides(Below, Above)
        BY <1>1, HeapPointers, Order
      <4>2. /\ val \notin nodes
            /\ Tree(h.tree, [h.parent EXCEPT ![val] = p], [h.lchild EXCEPT ![p] = val], h.rchild,
                    nodes \cup {val}, [D EXCEPT ![val] = D[p] \cap Below[p]], Below, Above)
        BY <3>1, <4>1, <1>4, LinkKeepsTree
      <4> QED BY <4>2, <3>2, <3>3, <1>1
    <3>5. \A n \in nodes : E[n] = D[n]
      BY <3>3, <3>4, <1>4 DEF Tree
    <3> QED BY <3>4, <3>5, <1>1 DEF SearchTree
  <2>2. CASE ~(val < p)
    <3>1. val \in Above[p]
      BY <2>2, <1>4, <1>5 DEF Above
    <3>2. /\ h'.tree = h.tree /\ h'.parent = [h.parent EXCEPT ![val] = p]
          /\ h'.rchild = [h.rchild EXCEPT ![p] = val] /\ h'.lchild = h.lchild
      BY <1>1, <2>2 DEF Link, Heap
    <3>3. PICK E : E = [D EXCEPT ![val] = D[p] \cap Above[p]]
      OBVIOUS
    <3>4. /\ Tree(h.tree, h.parent, h.rchild, h.lchild, nodes, D, Above, Below)
          /\ End(h.rchild, h.lchild, D, Above, Below, p, val)
      BY <1>4, Mirror DEF End
    <3>5. val \notin nodes /\ Tree(h'.tree, h'.parent, h'.rchild, h'.lchild, nodes', E, Above, Below)
      <4>1. Pointers(h.tree, h.parent, h.rchild, h.lchild) /\ Sides(Above, Below)
        BY <1>1, HeapPointers, Order
      <4>2. /\ val \notin nodes
            /\ Tree(h.tree, [h.parent EXCEPT ![val] = p], [h.rchild EXCEPT ![p] = val], h.lchild,
                    nodes \cup {val}, [D EXCEPT ![val] = D[p] \cap Above[p]], Above, Below)
        BY <3>1, <3>4, <4>1, <1>4, LinkKeepsTree
      <4> QED BY <4>2, <3>2, <3>3, <1>1
    <3>6. \A n \in nodes : E[n] = D[n]
      BY <3>3, <3>5, <1>4 DEF Tree
    <3> QED BY <3>5, <3>6, <1>1, Mirror DEF SearchTree
  <2> QED BY <2>1, <2>2
<1>7. PICK E : /\ SearchTree(h', nodes', E) /\ val \notin nodes
               /\ \A n \in nodes : E[n] = D[n]
  BY <1>6
<1>8. Looking(E)'
  BY <1>2, <1>7, <1>1 DEF Searchable, Looking, Link, searching
<1>9. Searchable(E)'
  BY <1>1, <1>7, <1>8 DEF Searchable, Finding
<1>10. h' \in Heap /\ h'.tree = h.tree /\ h'.type = h.type
  <2>1. val \in Ptr /\ p \in Ptr
    BY <1>4, <1>5 DEF Ptr
  <2> QED BY <2>1, <1>1, <1>4, <1>5 DEF Link, Heap
<1>11. TypeOK'
  BY <1>1, <1>4, <1>10 DEF IInv, TypeOK, Link, searching, Ptr
<1>12. Rebalancing'
  BY <1>1, <1>3, <1>10 DEF Rebalancing, BlackRoot
<1> QED BY <1>1, <1>9, <1>11, <1>12 DEF IInv

\* Recolouring moves the loop to pp, which may be the root and is red then.
LEMMA RecolorStep ==
  ASSUME IInv, Recolor
  PROVE  IInv'
<1>1. /\ pc = "rebalance" /\ pc' = "rebalance" /\ RedUp /\ RedUncle /\ nodes' = nodes
      /\ locate' = UpUp /\ h \in Heap /\ nodes \subseteq Value
      /\ h' = Paint(Paint(Paint(h, UpUp, "red"), Uncle, "black"), Up, "black")
  BY DEF Recolor, IInv, TypeOK
<1>2. /\ Up \in nodes /\ UpUp \in nodes /\ Uncle \in nodes
      /\ BlackRoot(h) /\ h.tree \in nodes
  BY <1>1, RedUpFacts DEF RedUncle
<1>3. PICK D : Searchable(D)
  BY <1>1 DEF IInv
<1>4. PICK f : f = Paint(h, UpUp, "red")
  OBVIOUS
<1>5. PICK g : g = Paint(f, Uncle, "black")
  OBVIOUS
<1>6. "red" \in Color /\ "black" \in Color
  BY DEF Color
<1>7. UpUp \in Value /\ Uncle \in Value /\ Up \in Value
  BY <1>1, <1>2
<1>8. f \in Heap /\ f.tree = h.tree /\ f.type = [h.type EXCEPT ![UpUp] = "red"] /\ SearchTree(f, nodes, D)
  BY <1>1, <1>3, <1>4, <1>6, <1>7, PaintKeepsTree DEF Searchable
<1>9. g \in Heap /\ g.tree = f.tree /\ g.type = [f.type EXCEPT ![Uncle] = "black"] /\ SearchTree(g, nodes, D)
  BY <1>5, <1>6, <1>7, <1>8, PaintKeepsTree
<1>10. h' = Paint(g, Up, "black")
  BY <1>1, <1>4, <1>5
<1>11. h' \in Heap /\ h'.tree = g.tree /\ h'.type = [g.type EXCEPT ![Up] = "black"] /\ SearchTree(h', nodes, D)
  BY <1>6, <1>7, <1>9, <1>10, PaintKeepsTree
<1>12. h'.tree = UpUp \/ BlackRoot(h')
  <2>1. h.type \in [Value -> Color] /\ f.type \in [Value -> Color] /\ g.type \in [Value -> Color]
    BY <1>1, <1>8, <1>9, HeapPointers
  <2> QED BY <2>1, <1>1, <1>2, <1>8, <1>9, <1>11 DEF BlackRoot
<1>13. TypeOK'
  BY <1>1, <1>7, <1>11 DEF IInv, TypeOK, Recolor, searching, Ptr
<1>14. Searchable(D)'
  BY <1>1, <1>3, <1>11 DEF Searchable, Finding, Looking, Recolor, searching
<1>15. Rebalancing'
  BY <1>1, <1>2, <1>12 DEF Rebalancing
<1> QED BY <1>1, <1>13, <1>14, <1>15 DEF IInv

\* The pointers a search follows may be any: Begun is a heap.
LEMMA BegunHeap ==
  ASSUME h \in Heap, NEW g \in Heap
  PROVE  Begun(g) \in Heap
  BY DEF Begun, Heap

\* A rotation begins.
LEMMA RotateStep ==
  ASSUME IInv, Rotate
  PROVE  IInv'
<1>1. /\ pc = "rebalance" /\ pc' = "write" /\ RedUp /\ nodes' = nodes /\ targets' = Rotations
      /\ h' = Begun(Head(Rotations)) /\ h \in Heap /\ locate' = locate
      /\ rotated' = busy /\ busy' = busy /\ busy \in BOOLEAN
  BY DEF Rotate, IInv, TypeOK
<1>2. Leads(Rotations, nodes)
  BY <1>1, RotationsLead
<1>3. PICK gs : gs = Rotations
  OBVIOUS
<1>4. gs \in Seq(Heap) /\ gs # <<>>
  BY <1>2, <1>3 DEF Leads
<1>5. Head(gs) \in Heap
  BY <1>4
<1>6. h' \in Heap
  BY <1>1, <1>3, <1>5, BegunHeap
<1>7. TypeOK'
  BY <1>1, <1>3, <1>4, <1>6 DEF IInv, TypeOK, Rotate
<1>8. Writing'
  BY <1>1, <1>2 DEF Leads, Writing
<1>9. Rebalancing'
  BY <1>1 DEF IInv, Rebalancing
<1> QED BY <1>1, <1>7, <1>8, <1>9 DEF IInv

\* One pointer is written.
LEMMA WritePointerStep ==
  ASSUME IInv, WritePointer
  PROVE  IInv'
<1>1. /\ pc = "write" /\ UNCHANGED <<insertion, searching>> /\ h \in Heap
      /\ targets \in Seq(Heap) /\ targets # <<>>
  BY DEF WritePointer, IInv, TypeOK, Writing
<1>2. PICK g : g = Head(targets)
  OBVIOUS
<1>3. g \in Heap
  BY <1>1, <1>2
<1>4. /\ g.tree \in Ptr /\ g.lchild \in [Value -> Ptr] /\ g.rchild \in [Value -> Ptr]
  BY <1>3, HeapPointers
<1>5. \/ h' = [h EXCEPT !.tree = g.tree]
      \/ \E v \in Value : \/ h' = [h EXCEPT !.lchild[v] = g.lchild[v]]
                          \/ h' = [h EXCEPT !.rchild[v] = g.rchild[v]]
  BY <1>2 DEF WritePointer
<1>6. h' \in Heap
  <2>1. CASE h' = [h EXCEPT !.tree = g.tree]
    BY <1>1, <1>4, <2>1 DEF Heap
  <2>2. ASSUME NEW v \in Value, h' = [h EXCEPT !.lchild[v] = g.lchild[v]]
        PROVE  h' \in Heap
    <3>1. g.lchild[v] \in Ptr
      BY <1>4
    <3> QED BY <1>1, <2>2, <3>1 DEF Heap
  <2>3. ASSUME NEW v \in Value, h' = [h EXCEPT !.rchild[v] = g.rchild[v]]
        PROVE  h' \in Heap
    <3>1. g.rchild[v] \in Ptr
      BY <1>4
    <3> QED BY <1>1, <2>3, <3>1 DEF Heap
  <2> QED BY <1>5, <2>1, <2>2, <2>3
<1>7. TypeOK'
  BY <1>1, <1>6 DEF IInv, TypeOK, insertion, searching
<1>8. Writing'
  BY <1>1 DEF IInv, Writing, insertion, searching
<1>9. Rebalancing'
  BY <1>1 DEF IInv, Rebalancing, insertion, searching
<1> QED BY <1>1, <1>7, <1>8, <1>9 DEF IInv, insertion

\* All are written: the second rotation begins, or the loop goes on.
LEMMA RotatedStep ==
  ASSUME IInv, Rotated
  PROVE  IInv'
<1>1. /\ pc = "write" /\ h = Head(targets) /\ targets' = Tail(targets) /\ h \in Heap
      /\ nodes' = nodes /\ locate' = locate /\ locate \in nodes /\ nodes # {}
      /\ targets \in Seq(Heap) /\ targets # <<>> /\ busy' = busy /\ rotated' = rotated
      /\ busy => rotated
  BY DEF Rotated, IInv, TypeOK, Writing, Rebalancing, searching
<1>2. /\ \A i \in 1..Len(targets) : \E D : SearchTree(targets[i], nodes, D)
      /\ BlackRoot(targets[Len(targets)])
  BY <1>1 DEF IInv, Writing
<1>3. PICK ts : ts = targets
  OBVIOUS
<1>4. ts \in Seq(Heap) /\ ts # <<>> /\ Len(ts) \in Nat \ {0}
  BY <1>1, <1>3
<1>5. CASE Len(ts) > 1
  <2>1. pc' = "write" /\ h' = Begun(ts[2])
    BY <1>3, <1>1, <1>5 DEF Rotated
  <2>2. ts[2] \in Heap
    BY <1>4, <1>5
  <2>3. h' \in Heap
    BY <1>1, <2>1, <2>2, BegunHeap
  <2>4. /\ Tail(ts) \in Seq(Heap) /\ Len(Tail(ts)) = Len(ts) - 1
        /\ \A i \in 1..Len(ts) - 1 : Tail(ts)[i] = ts[i + 1] /\ i + 1 \in 1..Len(ts)
    BY <1>4
  <2>5. Tail(ts) # <<>> /\ Tail(ts)[Len(Tail(ts))] = ts[Len(ts)]
    <3>1. Len(ts) - 1 \in 1..Len(ts) - 1 /\ (Len(ts) - 1) + 1 = Len(ts)
      BY <1>4, <1>5
    <3>2. Tail(ts)[Len(ts) - 1] = ts[Len(ts)]
      BY <2>4, <3>1
    <3>3. Len(Tail(ts)) # 0
      <4>1. PICK n : n = Len(ts)
        OBVIOUS
      <4>2. n \in Nat /\ n > 1
        BY <4>1, <1>4, <1>5
      <4>3. PICK m : m = Len(Tail(ts))
        OBVIOUS
      <4>4. m = n - 1
        BY <4>1, <4>3, <2>4
      <4>5. m # 0
        BY <4>2, <4>4
      <4> QED BY <4>3, <4>5
    <3>4. Len(<<>>) = 0
      OBVIOUS
    <3> QED BY <2>4, <3>2, <3>3, <3>4
  <2>6. \A i \in 1..Len(Tail(ts)) : \E D : SearchTree(Tail(ts)[i], nodes, D)
    BY <2>4, <1>2, <1>3
  <2>7. TypeOK'
    BY <1>1, <1>3, <2>1, <2>3, <2>4 DEF IInv, TypeOK, Rotated, searching
  <2>8. Writing'
    BY <1>1, <1>2, <1>3, <2>5, <2>6 DEF Writing
  <2>9. Rebalancing'
    BY <1>1, <2>1 DEF Rebalancing
  <2> QED BY <2>1, <2>7, <2>8, <2>9 DEF IInv
<1>6. CASE ~(Len(ts) > 1)
  <2>1. pc' = "rebalance" /\ h' = h
    BY <1>3, <1>1, <1>6 DEF Rotated
  <2>2. Len(ts) = 1
    BY <1>4, <1>6
  <2>3. h = ts[1] /\ Tail(ts) \in Seq(Heap)
    BY <1>1, <1>3, <1>4
  <2>4. (\E D : SearchTree(h, nodes, D)) /\ BlackRoot(h)
    <3>1. 1 \in 1..Len(ts)
      BY <2>2
    <3>2. \E D : SearchTree(ts[1], nodes, D)
      BY <3>1, <1>2, <1>3
    <3>3. BlackRoot(ts[1])
      BY <2>2, <1>2, <1>3
    <3> QED BY <2>3, <3>2, <3>3
  <2>5. TypeOK'
    BY <1>1, <1>3, <2>1, <2>3 DEF IInv, TypeOK, Rotated, searching
  <2>6. \A D : SearchTree(h, nodes, D) => Searchable(D)'
    BY <1>1, <2>1 DEF Searchable, Finding, Looking
  <2>7. Rebalancing'
    BY <1>1, <2>1, <2>4 DEF Rebalancing
  <2> QED BY <2>1, <2>4, <2>5, <2>6, <2>7 DEF IInv
<1> QED BY <1>5, <1>6

\* The root is painted black.
LEMMA FinishStep ==
  ASSUME IInv, Finish
  PROVE  IInv'
<1>1. /\ pc = "rebalance" /\ pc' = "idle" /\ nodes' = nodes /\ h \in Heap /\ nodes # {}
      /\ h' = Paint(h, h.tree, "black")
  BY DEF Finish, IInv, TypeOK, Rebalancing
<1>2. PICK D : Searchable(D)
  BY <1>1 DEF IInv
<1>3. h.tree \in Value
  BY <1>1, <1>2 DEF Searchable, SearchTree, Tree, Rooted
<1>4. h' \in Heap /\ h'.tree = h.tree /\ h'.type = [h.type EXCEPT ![h.tree] = "black"] /\ SearchTree(h', nodes, D)
  BY <1>1, <1>2, <1>3, PaintKeepsTree DEF Searchable, Color
<1>5. BlackRoot(h')
  BY <1>1, <1>3, <1>4, HeapPointers DEF BlackRoot
<1>6. ret' \in {0, 1, -1} \cup Garbage
  BY DEF Finish
<1>7. TypeOK'
  BY <1>1, <1>4, <1>6 DEF IInv, TypeOK, Finish, searching
<1>8. Searchable(D)'
  BY <1>1, <1>2, <1>4 DEF Searchable, Finding, Looking, Finish, searching
<1>9. Rebalancing'
  BY <1>1, <1>5 DEF Rebalancing
<1> QED BY <1>1, <1>7, <1>8, <1>9 DEF IInv

\* Calls that leave the tree alone.
LEMMA QuietStep ==
  ASSUME IInv, Exists \/ InsertNoNode
  PROVE  IInv'
<1>1. /\ h' = h /\ nodes' = nodes /\ pc' = "idle" /\ pc \in {"idle", "find"}
      /\ val' = val /\ root' = root /\ p' = p /\ locate' = locate /\ targets' = targets
      /\ searching' = searching /\ ret' \in {0, -1}
  BY DEF Exists, InsertNoNode
<1>2. PICK D : Searchable(D)
  BY <1>1 DEF IInv
<1>3. TypeOK'
  BY <1>1 DEF IInv, TypeOK, searching
<1>4. Searchable(D)'
  BY <1>1, <1>2 DEF Searchable, Finding, Looking, searching
<1>5. Rebalancing'
  BY <1>1 DEF IInv, Rebalancing
<1> QED BY <1>1, <1>3, <1>4, <1>5 DEF IInv

\* A step of search changes nothing of the insertion.
LEMMA SearchKeeps ==
  ASSUME IInv, h' = h, UNCHANGED insertion,
         busy' \in BOOLEAN /\ at' \in Ptr /\ sval' \in Ptr /\ known' \in BOOLEAN /\ rotated' \in BOOLEAN,
         pc = "write" => (busy' => rotated'),
         pc # "write" => \A D : Searchable(D) => Looking(D)'
  PROVE  IInv'
<1>1. /\ nodes' = nodes /\ pc' = pc /\ val' = val /\ root' = root /\ p' = p /\ locate' = locate
      /\ ret' = ret /\ targets' = targets
  BY DEF insertion
<1>2. TypeOK'
  BY <1>1 DEF IInv, TypeOK
<1>3. Rebalancing'
  BY <1>1 DEF IInv, Rebalancing
<1>4. pc = "write" => Writing'
  BY <1>1 DEF IInv, Writing
<1>5. ASSUME pc # "write"
      PROVE  \E D : Searchable(D)'
  <2>1. PICK D : Searchable(D)
    BY <1>5 DEF IInv
  <2>2. Looking(D)'
    BY <1>5, <2>1
  <2>3. SearchTree(h, nodes, D)' /\ Finding(D)'
    BY <1>1, <2>1 DEF Searchable, Finding
  <2> QED BY <2>2, <2>3 DEF Searchable
<1> QED BY <1>1, <1>2, <1>3, <1>4, <1>5 DEF IInv

\* A search begins at the root.
LEMMA SearchStep ==
  ASSUME IInv, NEW v \in Value, Search(v)
  PROVE  IInv'
<1>1. /\ h' = h /\ UNCHANGED insertion /\ busy' = TRUE /\ at' = h.tree /\ sval' = v
      /\ known' = (v \in nodes) /\ rotated' = (pc = "write") /\ h \in Heap
  BY DEF Search, IInv, TypeOK
<1>2. at' \in Ptr /\ sval' \in Ptr
  BY <1>1, HeapPointers DEF Ptr
<1>3. ASSUME pc # "write", NEW D, Searchable(D)
      PROVE  Looking(D)'
  <2> SUFFICES ASSUME v \in nodes
               PROVE  h.tree \in nodes /\ v \in D[h.tree]
    BY <1>1 DEF Looking, insertion
  <2>1. Tree(h.tree, h.parent, h.lchild, h.rchild, nodes, D, Below, Above)
    BY <1>3 DEF Searchable, SearchTree
  <2> QED BY <2>1 DEF Tree, Rooted
<1>4. busy' \in BOOLEAN /\ known' \in BOOLEAN /\ rotated' \in BOOLEAN
  BY <1>1
<1>5. pc = "write" => (busy' => rotated')
  BY <1>1
<1> QED BY <1>1, <1>2, <1>3, <1>4, <1>5, SearchKeeps

\* A search goes on at a child.
LEMMA SearchTurnStep ==
  ASSUME IInv, SearchTurn
  PROVE  IInv'
<1>1. /\ h' = h /\ UNCHANGED insertion /\ busy' = busy /\ sval' = sval /\ known' = known
      /\ rotated' = rotated /\ h \in Heap /\ at # NULL /\ at # sval /\ at \in Value
      /\ at' = IF at > sval THEN h.lchild[at] ELSE h.rchild[at]
  BY DEF SearchTurn, IInv, TypeOK, Ptr
<1>2. at' \in Ptr
  BY <1>1, HeapPointers
<1>3. /\ busy' \in BOOLEAN /\ sval' \in Ptr /\ known' \in BOOLEAN /\ rotated' \in BOOLEAN
  BY <1>1 DEF IInv, TypeOK
<1>4. pc = "write" => (busy' => rotated')
  BY <1>1 DEF IInv, Writing
<1>5. ASSUME pc # "write", NEW D, Searchable(D)
      PROVE  Looking(D)'
  <2> SUFFICES ASSUME busy, known, ~rotated
               PROVE  at' \in nodes /\ sval \in nodes /\ sval \in D[at']
    BY <1>1 DEF Looking, insertion
  <2>1. at \in nodes /\ sval \in nodes /\ sval \in D[at] /\ SearchTree(h, nodes, D)
    BY <1>5 DEF Searchable, Looking
  <2>2. sval \in Value
    BY <2>1 DEF IInv, TypeOK
  <2>3. /\ at' # NULL => at' \in nodes /\ sval \in D[at']
        /\ at' = NULL => sval \notin nodes
    BY <1>1, <2>1, <2>2, Descend
  <2> QED BY <2>1, <2>3
<1> QED BY <1>1, <1>2, <1>3, <1>4, <1>5, SearchKeeps

\* A search ends.
LEMMA SearchReturnsStep ==
  ASSUME IInv, SearchReturns
  PROVE  IInv'
<1>1. /\ h' = h /\ UNCHANGED insertion /\ busy' = FALSE /\ at' = NULL /\ sval' = NULL
      /\ known' = FALSE /\ rotated' = FALSE
  BY DEF SearchReturns
<1>2. \A D : Looking(D)'
  BY <1>1 DEF Looking
<1>3. at' \in Ptr /\ sval' \in Ptr
  BY <1>1 DEF Ptr
<1> QED BY <1>1, <1>2, <1>3, SearchKeeps

\* Every step keeps the invariant.
LEMMA NextIInv == IInv /\ [Next]_vars => IInv'
<1> SUFFICES ASSUME IInv, [Next]_vars PROVE IInv'
  OBVIOUS
<1>1. CASE Find
  BY <1>1, FindStep
<1>2. CASE Exists \/ InsertNoNode
  BY <1>2, QuietStep
<1>3. CASE Link
  BY <1>3, LinkStep
<1>4. CASE Recolor
  BY <1>4, RecolorStep
<1>5. CASE Rotate
  BY <1>5, RotateStep
<1>6. CASE WritePointer
  BY <1>6, WritePointerStep
<1>7. CASE Rotated
  BY <1>7, RotatedStep
<1>8. CASE Finish
  BY <1>8, FinishStep
<1>9. CASE SearchTurn
  BY <1>9, SearchTurnStep
<1>10. CASE SearchReturns
  BY <1>10, SearchReturnsStep
<1>11. ASSUME NEW v \in Value, InsertFirst(v) \/ Insert(v)
       PROVE  IInv'
  BY <1>11, InsertFirstStep, InsertStep
<1>12. ASSUME NEW v \in Searched, Search(v)
       PROVE  IInv'
  <2>1. v \in Value
    BY RBAssumption
  <2> QED BY <1>12, <2>1, SearchStep
<1>13. CASE UNCHANGED vars
  <2>1. h' = h /\ UNCHANGED insertion /\ UNCHANGED searching
    BY <1>13 DEF vars
  <2>2. /\ busy' \in BOOLEAN /\ at' \in Ptr /\ sval' \in Ptr /\ known' \in BOOLEAN /\ rotated' \in BOOLEAN
    BY <2>1 DEF IInv, TypeOK, searching
  <2>3. pc = "write" => (busy' => rotated')
    BY <2>1 DEF IInv, Writing, searching
  <2>4. \A D : Searchable(D) => Looking(D)'
    BY <2>1 DEF Searchable, Looking, searching, insertion
  <2> QED BY <2>1, <2>2, <2>3, <2>4, SearchKeeps
<1> QED BY <1>1, <1>2, <1>3, <1>4, <1>5, <1>6, <1>7, <1>8, <1>9, <1>10, <1>11, <1>12, <1>13 DEF Next, Running

\* The invariant holds in every behaviour.
LEMMA Invariance == Spec => []IInv
  BY InitIInv, NextIInv, PTL DEF Spec

\* When no pointer is still to be written, h itself is a search tree.
LEMMA SettledTree ==
  ASSUME IInv, Settled
  PROVE  \E D : SearchTree(h, nodes, D)
<1>1. CASE pc # "write"
  BY <1>1 DEF IInv, Searchable
<1>2. CASE pc = "write"
  <2>1. targets \in Seq(Heap) /\ targets # <<>> /\ h = Head(targets)
    BY <1>2 DEF IInv, TypeOK, Writing, Settled
  <2>2. 1 \in 1..Len(targets) /\ h = targets[1]
    BY <2>1
  <2>3. \A i \in 1..Len(targets) : \E D : SearchTree(targets[i], nodes, D)
    BY <1>2 DEF IInv, Writing
  <2> QED BY <2>2, <2>3
<1> QED BY <1>1, <1>2

\* The tree is a tree and the rebalancing stays in it: parents and children
\* agree whenever no rotation is under way, and a red parent has a parent.
THEOREM Shape == Spec => []WellFormed
<1>1. IInv => ParentsMatch
  <2> SUFFICES ASSUME IInv, Settled
               PROVE  /\ h.tree # NULL => h.parent[h.tree] = NULL
                      /\ \A n \in nodes :
                           /\ h.lchild[n] # NULL => h.parent[h.lchild[n]] = n
                           /\ h.rchild[n] # NULL => h.parent[h.rchild[n]] = n
                           /\ h.parent[n] # NULL => n \in {h.lchild[h.parent[n]], h.rchild[h.parent[n]]}
    BY DEF ParentsMatch
  <2>1. PICK D : SearchTree(h, nodes, D)
    BY SettledTree
  <2>2. CASE nodes = {}
    BY <2>1, <2>2 DEF SearchTree
  <2>3. CASE nodes # {}
    BY <2>1, <2>3 DEF SearchTree, Tree, Rooted, Children, Hangs
  <2> QED BY <2>2, <2>3
<1>2. IInv => GrandparentExists
  <2> SUFFICES ASSUME IInv, pc = "rebalance", RedUp PROVE UpUp # NULL
    BY DEF GrandparentExists
  <2> QED BY RedUpFacts, RBAssumption DEF IInv, TypeOK
<1>3. IInv => WellFormed
  BY <1>1, <1>2 DEF WellFormed, IInv
<1> QED BY <1>3, Invariance, PTL

\* A search beside an insert misses a value of the tree only when a rotation
\* runs beside it.
THEOREM Misses == Spec => []MissOnlyIfRotated
<1>1. IInv => MissOnlyIfRotated
  <2> SUFFICES ASSUME IInv, busy, at = NULL, known, ~rotated PROVE FALSE
    BY DEF MissOnlyIfRotated
  <2>1. pc # "write"
    BY DEF IInv, Writing
  <2>2. at \in nodes
    BY <2>1 DEF IInv, Searchable, Looking
  <2> QED BY <2>2, RBAssumption DEF IInv, TypeOK
<1> QED BY <1>1, Invariance, PTL

(***************************************************************************)
(* What the loop of search visits.  The loop has no bound in the code; the *)
(* path shrinks the set of values it can still be about.                   *)
(***************************************************************************)
\* A set of naturals that contains 0 and the successors of its members, up to
\* N, contains 0 .. N: the least number left out has no predecessor in it.
LEMMA UpTo ==
  ASSUME NEW N \in Nat, NEW Q, 0 \in Q, \A i \in 0..N : i \in Q /\ i < N => i + 1 \in Q
  PROVE  \A i \in 0..N : i \in Q
<1> SUFFICES ASSUME NEW j \in 0..N, j \notin Q PROVE FALSE
  OBVIOUS
<1>1. PICK T : T = {i \in 0..N : i \notin Q}
  OBVIOUS
<1>2. T \subseteq Nat /\ T # {}
  BY <1>1
<1>3. IsWellFoundedOn(OpToRel(<, Nat), Nat)
  BY NatLessThanWellFounded
<1>4. PICK R : R = OpToRel(<, Nat)
  OBVIOUS
<1>5. \A x, y \in Nat : y < x => <<y, x>> \in R
  BY <1>4 DEF OpToRel
<1>6. PICK x \in T : \A y \in T : ~(<<y, x>> \in R)
  BY <1>2, <1>3, <1>4, WFMin
<1>7. x \in 0..N /\ x \notin Q /\ x # 0
  BY <1>1, <1>6
<1>8. x - 1 \in 0..N /\ x - 1 < N /\ (x - 1) + 1 = x /\ x - 1 \in Nat /\ x - 1 < x /\ x \in Nat
  BY <1>7
<1>9. x - 1 \notin Q
  BY <1>7, <1>8
<1>10. x - 1 \in T
  BY <1>1, <1>8, <1>9
<1> QED BY <1>5, <1>6, <1>8, <1>10

\* A turn of the loop of search, when the loop looks for v and is at n.
TurnAt(g, v, n) ==
  IF n = NULL \/ n = v THEN n ELSE IF n > v THEN g.lchild[n] ELSE g.rchild[n]

\* f lists the first k + 1 places of the loop.
Places(g, v, k, f) ==
  /\ f \in [0..k -> Ptr]
  /\ f[0] = g.tree
  /\ \A i \in 0..k : i # 0 => f[i] = TurnAt(g, v, f[i - 1])

\* A turn stays among the pointers.
LEMMA TurnAtType ==
  ASSUME NEW g \in Heap, NEW v, NEW n \in Ptr
  PROVE  TurnAt(g, v, n) \in Ptr
<1>1. n = NULL \/ n \in Value
  BY DEF Ptr
<1> QED BY <1>1, HeapPointers DEF TurnAt

\* There is such a list of every length.
LEMMA PlacesExist ==
  ASSUME NEW g \in Heap, NEW v, NEW N \in Nat
  PROVE  \E f : Places(g, v, N, f)
<1>1. PICK Q : Q = {k \in 0..N : \E f : Places(g, v, k, f)}
  OBVIOUS
<1>2. 0 \in Q
  <2>1. PICK f : f = [i \in 0..0 |-> g.tree]
    OBVIOUS
  <2>2. g.tree \in Ptr
    BY HeapPointers
  <2>3. Places(g, v, 0, f)
    BY <2>1, <2>2 DEF Places
  <2> QED BY <2>3, <1>1
<1>3. ASSUME NEW k \in 0..N, k \in Q, k < N
      PROVE  k + 1 \in Q
  <2>1. PICK f : Places(g, v, k, f)
    BY <1>1, <1>3
  <2>2. k \in 0..k /\ k + 1 \in 0..N /\ k \in Nat
    BY <1>3
  <2>3. PICK z : z = TurnAt(g, v, f[k])
    OBVIOUS
  <2>4. z \in Ptr
    BY <2>1, <2>2, <2>3, TurnAtType DEF Places
  <2>5. PICK e : e = [i \in 0..k+1 |-> IF i = k + 1 THEN z ELSE f[i]]
    OBVIOUS
  <2>6. \A i \in 0..k+1 : i # k + 1 => i \in 0..k
    BY <2>2
  <2>7. e \in [0..k+1 -> Ptr]
    BY <2>1, <2>4, <2>5, <2>6 DEF Places
  <2>8. \A i \in 0..k : e[i] = f[i]
    BY <2>2, <2>5
  <2>9. e[0] = g.tree
    BY <2>1, <2>2, <2>8 DEF Places
  <2>10. ASSUME NEW i \in 0..k+1, i # 0
         PROVE  e[i] = TurnAt(g, v, e[i - 1])
    <3>1. i - 1 \in 0..k
      BY <2>2, <2>10
    <3>2. CASE i = k + 1
      <4>1. i - 1 = k /\ e[i] = z
        BY <2>2, <2>5, <3>2
      <4> QED BY <4>1, <2>3, <2>8, <3>1
    <3>3. CASE i # k + 1
      <4>1. i \in 0..k
        BY <2>6, <3>3
      <4>2. e[i] = f[i] /\ e[i - 1] = f[i - 1]
        BY <4>1, <3>1, <2>8
      <4>3. f[i] = TurnAt(g, v, f[i - 1])
        BY <4>1, <2>1, <2>10 DEF Places
      <4> QED BY <4>2, <4>3
    <3> QED BY <3>2, <3>3
  <2>11. Places(g, v, k + 1, e)
    BY <2>7, <2>9, <2>10 DEF Places
  <2> QED BY <2>2, <2>11, <1>1
<1>4. N \in 0..N
  OBVIOUS
<1>5. \A i \in 0..N : i \in Q
  BY <1>2, <1>3, UpTo
<1> QED BY <1>1, <1>4, <1>5

\* What the recursive function of Visits is: a list of the places.
LEMMA VisitsPlaces ==
  ASSUME h \in Heap, NEW v \in Value
  PROVE  \E f : /\ Places(h, v, Cardinality(Value), f)
                /\ Visits(v) = {f[i] : i \in 0..Cardinality(Value)}
<1>1. PICK N : N = Cardinality(Value)
  OBVIOUS
<1>2. N \in Nat
  BY <1>1, FS_CardinalityType, RBAssumption
<1>3. PICK g : g = h
  OBVIOUS
<1> DEFINE Loop(f) == [i \in 0..N |->
                         IF i = 0 THEN g.tree
                         ELSE LET n == f[i - 1]
                              IN IF n = NULL \/ n = v THEN n
                                 ELSE IF n > v THEN g.lchild[n] ELSE g.rchild[n]]
           step == CHOOSE f : f = Loop(f)
<1>4. Visits(v) = {step[i] : i \in 0..N}
  BY <1>1, <1>3 DEF Visits
<1>5. PICK f : Places(g, v, N, f)
  BY <1>2, <1>3, PlacesExist
<1>6. f = Loop(f)
  <2>1. f = [i \in 0..N |-> f[i]]
    BY <1>5 DEF Places
  <2>2. \A i \in 0..N : f[i] = Loop(f)[i]
    <3> SUFFICES ASSUME NEW i \in 0..N PROVE f[i] = Loop(f)[i]
      OBVIOUS
    <3>1. CASE i = 0
      BY <3>1, <1>5 DEF Places
    <3>2. CASE i # 0
      <4>1. f[i] = TurnAt(g, v, f[i - 1])
        BY <3>2, <1>5 DEF Places
      <4> QED BY <4>1, <3>2 DEF TurnAt
    <3> QED BY <3>1, <3>2
  <2> QED BY <2>1, <2>2
<1>7. step = Loop(step)
  BY <1>6
<1> HIDE DEF step
<1>8. PICK s : s = step /\ s = Loop(s)
  BY <1>7
<1>9. s = Loop(s)
  BY <1>8
<1>10. /\ s[0] = g.tree
       /\ \A i \in 0..N : i # 0 => s[i] = TurnAt(g, v, s[i - 1])
  <2>1. 0 \in 0..N
    BY <1>2
  <2>2. s[0] = Loop(s)[0] /\ \A i \in 0..N : s[i] = Loop(s)[i]
    BY <1>9
  <2>3. Loop(s)[0] = g.tree
    BY <2>1
  <2>4. \A i \in 0..N : i # 0 => Loop(s)[i] = TurnAt(g, v, s[i - 1])
    BY DEF TurnAt
  <2> QED BY <2>2, <2>3, <2>4
<1>11. DOMAIN s = 0..N /\ s = [i \in 0..N |-> s[i]]
  BY <1>9
<1>12. \A i \in 0..N : s[i] \in Ptr
  <2>1. PICK Q : Q = {i \in 0..N : s[i] \in Ptr}
    OBVIOUS
  <2>2. 0 \in Q
    BY <1>2, <1>3, <1>10, <2>1, HeapPointers
  <2>3. ASSUME NEW i \in 0..N, i \in Q, i < N
        PROVE  i + 1 \in Q
    <3>1. i + 1 \in 0..N /\ i + 1 # 0 /\ (i + 1) - 1 = i
      BY <2>3, <1>2
    <3>2. s[i + 1] = TurnAt(g, v, s[i])
      BY <3>1, <1>10
    <3>3. s[i] \in Ptr
      BY <2>1, <2>3
    <3>4. s[i + 1] \in Ptr
      BY <3>2, <3>3, <1>3, TurnAtType
    <3> QED BY <3>1, <3>4, <2>1
  <2>4. \A i \in 0..N : i \in Q
    BY <1>2, <2>2, <2>3, UpTo
  <2> QED BY <2>1, <2>4
<1>13. Places(h, v, N, s)
  <2>1. s \in [0..N -> Ptr]
    BY <1>11, <1>12
  <2> QED BY <2>1, <1>3, <1>10 DEF Places
<1>14. s = step
  BY <1>8
<1>15. Visits(v) = {s[i] : i \in 0..N}
  BY <1>4, <1>14
<1> QED BY <1>1, <1>13, <1>15

\* The loop stays among the nodes.
LEMMA PlacesAreNodes ==
  ASSUME NEW g \in Heap, NEW S \in SUBSET Value, NEW D, SearchTree(g, S, D),
         NEW v \in Value, NEW N \in Nat, NEW f, Places(g, v, N, f)
  PROVE  \A i \in 0..N : f[i] \in S \cup {NULL}
<1>1. PICK Q : Q = {i \in 0..N : f[i] \in S \cup {NULL}}
  OBVIOUS
<1>2. /\ g.tree \in S \cup {NULL}
      /\ \A n \in S : g.lchild[n] \in S \cup {NULL} /\ g.rchild[n] \in S \cup {NULL}
  BY DEF SearchTree, Tree, Rooted, Children
<1>3. 0 \in Q
  BY <1>1, <1>2 DEF Places
<1>4. ASSUME NEW i \in 0..N, i \in Q, i < N
      PROVE  i + 1 \in Q
  <2>1. i + 1 \in 0..N /\ i + 1 # 0 /\ (i + 1) - 1 = i
    BY <1>4
  <2>2. f[i + 1] = TurnAt(g, v, f[i]) /\ f[i] \in S \cup {NULL}
    BY <1>1, <1>4, <2>1 DEF Places
  <2>3. f[i + 1] \in S \cup {NULL}
    BY <2>2, <1>2 DEF TurnAt
  <2> QED BY <2>1, <2>3, <1>1
<1>5. \A i \in 0..N : i \in Q
  BY <1>3, <1>4, UpTo
<1> QED BY <1>1, <1>5

\* For a value of the tree the loop stays on its path, and every turn leaves
\* at least one value behind.
LEMMA PlacesShrink ==
  ASSUME NEW g \in Heap, NEW S \in SUBSET Value, NEW D, SearchTree(g, S, D),
         NEW v \in S, NEW N, N = Cardinality(Value), NEW f, Places(g, v, N, f)
  PROVE  f[N] = v
<1>0. N \in Nat /\ IsFiniteSet(Value) /\ NULL \notin Value /\ v \in Value
  BY FS_CardinalityType, RBAssumption
<1>1. Tree(g.tree, g.parent, g.lchild, g.rchild, S, D, Below, Above)
  BY DEF SearchTree
<1>2. D \in [Value -> SUBSET Value] /\ S \subseteq Value
  BY <1>1 DEF Tree
<1> DEFINE OnPath(i) == /\ f[i] \in S /\ v \in D[f[i]]
                        /\ f[i] = v \/ Cardinality(D[f[i]]) <= N - i
<1>3. PICK Q : Q = {i \in 0..N : OnPath(i)}
  OBVIOUS
<1>4. 0 \in Q
  <2>1. f[0] = g.tree /\ g.tree \in S /\ D[g.tree] = Value
    BY <1>1 DEF Places, Tree, Rooted
  <2>2. Cardinality(Value) <= N - 0
    BY <1>0
  <2>3. 0 \in 0..N
    BY <1>0
  <2> QED BY <2>1, <2>2, <2>3, <1>0, <1>3
<1>5. ASSUME NEW i \in 0..N, i \in Q, i < N
      PROVE  i + 1 \in Q
  <2>1. i + 1 \in 0..N /\ i + 1 # 0 /\ (i + 1) - 1 = i
    BY <1>0, <1>5
  <2>2. PICK n : n = f[i]
    OBVIOUS
  <2>3. PICK c : c = f[i + 1]
    OBVIOUS
  <2>4. c = TurnAt(g, v, n)
    BY <2>1, <2>2, <2>3 DEF Places
  <2>5. n \in S /\ v \in D[n] /\ (n = v \/ Cardinality(D[n]) <= N - i)
    BY <1>3, <1>5, <2>2
  <2>6. CASE n = v
    BY <2>1, <2>3, <2>4, <2>5, <2>6, <1>3 DEF TurnAt
  <2>7. CASE n # v
    <3>1. n # NULL /\ n \in Value
      BY <2>5, <1>0, <1>2
    <3>2. c = IF n > v THEN g.lchild[n] ELSE g.rchild[n]
      BY <3>1, <2>4, <2>7 DEF TurnAt
    <3>3. c \in S /\ v \in D[c] /\ D[c] \subseteq D[n] \ {n}
      BY <3>2, <2>5, <2>7, <1>0, Descend
    <3>4. n \in D[n] /\ D[n] \subseteq Value
      BY <2>5, <3>1, <1>1, <1>2 DEF Tree, Home
    <3>5. IsFiniteSet(D[n]) /\ Cardinality(D[n]) \in Nat
      BY <3>4, <1>0, FS_Subset, FS_CardinalityType
    <3>6. IsFiniteSet(D[n] \ {n}) /\ Cardinality(D[n] \ {n}) = Cardinality(D[n]) - 1
      BY <3>4, <3>5, FS_RemoveElement
    <3>7. Cardinality(D[c]) <= Cardinality(D[n] \ {n}) /\ IsFiniteSet(D[c])
      BY <3>3, <3>6, FS_Subset
    <3>8. Cardinality(D[c]) \in Nat
      BY <3>7, FS_CardinalityType
    <3>9. Cardinality(D[c]) <= N - (i + 1)
      BY <3>5, <3>6, <3>7, <3>8, <2>5, <2>7, <1>0
    <3> QED BY <2>1, <2>3, <3>3, <3>9, <1>3
  <2> QED BY <2>6, <2>7
<1>6. \A i \in 0..N : i \in Q
  BY <1>0, <1>4, <1>5, UpTo
<1>7. N \in 0..N /\ N - N = 0
  BY <1>0
<1>8. OnPath(N)
  BY <1>3, <1>6, <1>7
<1>9. ASSUME f[N] # v PROVE FALSE
  <2>1. PICK n : n = f[N]
    OBVIOUS
  <2>2. n \in S /\ v \in D[n] /\ Cardinality(D[n]) <= 0
    BY <1>7, <1>8, <1>9, <2>1
  <2>3. n \in Value /\ D[n] \subseteq Value
    BY <2>2, <1>2
  <2>4. IsFiniteSet(D[n]) /\ Cardinality(D[n]) \in Nat
    BY <2>3, <1>0, FS_Subset, FS_CardinalityType
  <2>5. Cardinality(D[n]) = 0
    BY <2>2, <2>4
  <2> QED BY <2>2, <2>4, <2>5, FS_EmptySet
<1> QED BY <1>9

\* search finds exactly the values that were inserted, whatever recolourings
\* and rotations have done to the tree.
THEOREM SearchCorrect == Spec => []SearchFindsInserted
<1>1. IInv => SearchFindsInserted
  <2> SUFFICES ASSUME IInv, Settled, NEW v \in Value
               PROVE  v \in Visits(v) <=> v \in nodes
    BY DEF SearchFindsInserted
  <2>1. h \in Heap /\ nodes \in SUBSET Value
    BY DEF IInv, TypeOK
  <2>2. PICK D : SearchTree(h, nodes, D)
    BY SettledTree
  <2>3. PICK N : N = Cardinality(Value)
    OBVIOUS
  <2>4. N \in Nat
    BY <2>3, FS_CardinalityType, RBAssumption
  <2>5. PICK f : Places(h, v, N, f) /\ Visits(v) = {f[i] : i \in 0..N}
    BY <2>1, <2>3, VisitsPlaces
  <2>6. ASSUME v \in Visits(v) PROVE v \in nodes
    <3>1. PICK i \in 0..N : v = f[i]
      BY <2>5, <2>6
    <3>2. f[i] \in nodes \cup {NULL}
      BY <2>1, <2>2, <2>4, <2>5, PlacesAreNodes
    <3> QED BY <3>1, <3>2, RBAssumption
  <2>7. ASSUME v \in nodes PROVE v \in Visits(v)
    <3>1. f[N] = v
      BY <2>1, <2>2, <2>3, <2>5, <2>7, PlacesShrink
    <3>2. N \in 0..N
      BY <2>4
    <3> QED BY <3>1, <3>2, <2>5
  <2> QED BY <2>6, <2>7
<1> QED BY <1>1, Invariance, PTL
=============================================================================
