------------------------- MODULE RepoParser_proofs -------------------------
(***************************************************************************)
(* What the parsers promise about every tree of every grammar (RepoParser).*)
(*                                                                         *)
(* The walks of the parsers are recursive functions on the nodes of a      *)
(* tree, defined by CHOOSE.  That such a function exists, and satisfies    *)
(* the equation it is defined by, is RecursionExists; it needs values that *)
(* depend on those of smaller rank only.  What the function then computes  *)
(* is shown by induction along the tree: from the root down for what a     *)
(* node inherits (DownTheTree), from the leaves up for what it finds       *)
(* below (UpTheTree).  Both rest on one fact, that some numbers have a     *)
(* least one, which follows from the library's well-founded ordering of    *)
(* the finite sets (LeastElement).                                         *)
(*                                                                         *)
(* The inductive invariant is ParserInv; each property of the runs is a    *)
(* consequence of it, proved by a lemma and lifted by the theorem after it.*)
(***************************************************************************)
EXTENDS RepoParser, TLAPS, FiniteSetTheorems, SequenceTheorems

----------------------------------------------------------------------------
(* Numbers, and recursive functions.                                       *)

\* Some numbers have a least one.
LEMMA LeastElement ==
    ASSUME NEW T \in SUBSET Nat, T # {}
    PROVE  \E n \in T : \A m \in T : n <= m
<1> DEFINE Belows == {1 .. n : n \in T}
<1>1. \A n \in Nat : 1 .. n \in FiniteSubsetsOf(Nat)
  BY FS_Interval DEF FiniteSubsetsOf
<1>2. Belows \subseteq FiniteSubsetsOf(Nat) /\ Belows # {}
  BY <1>1
<1>3. PICK B \in Belows : \A C \in Belows : <<C, B>> \notin StrictSubsetOrdering(Nat)
  <2> HIDE DEF Belows
  <2> QED BY <1>2, FS_StrictSubsetOrderingWellFounded, WFMin
<1>4. PICK n \in T : B = 1 .. n
  OBVIOUS
<1>5. ASSUME NEW m \in T, m < n PROVE FALSE
  <2>1. 1 .. m \subseteq 1 .. n /\ n \in 1 .. n /\ n \notin 1 .. m   BY <1>5
  <2>2. 1 .. m \in SUBSET Nat /\ 1 .. n \in SUBSET Nat   BY <1>1 DEF FiniteSubsetsOf
  <2>3. <<1 .. m, 1 .. n>> \in StrictSubsetOrdering(Nat)   BY <2>1, <2>2 DEF StrictSubsetOrdering
  <2> QED BY <2>3, <1>3, <1>4
<1> QED BY <1>5

\* Induction, on a set.
LEMMA AllNaturals ==
    ASSUME NEW S \in SUBSET Nat, 0 \in S, \A n \in S : n + 1 \in S
    PROVE  S = Nat
<1> SUFFICES ASSUME Nat \ S # {} PROVE FALSE
  OBVIOUS
<1>1. PICK n \in Nat \ S : \A m \in Nat \ S : n <= m
  BY LeastElement
<1>2. n # 0 /\ n - 1 \in Nat /\ n - 1 \notin Nat \ S
  BY <1>1
<1> QED
  BY <1>2

\* Each value is computed from those of smaller rank.
IsRecursion(D, V, bound, rank, step) ==
    /\ bound \in Nat /\ rank \in [D -> 0 .. bound]
    /\ V # {} /\ step \in [D \X [D -> V] -> V]
    /\ \A i \in D, g \in [D -> V], h \in [D -> V] :
          (\A j \in D : rank[j] < rank[i] => g[j] = h[j]) => step[<<i, g>>] = step[<<i, h>>]

\* Such a function exists: by induction on the rank up to which it is right.
LEMMA RecursionExists ==
    ASSUME NEW D, NEW V, NEW bound, NEW rank, NEW step, IsRecursion(D, V, bound, rank, step)
    PROVE  \E f \in [D -> V] : \A i \in D : f[i] = step[<<i, f>>]
<1> USE DEF IsRecursion
<1> DEFINE Upto(n, f) == \A i \in D : rank[i] < n => f[i] = step[<<i, f>>]
           Good == {n \in Nat : \E f \in [D -> V] : Upto(n, f)}
<1>0. \A i \in D : rank[i] \in Nat /\ rank[i] < bound + 1
  OBVIOUS
<1>1. 0 \in Good
  <2>1. PICK v \in V : TRUE
    OBVIOUS
  <2>2. [i \in D |-> v] \in [D -> V] /\ Upto(0, [i \in D |-> v])
    BY <1>0
  <2> QED
    BY <2>2
<1>2. ASSUME NEW n \in Good PROVE n + 1 \in Good
  <2>1. n \in Nat /\ \E f \in [D -> V] : Upto(n, f)
    OBVIOUS
  <2>2. PICK f \in [D -> V] : Upto(n, f)
    BY <2>1
  <2> DEFINE g == [i \in D |-> IF rank[i] = n THEN step[<<i, f>>] ELSE f[i]]
  <2>3. g \in [D -> V]
    OBVIOUS
  <2>4. \A i \in D : rank[i] < n => g[i] = f[i]
    BY <1>0
  <2>5. \A i \in D : rank[i] = n => g[i] = step[<<i, f>>]
    OBVIOUS
  <2> HIDE DEF g
  <2>6. ASSUME NEW i \in D, rank[i] < n + 1 PROVE step[<<i, g>>] = step[<<i, f>>]
    <3>1. \A j \in D : rank[j] < rank[i] => g[j] = f[j]
      BY <1>0, <2>4, <2>6
    <3> QED
      BY <2>3, <3>1
  <2>7. ASSUME NEW i \in D, rank[i] < n + 1 PROVE g[i] = step[<<i, g>>]
    <3>1. rank[i] < n \/ rank[i] = n
      BY <1>0, <2>1, <2>7
    <3> QED
      BY <2>2, <2>4, <2>5, <2>6, <2>7, <3>1
  <2> QED
    BY <2>1, <2>3, <2>7
<1>3. Good = Nat
  <2>1. Good \in SUBSET Nat
    OBVIOUS
  <2> HIDE DEF Good
  <2> QED
    BY <1>1, <1>2, <2>1, AllNaturals
<1>4. PICK f \in [D -> V] : Upto(bound + 1, f)
  <2>1. bound + 1 \in Good
    <3> HIDE DEF Good
    <3> QED
      BY <1>3
  <2> QED
    BY <2>1
<1> QED
  BY <1>0, <1>4

----------------------------------------------------------------------------
(* Trees.                                                                  *)

IsTree(t) ==
    /\ t \in Seq(Node) /\ Len(t) \in Nat \ {0}
    /\ \A i \in DOMAIN t : t[i].parent < i /\ (t[i].parent = 0 <=> i = 1)

\* What follows of it at once.
LEMMA TreeShape ==
    ASSUME NEW t, IsTree(t)
    PROVE  /\ DOMAIN t = 1 .. Len(t) /\ DOMAIN t \in SUBSET Nat /\ Len(t) \in Nat
           /\ 1 \in DOMAIN t /\ Len(t) \in DOMAIN t
           /\ \A i \in DOMAIN t : t[i] \in Node /\ t[i].parent \in Nat
           /\ \A i \in DOMAIN t : i # 1 => t[i].parent \in DOMAIN t /\ t[i].parent < i
<1>1. /\ DOMAIN t = 1 .. Len(t) /\ Len(t) \in Nat \ {0}
      /\ \A i \in DOMAIN t : t[i] \in Node
  BY DEF IsTree
<1>2. \A i \in DOMAIN t : t[i].parent \in Nat /\ t[i].parent < i /\ (t[i].parent = 0 <=> i = 1)
  BY <1>1 DEF IsTree, Node
<1> QED
  BY <1>1, <1>2

\* From the root down.
LEMMA DownTheTree ==
    ASSUME NEW t, IsTree(t), NEW S, 1 \in S,
           \A i \in DOMAIN t : i # 1 /\ t[i].parent \in S => i \in S
    PROVE  DOMAIN t \subseteq S
<1> DEFINE Left == DOMAIN t \ S
<1> SUFFICES ASSUME Left # {} PROVE FALSE
  OBVIOUS
<1>1. Left \in SUBSET Nat
  BY TreeShape
<1>2. PICK i \in Left : \A j \in Left : i <= j
  BY <1>1, LeastElement
<1>3. i \in DOMAIN t /\ i \in Nat /\ i # 1
  BY <1>1, <1>2
<1>4. t[i].parent \in DOMAIN t /\ t[i].parent \in Nat /\ t[i].parent < i
  BY <1>3, TreeShape
<1>5. t[i].parent \in S
  BY <1>2, <1>3, <1>4
<1> QED
  BY <1>2, <1>3, <1>5

\* From the leaves up.
LEMMA UpTheTree ==
    ASSUME NEW t, IsTree(t), NEW S,
           \A i \in DOMAIN t : (\A k \in Children(t, i) : k \in S) => i \in S
    PROVE  DOMAIN t \subseteq S
<1> DEFINE Left == {n \in Nat : \E i \in DOMAIN t : i \notin S /\ n = Len(t) - i}
<1> SUFFICES ASSUME NEW k \in DOMAIN t, k \notin S PROVE FALSE
  OBVIOUS
<1>0. DOMAIN t = 1 .. Len(t) /\ Len(t) \in Nat
  BY TreeShape
<1>1. Len(t) - k \in Left
  BY <1>0
<1>2. PICK n \in Left : \A m \in Left : n <= m
  <2>1. Left \in SUBSET Nat /\ Left # {}
    BY <1>1
  <2> HIDE DEF Left
  <2> QED
    BY <2>1, LeastElement
<1>3. PICK i \in DOMAIN t : i \notin S /\ n = Len(t) - i
  OBVIOUS
<1>4. ASSUME NEW j \in Children(t, i), j \notin S PROVE FALSE
  <2>1. j \in DOMAIN t /\ t[j].parent = i
    BY DEF Children
  <2>2. i < j
    BY <2>1 DEF IsTree
  <2>3. Len(t) - j \in Left /\ Len(t) - j < n
    BY <1>0, <1>3, <1>4, <2>1, <2>2
  <2> QED
    BY <1>0, <1>2, <2>3
<1> QED
  BY <1>3, <1>4

\* The equation of Lineage.
LEMMA LineageStep ==
    ASSUME NEW t, IsTree(t)
    PROVE  /\ Lineage(t, 1) = {1}
           /\ \A i \in DOMAIN t : i # 1 => Lineage(t, i) = {i} \cup Lineage(t, t[i].parent)
<1> DEFINE D == DOMAIN t
           V == SUBSET Nat
           up(g) == [k \in D |-> {k} \cup (IF k = 1 THEN {} ELSE g[t[k].parent])]
           step == [x \in D \X [D -> V] |-> up(x[2])[x[1]]]
           rank == [i \in D |-> i]
<1>1. /\ D = 1 .. Len(t) /\ Len(t) \in Nat /\ 1 \in D
      /\ \A i \in D : i \in Nat /\ (i # 1 => t[i].parent \in D /\ t[i].parent < i)
  BY TreeShape
<1>2. rank \in [D -> 0 .. Len(t)]
  BY <1>1
<1>3. \A i \in D, g \in [D -> V] : up(g)[i] \in V
  BY <1>1
<1>4. step \in [D \X [D -> V] -> V]
  BY <1>3
<1>5. \A i \in D, g \in [D -> V], h \in [D -> V] :
         (\A j \in D : rank[j] < rank[i] => g[j] = h[j]) => step[<<i, g>>] = step[<<i, h>>]
  BY <1>1
<1>6. PICK f \in [D -> V] : \A i \in D : f[i] = step[<<i, f>>]
  <2>1. IsRecursion(D, V, Len(t), rank, step)
    <3> HIDE DEF step, rank, D
    <3> QED
      BY <1>1, <1>2, <1>4, <1>5 DEF IsRecursion
  <2> HIDE DEF step, rank, D, V
  <2> QED
    BY <2>1, RecursionExists
<1>7. f = up(f)
  <2>1. \A i \in D : f[i] = {i} \cup (IF i = 1 THEN {} ELSE f[t[i].parent])
    BY <1>6
  <2> QED
    BY <2>1
<1> DEFINE u == CHOOSE g : g = up(g)
<1>8. \A i \in D : Lineage(t, i) = u[i]
  BY DEF Lineage
<1>9. u = up(u)
  BY <1>7
<1> HIDE DEF u
<1>10. \A i \in D : u[i] = {i} \cup (IF i = 1 THEN {} ELSE u[t[i].parent])
  BY <1>9
<1> HIDE DEF D
<1> QED
  BY <1>1, <1>8, <1>10 DEF D

\* A lineage goes from the node to the root, and no later node is in it.
LEMMA LineageShape ==
    ASSUME NEW t, IsTree(t)
    PROVE  \A i \in DOMAIN t :
              /\ i \in Lineage(t, i) /\ 1 \in Lineage(t, i)
              /\ Lineage(t, i) \subseteq DOMAIN t
              /\ \A k \in Lineage(t, i) : k <= i
<1> DEFINE Good(i) == /\ i \in Lineage(t, i) /\ 1 \in Lineage(t, i)
                      /\ Lineage(t, i) \subseteq DOMAIN t
                      /\ \A k \in Lineage(t, i) : k <= i
           S == {i \in DOMAIN t : Good(i)}
<1>1. 1 \in S
  BY TreeShape, LineageStep
<1>2. ASSUME NEW i \in DOMAIN t, i # 1, t[i].parent \in S PROVE i \in S
  <2>1. Lineage(t, i) = {i} \cup Lineage(t, t[i].parent)
    BY <1>2, LineageStep
  <2>2. i \in Nat /\ t[i].parent \in Nat /\ t[i].parent < i /\ DOMAIN t \subseteq Nat
    BY <1>2, TreeShape
  <2>3. Good(t[i].parent)
    BY <1>2
  <2>4. \A k \in Lineage(t, i) : k <= i
    <3> SUFFICES ASSUME NEW k \in Lineage(t, i), k # i PROVE k <= i
      BY <2>2
    <3>1. k \in Nat /\ k <= t[i].parent
      BY <2>1, <2>2, <2>3
    <3> QED
      BY <2>2, <3>1
  <2> QED
    BY <2>1, <2>3, <2>4
<1>3. DOMAIN t \subseteq S
  <2> HIDE DEF S
  <2> QED
    BY <1>1, <1>2, DownTheTree
<1> QED
  BY <1>3

\* What is above a node above is above.
LEMMA LineageTransitive ==
    ASSUME NEW t, IsTree(t), NEW k \in DOMAIN t, NEW i \in Lineage(t, k)
    PROVE  Lineage(t, i) \subseteq Lineage(t, k)
<1> DEFINE S == {n \in DOMAIN t : \A j \in Lineage(t, n) : Lineage(t, j) \subseteq Lineage(t, n)}
<1>1. 1 \in S
  BY TreeShape, LineageStep
<1>2. ASSUME NEW n \in DOMAIN t, n # 1, t[n].parent \in S PROVE n \in S
  <2>1. Lineage(t, n) = {n} \cup Lineage(t, t[n].parent)
    BY <1>2, LineageStep
  <2> QED
    BY <1>2, <2>1
<1>3. DOMAIN t \subseteq S
  <2> HIDE DEF S
  <2> QED
    BY <1>1, <1>2, DownTheTree
<1> QED
  BY <1>3

\* The way down to a node leads through a child.
LEMMA LineageThroughChild ==
    ASSUME NEW t, IsTree(t), NEW k \in DOMAIN t, NEW i \in Lineage(t, k), i # k
    PROVE  \E j \in Children(t, i) : j \in Lineage(t, k)
<1> DEFINE S == {n \in DOMAIN t : i \in Lineage(t, n) /\ i # n =>
                                     \E j \in Children(t, i) : j \in Lineage(t, n)}
<1>1. 1 \in S
  BY TreeShape, LineageStep
<1>2. ASSUME NEW n \in DOMAIN t, n # 1, t[n].parent \in S PROVE n \in S
  <2>1. Lineage(t, n) = {n} \cup Lineage(t, t[n].parent)
    BY <1>2, LineageStep
  <2>2. CASE t[n].parent = i
    BY <2>1, <2>2 DEF Children
  <2>3. CASE t[n].parent # i
    BY <1>2, <2>1, <2>3
  <2> QED
    BY <2>2, <2>3
<1>3. DOMAIN t \subseteq S
  <2> HIDE DEF S
  <2> QED
    BY <1>1, <1>2, DownTheTree
<1> QED
  BY <1>3

\* The lineage of a child is that of its parent and itself.
LEMMA ChildLineage ==
    ASSUME NEW t, IsTree(t), NEW i \in DOMAIN t, NEW j \in Children(t, i)
    PROVE  /\ j \in DOMAIN t /\ j # 1 /\ i \in Lineage(t, j)
           /\ Lineage(t, j) = {j} \cup Lineage(t, i)
<1>1. j \in DOMAIN t /\ t[j].parent = i
  BY DEF Children
<1>2. j # 1
  BY <1>1, TreeShape DEF IsTree
<1> QED
  BY <1>1, <1>2, LineageStep, LineageShape

\* A tree that has grown at its end has the lineages it had.
LEMMA LineageKept ==
    ASSUME NEW t, NEW u, IsTree(t), IsTree(u), DOMAIN t \subseteq DOMAIN u,
           \A i \in DOMAIN t : u[i].parent = t[i].parent
    PROVE  \A i \in DOMAIN t : Lineage(u, i) = Lineage(t, i)
<1> DEFINE S == {i \in DOMAIN t : Lineage(u, i) = Lineage(t, i)}
<1>1. 1 \in S
  BY TreeShape, LineageStep
<1>2. ASSUME NEW i \in DOMAIN t, i # 1, t[i].parent \in S PROVE i \in S
  BY <1>2, LineageStep
<1>3. DOMAIN t \subseteq S
  <2> HIDE DEF S
  <2> QED
    BY <1>1, <1>2, DownTheTree
<1> QED
  BY <1>3

----------------------------------------------------------------------------
(* Types.  A node is below its parent's rows, which needs that a new node  *)
(* extends the rows of all that are above it, and that none of the rows    *)
(* reached so far is past the last of the root.                            *)

TreeInv ==
    /\ TreeTypeOK
    /\ \A i \in DOMAIN nodes : /\ nodes[i].first <= nodes[i].last
                               /\ nodes[i].readable \/ nodes[i].kind \in Nameless
    /\ \A i \in DOMAIN nodes :
          i # 1 => <<nodes[nodes[i].parent].kind, nodes[i].kind>> \in Grammar[lang]

LEMMA NodesAreTree ==
    ASSUME TreeTypeOK
    PROVE  IsTree(nodes)
BY DEF TreeTypeOK, IsTree

\* Rows of a node are among those of another, said with their ends.
LEMMA RowsWithin ==
    ASSUME NEW t, NEW i, NEW k, t[i].first \in Nat, t[i].last \in Nat,
           t[k].first \in Nat, t[k].last \in Nat, t[k].first <= t[k].last
    PROVE  /\ Rows(t, k) \subseteq Rows(t, i) =>
                 t[i].first <= t[k].first /\ t[k].last <= t[i].last
           /\ t[i].first <= t[k].first /\ t[k].last <= t[i].last =>
                 Rows(t, k) \subseteq Rows(t, i)
<1>1. t[k].first \in Rows(t, k) /\ t[k].last \in Rows(t, k)
  BY DEF Rows
<1> QED
  BY <1>1 DEF Rows

\* A new node is on the last row or the next one, so all above it reach to it.
LEMMA AddNodeInv ==
    ASSUME TreeInv, NEW p \in Lineage(nodes, Len(nodes)), NEW readable \in BOOLEAN,
           NEW row \in 0 .. MaxRow, NEW k \in Kinds, AddNode(k, p, readable, row)
    PROVE  TreeInv'
<1> DEFINE n == Len(nodes)
           Old == DOMAIN nodes
           node == [kind |-> k, parent |-> p, readable |-> readable,
                    first |-> row, last |-> row]
           above == [i \in Old |->
                        IF i \in Lineage(nodes, p) THEN [nodes[i] EXCEPT !.last = row]
                                                   ELSE nodes[i]]
<1>1. /\ IsTree(nodes) /\ Old = 1 .. n /\ n \in Nat /\ n \in Old /\ p \in Old
      /\ \A i \in Old : nodes[i] \in Node /\ i \in Nat
  BY NodesAreTree, TreeShape, LineageShape DEF TreeInv
<1>2. above \in Seq(Node) /\ Len(above) = n /\ DOMAIN above = Old
  <2>1. above \in [1 .. n -> Node]
    BY <1>1 DEF Node
  <2> QED
    BY <1>1, <2>1
<1>3. node \in Node
  BY <1>1, TreeAssumption DEF TreeInv, TreeTypeOK, Node, AddNode
<1>4. /\ nodes' = Append(above, node) /\ UNCHANGED lang /\ n < MaxNodes
      /\ k \in Nameless \/ readable
      /\ row \in {nodes[1].last, nodes[1].last + 1}
  BY DEF AddNode
<1>5. /\ nodes' \in Seq(Node) /\ Len(nodes') = n + 1 /\ DOMAIN nodes' = 1 .. n + 1
      /\ \A i \in Old : nodes'[i] = above[i]
      /\ nodes'[n + 1] = node
  <2> HIDE DEF above, node
  <2> QED
    BY <1>1, <1>2, <1>3, <1>4
<1>6. \A i \in Old :
         /\ nodes'[i].parent = nodes[i].parent /\ nodes'[i].kind = nodes[i].kind
         /\ nodes'[i].readable = nodes[i].readable /\ nodes'[i].first = nodes[i].first
         /\ nodes'[i].last = IF i \in Lineage(nodes, p) THEN row ELSE nodes[i].last
  BY <1>1, <1>5 DEF Node
<1>7. /\ nodes'[n + 1].parent = p /\ nodes'[n + 1].kind = k
      /\ nodes'[n + 1].readable = readable
      /\ nodes'[n + 1].first = row /\ nodes'[n + 1].last = row
  BY <1>5
<1> HIDE DEF above, node
<1>8. p \in Nat /\ p # 0 /\ p < n + 1
  BY <1>1
<1>9. IsTree(nodes')
  BY <1>1, <1>5, <1>6, <1>7, <1>8 DEF IsTree
<1>10. \A i \in Old : Lineage(nodes', i) = Lineage(nodes, i)
  BY <1>1, <1>5, <1>6, <1>9, LineageKept
<1>11. Lineage(nodes', n + 1) = {n + 1} \cup Lineage(nodes, p)
  <2>1. n + 1 \in DOMAIN nodes' /\ n + 1 # 1
    BY <1>1, <1>5
  <2> QED
    BY <1>1, <1>7, <1>9, <1>10, <2>1, LineageStep
<1>12. \A i \in Old : nodes[i].first \in Nat /\ nodes[i].last \in Nat
  BY <1>1, TreeAssumption DEF Node
<1>13. \A i \in Old, j \in Old : i \in Lineage(nodes, j) =>
          nodes[i].first <= nodes[j].first /\ nodes[j].last <= nodes[i].last
  BY <1>12, RowsWithin DEF TreeInv, TreeTypeOK
<1>14. /\ row \in Nat /\ nodes[1].last <= row
       /\ \A i \in Old : nodes[i].last <= row /\ nodes[i].first <= row
  <2>1. 1 \in Old /\ \A i \in Old : 1 \in Lineage(nodes, i)
    BY <1>1, LineageShape
  <2>2. row \in Nat /\ nodes[1].last <= row
    BY <1>4, <1>12, <2>1, TreeAssumption
  <2>3. \A i \in Old : nodes[i].last <= nodes[1].last
    BY <1>13, <2>1
  <2>4. \A i \in Old : nodes[i].first <= nodes[i].last
    BY DEF TreeInv
  <2> QED
    BY <1>12, <2>1, <2>2, <2>3, <2>4
<1>15. \A i \in 1 .. n + 1 :
          /\ nodes'[i].first \in Nat /\ nodes'[i].last \in Nat
          /\ nodes'[i].first <= nodes'[i].last
          /\ nodes'[i].readable \/ nodes'[i].kind \in Nameless
  <2>1. ASSUME NEW i \in Old
        PROVE  /\ nodes'[i].first \in Nat /\ nodes'[i].last \in Nat
               /\ nodes'[i].first <= nodes'[i].last
               /\ nodes'[i].readable \/ nodes'[i].kind \in Nameless
    BY <1>6, <1>12, <1>14 DEF TreeInv
  <2>2. nodes'[n + 1].readable \/ nodes'[n + 1].kind \in Nameless
    BY <1>4, <1>7, Zenon
  <2>3. /\ nodes'[n + 1].first \in Nat /\ nodes'[n + 1].last \in Nat
        /\ nodes'[n + 1].first <= nodes'[n + 1].last
    BY <1>7, <1>14
  <2>4. \A i \in 1 .. n + 1 : i \in Old \/ i = n + 1
    BY <1>1
  <2> QED
    BY <2>1, <2>2, <2>3, <2>4
<1>16. ASSUME NEW i \in 1 .. n + 1, NEW j \in 1 .. n + 1, i \in Lineage(nodes', j)
       PROVE  nodes'[i].first <= nodes'[j].first /\ nodes'[j].last <= nodes'[i].last
  <2>1. CASE j \in Old
    <3>1. i \in Lineage(nodes, j) /\ i \in Old
      BY <1>1, <1>10, <1>16, <2>1, LineageShape
    <3>2. j \in Lineage(nodes, p) => i \in Lineage(nodes, p)
      BY <1>1, <2>1, <3>1, LineageTransitive
    <3> QED
      BY <1>6, <1>12, <1>13, <1>14, <2>1, <3>1, <3>2
  <2>2. CASE j = n + 1 /\ i = n + 1
    BY <1>7, <1>14, <2>2
  <2>3. CASE j = n + 1 /\ i # n + 1
    <3>1. i \in Lineage(nodes, p) /\ i \in Old
      BY <1>1, <1>11, <1>16, <2>3, LineageShape
    <3> QED
      BY <1>6, <1>7, <1>14, <2>3, <3>1
  <2> QED
    BY <1>1, <2>1, <2>2, <2>3
<1>17. \A i \in 1 .. n + 1, j \in 1 .. n + 1 :
          i \in Lineage(nodes', j) => Rows(nodes', j) \subseteq Rows(nodes', i)
  BY <1>15, <1>16, RowsWithin
<1>18. TreeTypeOK'
  <2>1. Len(nodes') \in 1 .. MaxNodes
    BY <1>1, <1>4, <1>5, TreeAssumption
  <2> QED
    BY <1>4, <1>5, <1>9, <1>17, <2>1 DEF TreeTypeOK, TreeInv, IsTree
<1>19. ASSUME NEW i \in 1 .. n + 1, i # 1
       PROVE  <<nodes'[nodes'[i].parent].kind, nodes'[i].kind>> \in Grammar[lang]
  <2>1. CASE i \in Old
    <3>1. nodes[i].parent \in Old
      BY <1>1, <1>19, <2>1, TreeShape
    <3> QED
      BY <1>6, <1>19, <2>1, <3>1 DEF TreeInv
  <2>2. CASE i = n + 1
    <3>1. <<nodes[p].kind, k>> \in Grammar[lang]
      BY DEF AddNode
    <3> QED
      BY <1>1, <1>6, <1>7, <2>2, <3>1
  <2> QED
    BY <1>1, <2>1, <2>2
<1> QED
  BY <1>4, <1>5, <1>15, <1>18, <1>19 DEF TreeInv

----------------------------------------------------------------------------

LEMMA AppendOccurrenceType ==
    ASSUME ScipTypeOK, AppendOccurrence
    PROVE  ScipTypeOK'
<1>1. PICK occ \in Occurrence : occurrences' = Append(occurrences, occ)
  BY DEF AppendOccurrence, Occurrence
<1>2. /\ occurrences \in Seq(Occurrence) /\ Len(occurrences) \in Nat
      /\ Len(occurrences) < MaxOccurrences /\ shown' = shown /\ MaxOccurrences \in Nat
  BY ScipAssumption DEF ScipTypeOK, AppendOccurrence
<1>3. occurrences' \in Seq(Occurrence) /\ Len(occurrences') = Len(occurrences) + 1
  BY <1>1, <1>2
<1> QED
  BY <1>2, <1>3 DEF ScipTypeOK

ParserInv == TreeInv /\ ScipTypeOK /\ hasScip \in BOOLEAN

LEMMA ParserInit ==
    ASSUME Init
    PROVE  ParserInv
<1>1. lang \in Lang /\ nodes = <<RootNode(lang)>> /\ RootNode(lang) \in Node
  BY TreeAssumption DEF Init, InitTree, RootNode, Node, Kinds
<1>2. /\ nodes \in Seq(Node) /\ Len(nodes) = 1 /\ DOMAIN nodes = {1}
      /\ nodes[1] = RootNode(lang)
  BY <1>1
<1>3. /\ nodes[1].parent = 0 /\ nodes[1].first = 0 /\ nodes[1].last = 0
      /\ nodes[1].readable = TRUE
  BY <1>2 DEF RootNode
<1>4. IsTree(nodes)
  BY <1>2, <1>3 DEF IsTree
<1>5. TreeTypeOK
  BY <1>1, <1>2, <1>3, TreeAssumption DEF TreeTypeOK
<1>6. ScipTypeOK /\ hasScip \in BOOLEAN
  BY ScipAssumption DEF Init, InitScip, ScipTypeOK
<1> QED
  BY <1>2, <1>3, <1>5, <1>6 DEF ParserInv, TreeInv

LEMMA ParserNext ==
    ASSUME ParserInv, [Next]_vars
    PROVE  ParserInv'
<1>1. CASE AppendOccurrence /\ UNCHANGED <<treeVars, hasScip>>
  BY <1>1, AppendOccurrenceType
     DEF ParserInv, TreeInv, TreeTypeOK, treeVars
<1>2. CASE GrowTree /\ UNCHANGED <<scipVars, hasScip>>
  <2>1. {e[2] : e \in Grammar[lang]} \subseteq Kinds
    BY DEF ParserInv, TreeInv, TreeTypeOK, Kinds
  <2>2. TreeInv'
    BY <1>2, <2>1, AddNodeInv DEF ParserInv, GrowTree
  <2> QED
    BY <1>2, <2>2 DEF ParserInv, ScipTypeOK, scipVars
<1>3. CASE UNCHANGED vars
  BY <1>3 DEF vars, ParserInv, TreeInv, TreeTypeOK, ScipTypeOK, treeVars, scipVars
<1> QED
  BY <1>1, <1>2, <1>3 DEF Next

\* Every tree that is handed to the parsers is well formed: rows nest, a node's row
\* is at or after its parent's, and only what may be nameless has no name.
THEOREM ParserInvariant == Spec => []ParserInv
BY ParserInit, ParserNext, PTL DEF Spec

\* What is read of a repository is well typed: in particular the rows of a node are
\* among those of all that are above it, which the searches for lines rely on.
THEOREM TypeCorrect == Spec => []TypeOK
<1>1. ParserInv => TypeOK
  BY DEF ParserInv, TreeInv, TypeOK
<1> QED
  BY <1>1, ParserInvariant, PTL

----------------------------------------------------------------------------
(* The caller of a call.                                                   *)

Own(i) == IF nodes[i].kind \in Callers /\ nodes[i].readable THEN i ELSE NoCaller

\* The equation of CallerWalk.
LEMMA CallerStep ==
    ASSUME IsTree(nodes)
    PROVE  /\ CallerWalk[1] = CallerOf(Own(1), NoCaller)
           /\ \A i \in DOMAIN nodes : i # 1 =>
                 CallerWalk[i] = CallerOf(Own(i), CallerWalk[nodes[i].parent])
<1> DEFINE D == DOMAIN nodes
           V == Nat
           at(g) == [i \in D |-> CallerOf(Own(i), IF i = 1 THEN NoCaller
                                                  ELSE g[nodes[i].parent])]
           step == [x \in D \X [D -> V] |-> at(x[2])[x[1]]]
           rank == [i \in D |-> i]
<1>1. /\ D = 1 .. Len(nodes) /\ Len(nodes) \in Nat /\ 1 \in D
      /\ \A i \in D : i \in Nat /\ (i # 1 => nodes[i].parent \in D /\ nodes[i].parent < i)
  BY TreeShape
<1>2. rank \in [D -> 0 .. Len(nodes)]
  BY <1>1
<1>3. \A i \in D, g \in [D -> V] : at(g)[i] \in V
  BY <1>1 DEF CallerOf, Own, NoCaller
<1>4. step \in [D \X [D -> V] -> V]
  BY <1>3
<1>5. \A i \in D, g \in [D -> V], h \in [D -> V] :
         (\A j \in D : rank[j] < rank[i] => g[j] = h[j]) => step[<<i, g>>] = step[<<i, h>>]
  BY <1>1
<1>6. PICK f \in [D -> V] : \A i \in D : f[i] = step[<<i, f>>]
  <2>1. IsRecursion(D, V, Len(nodes), rank, step)
    <3> HIDE DEF step, rank, D
    <3> QED
      BY <1>1, <1>2, <1>4, <1>5 DEF IsRecursion
  <2> HIDE DEF step, rank, D, V
  <2> QED
    BY <2>1, RecursionExists
<1>7. f = at(f)
  <2>1. \A i \in D : f[i] = CallerOf(Own(i), IF i = 1 THEN NoCaller ELSE f[nodes[i].parent])
    BY <1>6
  <2> QED
    BY <2>1
<1> DEFINE u == CHOOSE g : g = at(g)
<1>8. CallerWalk = u
  BY DEF CallerWalk, Own
<1>9. u = at(u)
  BY <1>7
<1> HIDE DEF u
<1>10. \A i \in D : u[i] = CallerOf(Own(i), IF i = 1 THEN NoCaller ELSE u[nodes[i].parent])
  BY <1>9
<1> HIDE DEF D
<1> QED
  BY <1>1, <1>8, <1>10 DEF D

\* The functions around a node, itself included.
CallersAround(i) == {k \in Lineage(nodes, i) : nodes[k].kind \in Callers}

\* The last of some numbers, or zero.
IsLast(x, S) == x \in S /\ \A k \in S : k <= x

\* What the walk for calls brings to a node is the innermost function around it.
LEMMA InnermostCaller ==
    ASSUME TreeInv
    PROVE  \A i \in DOMAIN nodes :
              IF CallersAround(i) = {} THEN CallerWalk[i] = NoCaller
              ELSE IsLast(CallerWalk[i], CallersAround(i))
<1> DEFINE Good(i) == IF CallersAround(i) = {} THEN CallerWalk[i] = NoCaller
                      ELSE IsLast(CallerWalk[i], CallersAround(i))
           S == {i \in DOMAIN nodes : Good(i)}
<1>0. /\ IsTree(nodes) /\ 1 \in DOMAIN nodes
      /\ \A i \in DOMAIN nodes : i \in Nat /\ i # 0
  BY NodesAreTree, TreeShape DEF TreeInv
<1>1. \A i \in DOMAIN nodes : nodes[i].kind \in Callers => nodes[i].readable
  <2>1. Callers \cap Nameless = {}
    BY NamelessAssumption, TreeAssumption DEF TreeInv, TreeTypeOK, Callers
  <2> QED
    BY <2>1 DEF TreeInv
<1>2. \A i \in DOMAIN nodes :
         Own(i) = IF nodes[i].kind \in Callers THEN i ELSE NoCaller
  BY <1>1 DEF Own
<1>3. 1 \in S
  <2>1. Lineage(nodes, 1) = {1} /\ CallerWalk[1] = CallerOf(Own(1), NoCaller)
    BY <1>0, LineageStep, CallerStep
  <2> QED
    BY <1>0, <1>2, <2>1 DEF CallersAround, CallerOf, NoCaller, IsLast
<1>4. ASSUME NEW i \in DOMAIN nodes, i # 1, nodes[i].parent \in S PROVE i \in S
  <2>1. PICK p \in DOMAIN nodes : p = nodes[i].parent /\ p < i
    BY <1>0, <1>4, TreeShape
  <2>2. Lineage(nodes, i) = {i} \cup Lineage(nodes, p)
    BY <1>0, <1>4, <2>1, LineageStep
  <2>3. CallerWalk[i] = CallerOf(Own(i), CallerWalk[p])
    BY <1>0, <1>4, <2>1, CallerStep
  <2>4. \A k \in Lineage(nodes, p) : k \in Nat /\ k < i
    BY <1>0, <2>1, LineageShape
  <2>5. Good(p)
    BY <1>4, <2>1
  <2>6. CASE nodes[i].kind \in Callers
    BY <1>0, <1>2, <2>2, <2>3, <2>4, <2>6 DEF CallersAround, CallerOf, NoCaller, IsLast
  <2>7. CASE nodes[i].kind \notin Callers
    <3>1. CallersAround(i) = CallersAround(p)
      BY <2>2, <2>7 DEF CallersAround
    <3>2. CallerWalk[i] = CallerWalk[p]
      BY <1>2, <2>3, <2>7 DEF CallerOf, NoCaller
    <3> QED
      BY <2>5, <3>1, <3>2
  <2> QED
    BY <2>6, <2>7
<1>5. DOMAIN nodes \subseteq S
  <2> HIDE DEF S
  <2> QED
    BY <1>0, <1>3, <1>4, DownTheTree
<1> QED
  BY <1>5

LEMMA MaxIsLast ==
    ASSUME NEW S \in SUBSET Nat, NEW x, IsLast(x, S)
    PROVE  Max(S) = x
<1>1. x \in S /\ \A k \in S : x >= k
  BY DEF IsLast
<1>2. \A y \in S : (\A k \in S : y >= k) => y = x
  BY <1>1
<1>3. Max(S) = CHOOSE y \in S : \A k \in S : y >= k
  BY DEF Max
<1> QED
  BY <1>1, <1>2, <1>3

\* A call has one edge or none.
LEMMA EdgesOfCall ==
    ASSUME NEW i \in DOMAIN nodes
    PROVE  {e.caller : e \in {e \in CallEdges : e.call = i}} =
              IF nodes[i].kind \in Calls /\ nodes[i].readable /\ CallerWalk[i] # NoCaller
              THEN {CallerWalk[i]} ELSE {}
<1> DEFINE Is(k) == nodes[k].kind \in Calls /\ nodes[k].readable /\ CallerWalk[k] # NoCaller
           edge(k) == [call |-> k, caller |-> CallerWalk[k], line |-> nodes[k].first + 1]
<1>1. CallEdges = {edge(k) : k \in {k \in DOMAIN nodes : Is(k)}}
  BY Zenon DEF CallEdges
<1>2. \A k : edge(k).call = k /\ edge(k).caller = CallerWalk[k]
  OBVIOUS
<1> HIDE DEF edge, Is
<1>3. {e \in CallEdges : e.call = i} = IF Is(i) THEN {edge(i)} ELSE {}
  BY <1>1, <1>2
<1>4. {e.caller : e \in {e \in CallEdges : e.call = i}} = IF Is(i) THEN {CallerWalk[i]} ELSE {}
  BY <1>2, <1>3
<1> QED
  BY <1>4, Zenon DEF Is

LEMMA CallersInnermost ==
    ASSUME TreeInv
    PROVE  CallerIsInnermost
<1> SUFFICES ASSUME NEW i \in DOMAIN nodes
             PROVE  {e.caller : e \in {e \in CallEdges : e.call = i}} =
                       IF nodes[i].kind \in Calls /\ nodes[i].readable /\ CallersAround(i) # {}
                       THEN {Max(CallersAround(i))} ELSE {}
  BY DEF CallerIsInnermost, CallersAround
<1>1. IF CallersAround(i) = {} THEN CallerWalk[i] = NoCaller
      ELSE IsLast(CallerWalk[i], CallersAround(i))
  BY InnermostCaller
<1>2. CallersAround(i) \in SUBSET Nat /\ 0 \notin CallersAround(i)
  <2>1. IsTree(nodes)
    BY NodesAreTree DEF TreeInv
  <2>2. Lineage(nodes, i) \subseteq 1 .. Len(nodes)
    BY <2>1, TreeShape, LineageShape
  <2> QED
    BY <2>1, <2>2, TreeShape DEF CallersAround
<1>3. CASE CallersAround(i) = {}
  BY <1>1, <1>3, EdgesOfCall
<1>4. CASE CallersAround(i) # {}
  <2>1. CallerWalk[i] # NoCaller
    BY <1>1, <1>2, <1>4 DEF IsLast, NoCaller
  <2>2. Max(CallersAround(i)) = CallerWalk[i]
    BY <1>1, <1>2, <1>4, MaxIsLast
  <2> QED
    BY <1>4, <2>1, <2>2, EdgesOfCall
<1> QED
  BY <1>3, <1>4

\* A call edge of collect_rust_calls, collect_python_calls and collect_ts_calls runs
\* from the innermost function around its call, and no call in a function is without.
THEOREM CallsHaveInnermostCaller == Spec => []CallerIsInnermost
<1>1. ParserInv => CallerIsInnermost
  BY CallersInnermost DEF ParserInv
<1> QED
  BY <1>1, ParserInvariant, PTL

----------------------------------------------------------------------------
(* The definition around a line.                                           *)

LEMMA MinIsFirst ==
    ASSUME NEW S \in SUBSET Nat, S # {}
    PROVE  Min(S) \in S /\ \A k \in S : Min(S) <= k
<1>1. PICK x \in S : \A k \in S : x <= k
  BY LeastElement
<1>2. Min(S) = CHOOSE y \in S : \A k \in S : y <= k
  BY DEF Min
<1> QED
  BY <1>1, <1>2

\* What a node has found, given what its children have.
FindsAt(t, row, f, i) ==
    f[i] = IF row \notin Rows(t, i) THEN NoNode
           ELSE FoundAt(t, i, {f[k] : k \in Children(t, i)} \ {NoNode})

\* The equation of FindEncompassingNode: it looks from the leaves up.
LEMMA FindStep ==
    ASSUME NEW t, IsTree(t), NEW line
    PROVE  \E f : /\ FindEncompassingNode(t, line) = f[1]
                  /\ \A i \in DOMAIN t : FindsAt(t, Minus(line, 1), f, i)
<1> DEFINE row == Minus(line, 1)
           D == DOMAIN t
           V == Nat
           at(g) == [i \in D |-> IF row \notin Rows(t, i) THEN NoNode
                                 ELSE FoundAt(t, i, {g[k] : k \in Children(t, i)} \ {NoNode})]
           step == [x \in D \X [D -> V] |-> at(x[2])[x[1]]]
           rank == [i \in D |-> Len(t) - i]
<1>1. /\ D = 1 .. Len(t) /\ Len(t) \in Nat /\ 1 \in D
      /\ \A i \in D : i \in Nat
      /\ \A i \in D : \A k \in Children(t, i) : k \in D /\ i < k
  BY TreeShape DEF Children, IsTree
<1>2. rank \in [D -> 0 .. Len(t)]
  BY <1>1
<1>3. ASSUME NEW i \in D, NEW g \in [D -> V] PROVE at(g)[i] \in V
  <2>1. {g[k] : k \in Children(t, i)} \ {NoNode} \in SUBSET Nat
    BY <1>1
  <2> DEFINE below == {g[k] : k \in Children(t, i)} \ {NoNode}
  <2>2. at(g)[i] = IF row \notin Rows(t, i) THEN NoNode ELSE FoundAt(t, i, below)
    OBVIOUS
  <2> HIDE DEF below, at
  <2>3. below # {} => Min(below) \in Nat
    BY <2>1, MinIsFirst DEF below
  <2> QED
    BY <1>1, <2>2, <2>3 DEF FoundAt, NoNode
<1>4. step \in [D \X [D -> V] -> V]
  <2> HIDE DEF at
  <2> QED
    BY <1>3
<1>5. ASSUME NEW i \in D, NEW g \in [D -> V], NEW h \in [D -> V],
             \A j \in D : rank[j] < rank[i] => g[j] = h[j]
      PROVE  step[<<i, g>>] = step[<<i, h>>]
  <2>1. \A k \in Children(t, i) : g[k] = h[k]
    BY <1>1, <1>5
  <2>2. {g[k] : k \in Children(t, i)} = {h[k] : k \in Children(t, i)}
    BY <2>1
  <2> QED
    BY <2>2
<1>6. PICK f \in [D -> V] : \A i \in D : f[i] = step[<<i, f>>]
  <2>1. IsRecursion(D, V, Len(t), rank, step)
    <3> HIDE DEF step, rank, D
    <3> QED
      BY <1>1, <1>2, <1>4, <1>5 DEF IsRecursion
  <2> HIDE DEF step, rank, D, V
  <2> QED
    BY <2>1, RecursionExists
<1>7. f = at(f)
  <2>1. \A i \in D : f[i] = at(f)[i]
    <3> HIDE DEF at
    <3> QED
      BY <1>6
  <2>2. f \in [D -> V] /\ at(f) = [i \in D |-> at(f)[i]]
    OBVIOUS
  <2> HIDE DEF at
  <2> QED
    BY <2>1, <2>2
<1> DEFINE u == CHOOSE g : g = at(g)
<1>8. FindEncompassingNode(t, line) = u[1]
  BY DEF FindEncompassingNode
<1>9. u = at(u)
  BY <1>7
<1> HIDE DEF u
<1>10. \A i \in D : FindsAt(t, row, u, i)
  BY <1>9 DEF FindsAt
<1> QED
  BY <1>8, <1>10

\* The definitions at or below a node that contain a row.
DefinitionsBelow(t, row, i) ==
    {k \in DOMAIN t : /\ t[k].kind \in StructuralKinds /\ row \in Rows(t, k)
                      /\ i \in Lineage(t, k)}

\* The innermost of them has been found, or there is none.
IsFound(t, row, f, i) ==
    IF DefinitionsBelow(t, row, i) = {} THEN f[i] = NoNode
    ELSE /\ f[i] \in DefinitionsBelow(t, row, i)
         /\ \A k \in DefinitionsBelow(t, row, i) : f[i] \in Lineage(t, k) => k = f[i]

RowsNest(t) ==
    \A i \in DOMAIN t, k \in DOMAIN t :
        i \in Lineage(t, k) => Rows(t, k) \subseteq Rows(t, i)

\* The induction: all below its first child with an answer is below the node.
LEMMA FoundAtNode ==
    ASSUME NEW t, IsTree(t), RowsNest(t), NEW row, NEW f, NEW i \in DOMAIN t,
           FindsAt(t, row, f, i),
           \A k \in Children(t, i) : IsFound(t, row, f, k)
    PROVE  IsFound(t, row, f, i)
<1> DEFINE Below(k) == DefinitionsBelow(t, row, k)
           below == {f[k] : k \in Children(t, i)} \ {NoNode}
<1>1. /\ DOMAIN t \in SUBSET Nat /\ NoNode \notin DOMAIN t
      /\ i \in Lineage(t, i)
      /\ \A k \in DOMAIN t : Lineage(t, k) \subseteq DOMAIN t
  BY TreeShape, LineageShape DEF NoNode
<1>2. ASSUME NEW k \in Children(t, i) PROVE Below(k) \subseteq Below(i)
  BY ChildLineage, LineageTransitive DEF DefinitionsBelow
<1>3. CASE row \notin Rows(t, i)
  <2>1. Below(i) = {}
    BY <1>1, <1>3 DEF DefinitionsBelow, RowsNest
  <2> QED
    BY <1>3, <2>1 DEF FindsAt, IsFound
<1>4. CASE row \in Rows(t, i) /\ below # {}
  <2>1. f[i] = Min(below)
    BY <1>4 DEF FindsAt, FoundAt
  <2>2. below \in SUBSET Nat
    BY <1>1 DEF IsFound, DefinitionsBelow
  <2>3. PICK k \in Children(t, i) : f[i] = f[k] /\ f[k] # NoNode
    <3>1. f[i] \in below
      <4> HIDE DEF below
      <4> QED
        BY <1>4, <2>1, <2>2, MinIsFirst
    <3> QED
      BY <3>1
  <2>4. f[k] \in Below(k) /\ \A m \in Below(k) : f[k] \in Lineage(t, m) => m = f[k]
    BY <2>3 DEF IsFound
  <2>5. ASSUME NEW m \in Below(i), f[k] \in Lineage(t, m) PROVE m = f[k]
    <3>1. m \in DOMAIN t /\ f[k] \in DOMAIN t /\ k \in Lineage(t, f[k])
      BY <2>4 DEF DefinitionsBelow
    <3>2. k \in Lineage(t, m)
      BY <2>5, <3>1, LineageTransitive
    <3> QED
      BY <2>4, <2>5, <3>2 DEF DefinitionsBelow
  <2> QED
    BY <1>2, <2>3, <2>4, <2>5 DEF IsFound
<1>5. CASE row \in Rows(t, i) /\ below = {}
  <2>1. ASSUME NEW k \in Children(t, i) PROVE Below(k) = {}
    <3>1. f[k] = NoNode
      BY <1>5
    <3> QED
      BY <1>1, <3>1 DEF IsFound, DefinitionsBelow
  <2>2. ASSUME NEW m \in Below(i), m # i PROVE FALSE
    <3>1. m \in DOMAIN t /\ i \in Lineage(t, m)
      BY DEF DefinitionsBelow
    <3>2. PICK k \in Children(t, i) : k \in Lineage(t, m)
      BY <2>2, <3>1, LineageThroughChild
    <3>3. m \in Below(k)
      BY <3>2 DEF DefinitionsBelow
    <3> QED
      BY <2>1, <3>3
  <2>3. f[i] = IF t[i].kind \in StructuralKinds THEN i ELSE NoNode
    BY <1>5 DEF FindsAt, FoundAt
  <2>4. Below(i) = IF t[i].kind \in StructuralKinds THEN {i} ELSE {}
    BY <1>1, <1>5, <2>2 DEF DefinitionsBelow
  <2> QED
    BY <2>3, <2>4 DEF IsFound
<1> QED
  BY <1>3, <1>4, <1>5

\* The definitions of the tree that contain a row.
DefinitionsAround(t, row) ==
    {i \in DOMAIN t : t[i].kind \in StructuralKinds /\ row \in Rows(t, i)}

LEMMA FindIsInnermost ==
    ASSUME NEW t, IsTree(t), RowsNest(t), NEW line
    PROVE  LET n == FindEncompassingNode(t, line)
               around == DefinitionsAround(t, Minus(line, 1))
           IN  IF around = {} THEN n = NoNode
               ELSE /\ n \in around
                    /\ \A i \in around : n \in Lineage(t, i) => i = n
<1> DEFINE row == Minus(line, 1)
<1>1. PICK f : /\ FindEncompassingNode(t, line) = f[1]
               /\ \A i \in DOMAIN t : FindsAt(t, row, f, i)
  BY FindStep
<1> HIDE DEF row
<1> DEFINE S == {i \in DOMAIN t : IsFound(t, row, f, i)}
<1>2. ASSUME NEW i \in DOMAIN t, \A k \in Children(t, i) : k \in S PROVE i \in S
  BY <1>1, <1>2, FoundAtNode
<1>3. DOMAIN t \subseteq S
  <2> HIDE DEF S
  <2> QED
    BY <1>2, UpTheTree
<1>4. IsFound(t, row, f, 1)
  BY <1>3, TreeShape
<1>5. DefinitionsBelow(t, row, 1) = DefinitionsAround(t, row)
  BY LineageShape DEF DefinitionsBelow, DefinitionsAround
<1> QED
  BY <1>1, <1>4, <1>5 DEF IsFound, row

LEMMA LinesHaveInnermost ==
    ASSUME TreeInv
    PROVE  FoundIsInnermost
<1>1. IsTree(nodes) /\ RowsNest(nodes)
  BY NodesAreTree DEF TreeInv, TreeTypeOK, RowsNest
<1>2. ASSUME NEW line \in 1 .. LineCount PROVE Minus(line, 1) = line - 1
  <2>1. line \in Nat /\ line >= 1
    BY <1>1, TreeShape, TreeAssumption DEF LineCount, Node
  <2> QED
    BY <2>1 DEF Minus
<1> QED
  BY <1>1, <1>2, FindIsInnermost DEF FoundIsInnermost, DefinitionsAround

\* find_encompassing_node returns the innermost definition around a line, and nothing
\* only when there is none.
THEOREM LinesFindInnermostDefinition == Spec => []FoundIsInnermost
<1>1. ParserInv => FoundIsInnermost
  BY LinesHaveInnermost DEF ParserInv
<1> QED
  BY <1>1, ParserInvariant, PTL

\* Where a line finds something there is a definition around it.
LEMMA SnippetIsFirst ==
    ASSUME TreeInv, NEW lines \in SUBSET (1 .. LineCount)
    PROVE  LET touched == {l \in lines : DefinitionsAround(nodes, l - 1) # {}}
               n == Snippet(nodes, lines)
           IN  IF touched = {} THEN n = NoNode
               ELSE n # NoNode /\ n \in DefinitionsAround(nodes, Min(touched) - 1)
<1> DEFINE touched == {l \in lines : DefinitionsAround(nodes, l - 1) # {}}
           hits == {l \in lines : FindEncompassingNode(nodes, l) # NoNode}
<1>1. /\ IsTree(nodes) /\ RowsNest(nodes) /\ LineCount \in Nat
      /\ \A row : NoNode \notin DefinitionsAround(nodes, row)
  <2>1. IsTree(nodes) /\ RowsNest(nodes)
    BY NodesAreTree DEF TreeInv, TreeTypeOK, RowsNest
  <2>2. LineCount \in Nat
    BY <2>1, TreeShape, TreeAssumption DEF LineCount, Node
  <2>3. 0 \notin DOMAIN nodes
    BY <2>1, TreeShape
  <2> QED
    BY <2>1, <2>2, <2>3 DEF DefinitionsAround, NoNode
<1>2. \A l \in lines : l \in Nat /\ Minus(l, 1) = l - 1
  BY <1>1 DEF Minus
<1>3. ASSUME NEW l \in lines
      PROVE  LET n == FindEncompassingNode(nodes, l)
             IN  IF DefinitionsAround(nodes, l - 1) = {} THEN n = NoNode
                 ELSE n \in DefinitionsAround(nodes, l - 1)
  BY <1>1, <1>2, FindIsInnermost
<1>4. hits = touched
  BY <1>1, <1>3
<1>5. Snippet(nodes, lines) =
         IF touched = {} THEN NoNode ELSE FindEncompassingNode(nodes, Min(touched))
  BY <1>4 DEF Snippet
<1>6. touched # {} => Min(touched) \in touched
  <2>1. touched \in SUBSET Nat
    BY <1>2
  <2> HIDE DEF touched
  <2> QED
    BY <2>1, MinIsFirst
<1> HIDE DEF hits
<1>7. CASE touched = {}
  BY <1>5, <1>7
<1>8. CASE touched # {}
  <2>1. /\ Min(touched) \in lines
        /\ DefinitionsAround(nodes, Min(touched) - 1) # {}
    <3>1. \A l \in touched : l \in lines /\ DefinitionsAround(nodes, l - 1) # {}
      OBVIOUS
    <3> HIDE DEF touched
    <3> QED
      BY <1>6, <1>8, <3>1
  <2> HIDE DEF touched
  <2> QED
    BY <1>1, <1>3, <1>5, <1>8, <2>1 DEF touched
<1> QED
  BY <1>7, <1>8

LEMMA DiffsShowFirst ==
    ASSUME TreeInv
    PROVE  DiffShowsFirstDefinition
<1> DEFINE lines == 1 .. LineCount
           touched == {l \in lines : DefinitionsAround(nodes, l - 1) # {}}
           shows(n, side) == IF touched \cap side = {} THEN n = NoNode
                             ELSE n \in DefinitionsAround(nodes, Min(touched \cap side) - 1)
<1> SUFFICES ASSUME NEW removed \in SUBSET lines
             PROVE  LET diff == StructuralDiff(nodes, nodes, removed, lines \ removed)
                    IN  /\ diff = {} <=> touched = {}
                        /\ \A p \in diff : shows(p[1], removed) /\ shows(p[2], lines \ removed)
  BY Zenon DEF DiffShowsFirstDefinition, DefinitionsAround
<1> DEFINE added == lines \ removed
           x == Snippet(nodes, removed)
           y == Snippet(nodes, added)
<1>1. ASSUME NEW side \in SUBSET lines
      PROVE  /\ shows(Snippet(nodes, side), side)
             /\ Snippet(nodes, side) = NoNode <=> touched \cap side = {}
  <2>1. touched \cap side = {l \in side : DefinitionsAround(nodes, l - 1) # {}}
    OBVIOUS
  <2> HIDE DEF touched
  <2> QED
    BY <2>1, SnippetIsFirst
<1>2. StructuralDiff(nodes, nodes, removed, added) =
         IF x = NoNode /\ y = NoNode THEN {} ELSE {<<x, y>>}
  <2> HIDE DEF x, y
  <2>1. {p \in {<<x, y>>} : p # <<NoNode, NoNode>>} =
           IF x = NoNode /\ y = NoNode THEN {} ELSE {<<x, y>>}
    OBVIOUS
  <2> QED
    BY <2>1 DEF StructuralDiff, x, y
<1>3. touched = {} <=> touched \cap removed = {} /\ touched \cap added = {}
  <2>1. touched \subseteq removed \cup added
    OBVIOUS
  <2> HIDE DEF touched, added
  <2> QED
    BY <2>1
<1>4. /\ shows(x, removed) /\ (x = NoNode <=> touched \cap removed = {})
      /\ shows(y, added) /\ (y = NoNode <=> touched \cap added = {})
  <2> HIDE DEF shows, touched
  <2> QED
    BY <1>1
<1> HIDE DEF shows, touched, x, y
<1>5. \A p \in {<<x, y>>} : p[1] = x /\ p[2] = y
  OBVIOUS
<1> QED
  BY <1>2, <1>3, <1>4, <1>5

\* extract_structural_diff yields a pattern exactly when the change touches a
\* definition, and shows what stands around the first line that does.
THEOREM DiffsShowFirstDefinition == Spec => []DiffShowsFirstDefinition
<1>1. ParserInv => DiffShowsFirstDefinition
  BY DiffsShowFirst DEF ParserInv
<1> QED
  BY <1>1, ParserInvariant, PTL

----------------------------------------------------------------------------
(* The source of a symbol.                                                 *)

LEMMA SourcesAreRows ==
    ASSUME TreeInv
    PROVE  SymbolSourceIsItsRows
<1>1. IsTree(nodes) /\ 1 \in DOMAIN nodes
  BY NodesAreTree, TreeShape DEF TreeInv
<1>2. ASSUME NEW s \in Symbols
      PROVE  /\ s.node \in DOMAIN nodes
             /\ s.line_start = nodes[s.node].first + 1
             /\ s.line_end = nodes[s.node].last + 1
  BY DEF Symbols
<1>3. ASSUME NEW i \in DOMAIN nodes
      PROVE  /\ nodes[i].first \in Nat /\ nodes[i].last \in Nat
             /\ nodes[i].first <= nodes[i].last
             /\ nodes[i].last <= nodes[1].last /\ nodes[1].last \in Nat
  <2>1. \A k \in DOMAIN nodes : nodes[k].first \in Nat /\ nodes[k].last \in Nat
    BY <1>1, TreeShape, TreeAssumption DEF Node
  <2>2. nodes[i].first <= nodes[i].last
    BY DEF TreeInv
  <2>3. Rows(nodes, i) \subseteq Rows(nodes, 1)
    BY <1>1, LineageShape DEF TreeInv, TreeTypeOK
  <2>4. nodes[i].last <= nodes[1].last
    BY <1>1, <2>1, <2>2, <2>3, RowsWithin
  <2> QED
    BY <1>1, <2>1, <2>2, <2>4
<1>4. ASSUME NEW first \in Nat, NEW last \in Nat, NEW end \in Nat,
             first <= last, last <= end
      PROVE  Slice(end + 1, first + 1, last + 1) = first .. last
  BY <1>4 DEF Slice, Minus
<1> QED
  BY <1>2, <1>3, <1>4 DEF SymbolSourceIsItsRows, LineCount, Rows

\* get_symbol_source, asked for the stored lines of a symbol, returns its rows.
THEOREM SymbolSourcesAreTheirRows == Spec => []SymbolSourceIsItsRows
<1>1. ParserInv => SymbolSourceIsItsRows
  BY SourcesAreRows DEF ParserInv
<1> QED
  BY <1>1, ParserInvariant, PTL

----------------------------------------------------------------------------
(* The symbol of a caller.                                                 *)

\* The equation of SymbolWalk, as far as it says what is reached.
LEMMA SymbolStep ==
    ASSUME IsTree(nodes)
    PROVE  /\ SymbolWalk[1].reached
           /\ \A i \in DOMAIN nodes : i # 1 =>
                 (SymbolWalk[i].reached <=>
                     /\ SymbolWalk[nodes[i].parent].reached
                     /\ Enters(nodes[nodes[i].parent].kind, nodes[i].kind))
<1> DEFINE D == DOMAIN nodes
           V == [reached : BOOLEAN, inside : BOOLEAN]
           enters(i) == Enters(nodes[nodes[i].parent].kind, nodes[i].kind)
           class(i) == nodes[nodes[i].parent].kind \in Classes
           from(v, i) == [reached |-> v.reached /\ enters(i), inside |-> v.inside \/ class(i)]
           first == [reached |-> TRUE, inside |-> FALSE]
           at(g) == [i \in D |-> IF i = 1 THEN first ELSE from(g[nodes[i].parent], i)]
           step == [x \in D \X [D -> V] |-> at(x[2])[x[1]]]
           rank == [i \in D |-> i]
<1>1. /\ D = 1 .. Len(nodes) /\ Len(nodes) \in Nat /\ 1 \in D
      /\ \A i \in D : i \in Nat /\ (i # 1 => nodes[i].parent \in D /\ nodes[i].parent < i)
  BY TreeShape
<1>2. rank \in [D -> 0 .. Len(nodes)]
  BY <1>1
<1>3. first \in V /\ \A v, i : from(v, i) \in V
  <2> HIDE DEF enters, class
  <2> QED
    OBVIOUS
<1>4. first.reached /\ \A v, i : from(v, i).reached <=> v.reached /\ enters(i)
  <2> HIDE DEF enters, class
  <2> QED
    OBVIOUS
<1>5. SymbolWalk = CHOOSE g : g = at(g)
  BY DEF SymbolWalk
<1> HIDE DEF first, from
<1>6. step \in [D \X [D -> V] -> V]
  BY <1>3
<1>7. \A i \in D, g \in [D -> V], h \in [D -> V] :
         (\A j \in D : rank[j] < rank[i] => g[j] = h[j]) => step[<<i, g>>] = step[<<i, h>>]
  BY <1>1
<1>8. PICK f \in [D -> V] : \A i \in D : f[i] = step[<<i, f>>]
  <2>1. IsRecursion(D, V, Len(nodes), rank, step)
    <3>1. V # {}
      BY <1>3
    <3> HIDE DEF step, rank, D, V
    <3> QED
      BY <1>1, <1>2, <1>6, <1>7, <3>1 DEF IsRecursion
  <2> HIDE DEF step, rank, D, V
  <2> QED
    BY <2>1, RecursionExists
<1>9. f = at(f)
  <2>1. \A i \in D : f[i] = at(f)[i]
    <3> HIDE DEF at
    <3> QED
      BY <1>8
  <2>2. f \in [D -> V] /\ at(f) = [i \in D |-> at(f)[i]]
    OBVIOUS
  <2> HIDE DEF at
  <2> QED
    BY <2>1, <2>2
<1> DEFINE u == CHOOSE g : g = at(g)
<1>10. u = at(u)
  BY <1>9
<1> HIDE DEF u
<1>11. u[1] = first /\ \A i \in D : i # 1 => u[i] = from(u[nodes[i].parent], i)
  BY <1>1, <1>10
<1>12. SymbolWalk = u
  BY <1>5 DEF u
<1> HIDE DEF D, enters
<1> QED
  BY <1>4, <1>11, <1>12 DEF D, enters

\* The parts that the walk for symbols does not enter are those where no symbol is
\* looked for.
LEMMA EntersSearched ==
    ASSUME lang \in {"rust", "python", "typescript"}, NEW i \in DOMAIN nodes, i # 1
    PROVE  Enters(nodes[nodes[i].parent].kind, nodes[i].kind) <=> ~IsUnsearched(i)
<1> DEFINE parent == nodes[nodes[i].parent].kind
           kind == nodes[i].kind
           parts == SearchedParts[lang]
<1>1. IsUnsearched(i) <=> parent \in DOMAIN parts /\ kind \notin parts[parent]
  BY DEF IsUnsearched
<1> HIDE DEF parent, kind
<1>2. CASE lang = "rust"
  <2>1. parts = [function_item |-> {"block"}]
    BY <1>2 DEF SearchedParts
  <2>2. Enters(parent, kind) <=> (parent = "function_item" => kind = "block")
    BY <1>2 DEF Enters, RustEnters
  <2> QED
    BY <1>1, <2>1, <2>2 DEF parent, kind
<1>3. CASE lang = "python"
  <2>1. parts = [function_definition |-> {"block"}, class_definition |-> {"block"},
                 decorated_definition |-> {"function_definition", "class_definition"}]
    BY <1>3 DEF SearchedParts
  <2>2. Enters(parent, kind) <=> PythonEnters(parent, kind)
    BY <1>3 DEF Enters
  <2> HIDE DEF parts
  <2>3. DOMAIN parts = {"function_definition", "class_definition", "decorated_definition"}
    BY <2>1
  <2>4. PythonEnters(parent, kind) <=> ~(parent \in DOMAIN parts /\ kind \notin parts[parent])
    BY <2>1, <2>3 DEF PythonEnters
  <2> QED
    BY <1>1, <2>2, <2>4 DEF parent, kind
<1>4. CASE lang = "typescript"
  <2>1. parts = [function_declaration |-> {"statement_block"},
                 class_declaration |-> {"class_body"}, class |-> {"class_body"},
                 method_definition |-> {}, interface_declaration |-> {}]
    BY <1>4 DEF SearchedParts
  <2>2. Enters(parent, kind) <=> TypeScriptEnters(parent, kind)
    BY <1>4 DEF Enters
  <2> HIDE DEF parts
  <2>3. DOMAIN parts = {"function_declaration", "class_declaration", "class",
                        "method_definition", "interface_declaration"}
    BY <2>1
  <2>4. TypeScriptEnters(parent, kind)
           <=> ~(parent \in DOMAIN parts /\ kind \notin parts[parent])
    BY <2>1, <2>3 DEF TypeScriptEnters
  <2> QED
    BY <1>1, <2>2, <2>4 DEF parent, kind
<1> QED
  BY <1>2, <1>3, <1>4

Unsearched(i) == {k \in Lineage(nodes, i) : IsUnsearched(k)}

\* The walk for symbols reaches a node unless it, or what it stands in, is where no
\* symbol is looked for.
LEMMA ReachedIsSearched ==
    ASSUME TreeInv
    PROVE  \A i \in DOMAIN nodes : SymbolWalk[i].reached <=> Unsearched(i) = {}
<1> DEFINE S == {i \in DOMAIN nodes : SymbolWalk[i].reached <=> Unsearched(i) = {}}
<1>0. IsTree(nodes) /\ 1 \in DOMAIN nodes /\ lang \in {"rust", "python", "typescript"}
  BY NodesAreTree, TreeShape, TreeAssumption DEF TreeInv, TreeTypeOK
<1>1. 1 \in S
  BY <1>0, LineageStep, SymbolStep DEF Unsearched, IsUnsearched
<1>2. ASSUME NEW i \in DOMAIN nodes, i # 1, nodes[i].parent \in S PROVE i \in S
  <2>1. PICK p \in DOMAIN nodes : p = nodes[i].parent
    BY <1>0, <1>2, TreeShape
  <2>2. Lineage(nodes, i) = {i} \cup Lineage(nodes, p)
    BY <1>0, <1>2, <2>1, LineageStep
  <2>3. Unsearched(i) = {} <=> ~IsUnsearched(i) /\ Unsearched(p) = {}
    BY <2>2 DEF Unsearched
  <2>4. SymbolWalk[p].reached <=> Unsearched(p) = {}
    BY <1>2, <2>1
  <2>5. SymbolWalk[i].reached <=>
           SymbolWalk[p].reached /\ Enters(nodes[p].kind, nodes[i].kind)
    BY <1>0, <1>2, <2>1, SymbolStep
  <2>6. Enters(nodes[p].kind, nodes[i].kind) <=> ~IsUnsearched(i)
    BY <1>0, <1>2, <2>1, EntersSearched
  <2> QED
    BY <2>3, <2>4, <2>5, <2>6
<1>3. DOMAIN nodes \subseteq S
  <2> HIDE DEF S
  <2> QED
    BY <1>0, <1>1, <1>2, DownTheTree
<1> QED
  BY <1>3

\* Every function that is reached has a symbol, with its rows for lines.
LEMMA CallerSymbols ==
    ASSUME TreeInv, NEW c \in DOMAIN nodes, nodes[c].kind \in Callers
    PROVE  /\ (\E s \in Symbols : s.node = c) <=> SymbolWalk[c].reached
           /\ \A s \in Symbols : s.node = c => /\ s.line_start = nodes[c].first + 1
                                             /\ s.line_end = nodes[c].last + 1
<1> DEFINE walk == SymbolWalk
           Is(i) == /\ walk[i].reached /\ nodes[i].readable
                    /\ SymbolKind(i, walk[i].inside) # NoSymbol
           row(i) == [node |-> i, kind |-> SymbolKind(i, walk[i].inside),
                      line_start |-> nodes[i].first + 1, line_end |-> nodes[i].last + 1]
<1>1. lang \in {"rust", "python", "typescript"}
  BY TreeAssumption DEF TreeInv, TreeTypeOK
<1>2. nodes[c].readable
  <2>1. Callers \cap Nameless = {}
    BY <1>1, NamelessAssumption DEF Callers
  <2> QED
    BY <2>1 DEF TreeInv
<1>3. SymbolKind(c, walk[c].inside) # NoSymbol
  <2> HIDE DEF walk
  <2> QED
    BY <1>1 DEF SymbolKind, Callers, NoSymbol, RustCallers, PythonCallers,
        TypeScriptCallers, RustSymbolKind, PythonSymbolKind, TypeScriptSymbolKind,
        IsArrowFunction
<1>4. Symbols = {row(i) : i \in {k \in DOMAIN nodes : Is(k)}}
  BY Zenon DEF Symbols
<1>5. \A i : /\ row(i).node = i /\ row(i).line_start = nodes[i].first + 1
             /\ row(i).line_end = nodes[i].last + 1
  OBVIOUS
<1>6. Is(c) <=> walk[c].reached
  BY <1>2, <1>3
<1> HIDE DEF row, Is
<1> QED
  BY <1>4, <1>5, <1>6

LEMMA CallersHaveSymbols ==
    ASSUME TreeInv
    PROVE  CallersAreSymbols
<1> SUFFICES ASSUME NEW e \in CallEdges
             PROVE  LET found == {s \in Symbols : s.node = e.caller}
                    IN  /\ found = {} <=> Unsearched(e.caller) # {}
                        /\ \A s \in found : s.line_start <= e.line /\ e.line <= s.line_end
  BY Zenon DEF CallersAreSymbols, Unsearched
<1>0. /\ IsTree(nodes)
      /\ \A i \in DOMAIN nodes : nodes[i].first \in Nat /\ nodes[i].last \in Nat
  BY NodesAreTree, TreeShape, TreeAssumption DEF TreeInv, Node
<1>1. PICK i \in DOMAIN nodes : /\ e.caller = CallerWalk[i] /\ CallerWalk[i] # NoCaller
                                /\ e.line = nodes[i].first + 1
  BY DEF CallEdges
<1>2. PICK c \in Lineage(nodes, i) : c = e.caller /\ nodes[c].kind \in Callers
  BY <1>1, InnermostCaller DEF IsLast, CallersAround
<1>3. c \in DOMAIN nodes
  BY <1>0, LineageShape
<1>4. (\E s \in Symbols : s.node = c) <=> Unsearched(c) = {}
  BY <1>2, <1>3, CallerSymbols, ReachedIsSearched
<1>5. nodes[c].first <= nodes[i].first /\ nodes[i].first <= nodes[c].last
  <2>1. Rows(nodes, i) \subseteq Rows(nodes, c) /\ nodes[i].first <= nodes[i].last
    BY <1>3 DEF TreeInv, TreeTypeOK
  <2>2. nodes[i].first \in Rows(nodes, i)
    BY <1>0, <2>1 DEF Rows
  <2> QED
    BY <2>1, <2>2 DEF Rows
<1>6. ASSUME NEW s \in Symbols, s.node = c
      PROVE  s.line_start <= e.line /\ e.line <= s.line_end
  <2>1. s.line_start = nodes[c].first + 1 /\ s.line_end = nodes[c].last + 1
    BY <1>2, <1>3, <1>6, CallerSymbols
  <2> QED
    BY <1>0, <1>1, <1>3, <1>5, <2>1
<1> QED
  BY <1>2, <1>4, <1>6

\* In every tree of every grammar: the caller of an edge has a symbol, whose lines hold
\* the call, unless it stands where the walk for symbols does not go.
THEOREM CallersHaveTheirSymbols == Spec => []CallersAreSymbols
<1>1. ParserInv => CallersAreSymbols
  BY CallersHaveSymbols DEF ParserInv
<1> QED
  BY <1>1, ParserInvariant, PTL

----------------------------------------------------------------------------
(* The callers of a SCIP document.  The two loops agree on the lines of a  *)
(* definition, and one around a reference is the last of those around it.  *)

\* The lines of a definition, as its row has them and as the second loop has them.
LEMMA SameLines ==
    ASSUME ScipTypeOK, NEW i \in DOMAIN occurrences, NEW line \in Nat
    PROVE  /\ LineStart(occurrences[i]) \in Nat
           /\ Contains(occurrences[i], line) <=>
                 LineStart(occurrences[i]) <= line /\ line <= LineEnd(occurrences[i])
<1> DEFINE occ == occurrences[i]
<1>1. occ.range \in Ranges
  <2>1. occurrences \in Seq(Occurrence)
    BY DEF ScipTypeOK
  <2>2. occ \in Occurrence
    BY <2>1
  <2> QED
    BY <2>2 DEF Occurrence
<1>2. CASE occ.range = <<>>
  BY <1>2 DEF LineStart, LineEnd, Contains
<1>3. ASSUME NEW l \in 0 .. MaxLine, NEW m \in 0 .. MaxLine, occ.range = ScipRange(l, m)
      PROVE  /\ LineStart(occ) \in Nat
             /\ Contains(occ, line) <=> LineStart(occ) <= line /\ line <= LineEnd(occ)
  <2>1. l \in Nat /\ m \in Nat
    BY ScipAssumption
  <2>2. CASE l = m
    <3>1. occ.range = <<l, 0, 0>> /\ Len(occ.range) = 3 /\ occ.range # <<>> /\ occ.range[1] = l
      BY <1>3, <2>2 DEF ScipRange
    <3> QED
      BY <2>1, <3>1 DEF LineStart, LineEnd, Contains
  <2>3. CASE l # m
    <3>1. /\ Len(occ.range) = 4 /\ occ.range # <<>>
          /\ occ.range[1] = l /\ occ.range[3] = m
      BY <1>3, <2>3 DEF ScipRange
    <3> QED
      BY <2>1, <3>1 DEF LineStart, LineEnd, Contains
  <2> QED
    BY <2>2, <2>3
<1> QED
  BY <1>1, <1>2, <1>3 DEF Ranges

\* Where a definition contains a line, one of those that do is the last.
LEMMA SomeEnclosingDef ==
    ASSUME ScipTypeOK, NEW line \in Nat,
           NEW d \in Definitions, Contains(occurrences[d], line)
    PROVE  EnclosingDef(line) # {}
<1> DEFINE around == {i \in Definitions : Contains(occurrences[i], line)}
           n == Len(occurrences)
           after == {n - i : i \in around}
<1>1. n \in Nat /\ around \subseteq 1 .. n /\ d \in around
  BY DEF ScipTypeOK, Definitions
<1>2. after \in SUBSET Nat /\ after # {}
  BY <1>1
<1>3. PICK k \in after : \A m \in after : k <= m
  BY <1>2, LeastElement
<1>4. PICK i \in around : k = n - i
  OBVIOUS
<1>5. ASSUME NEW j \in around PROVE j <= i
  <2>1. n - j \in after
    OBVIOUS
  <2> HIDE DEF after, around, n
  <2>2. n - i <= n - j
    BY <1>3, <1>4, <2>1
  <2> QED
    BY <1>1, <2>2
<1> QED
  BY <1>4, <1>5 DEF EnclosingDef

LEMMA EdgesStandInSymbols ==
    ASSUME ScipTypeOK
    PROVE  ScipEdgesStandInSymbols
<1> DEFINE spans(s, line) == s.line_start <= line /\ line <= s.line_end
           row(d) == [name |-> ScipName(occurrences[d].symbol),
                      line_start |-> LineStart(occurrences[d]),
                      line_end |-> LineEnd(occurrences[d])]
           edge(d, i) == [caller |-> LastPart(occurrences[d].symbol),
                          callee |-> LastPart(occurrences[i].symbol),
                          line |-> LineStart(occurrences[i])]
<1>0. /\ \A i \in References : i \in DOMAIN occurrences /\ LineStart(occurrences[i]) \in Nat
      /\ \A d \in Definitions : d \in DOMAIN occurrences
  BY SameLines DEF References, Definitions
<1>1. ASSUME NEW e \in ScipEdges
      PROVE  \E s \in ScipSymbols :
                /\ spans(s, e.line)
                /\ s.name = e.caller \/ \E symbol \in shown : s.name = ScipName(symbol)
  <2>1. PICK i \in References : \E d \in EnclosingDef(LineStart(occurrences[i])) : e = edge(d, i)
    BY DEF ScipEdges
  <2>2. PICK d \in EnclosingDef(LineStart(occurrences[i])) : e = edge(d, i)
    BY <2>1
  <2>3. d \in Definitions /\ Contains(occurrences[d], LineStart(occurrences[i]))
    BY DEF EnclosingDef
  <2>4. row(d) \in ScipSymbols /\ spans(row(d), e.line)
    BY <1>0, <2>2, <2>3, SameLines DEF ScipSymbols
  <2>5. \/ row(d).name = e.caller
        \/ \E symbol \in shown : row(d).name = ScipName(symbol)
    BY <2>2 DEF ScipName
  <2> HIDE DEF row
  <2> QED
    BY <2>4, <2>5
<1>2. ASSUME NEW i \in References, NEW s \in ScipSymbols, spans(s, LineStart(occurrences[i]))
      PROVE  \E e \in ScipEdges : /\ e.line = LineStart(occurrences[i])
                                  /\ e.callee = LastPart(occurrences[i].symbol)
  <2>1. PICK d \in Definitions : s = row(d)
    BY DEF ScipSymbols
  <2>2. Contains(occurrences[d], LineStart(occurrences[i]))
    BY <1>0, <1>2, <2>1, SameLines
  <2>3. PICK k \in EnclosingDef(LineStart(occurrences[i])) : TRUE
    BY <1>0, <2>2, SomeEnclosingDef
  <2>4. edge(k, i) \in ScipEdges
    BY <2>3 DEF ScipEdges
  <2> QED
    BY <2>4
<1> HIDE DEF row, edge
<1> QED
  BY <1>1, <1>2 DEF ScipEdgesStandInSymbols

\* In a SCIP document of any length: each stored edge stands on a line of a stored
\* symbol with the name of its caller, or a display_name, and each reference on a line
\* of a stored symbol has an edge, although parse_scip_index computes the lines of the
\* definitions twice.
THEOREM ScipEdgesHaveSymbols == Spec => []ScipEdgesStandInSymbols
<1>1. ParserInv => ScipEdgesStandInSymbols
  BY EdgesStandInSymbols DEF ParserInv
<1> QED
  BY <1>1, ParserInvariant, PTL
=============================================================================
