--------------------------- MODULE RangeTree_proofs ---------------------------
(***************************************************************************)
(* The trees of the range index, for any keys and offsets.  The balanced   *)
(* one stays balanced and ordered, it is the set of pairs the calls say,   *)
(* and its pruned walk answers what is in range.  The plain one and its    *)
(* counter are the bag of those pairs, and what it answers is what the     *)
(* balanced one answers once it has been loaded with the same pairs.  Each *)
(* fact about a tree is first shown for the operators of AVLTree and BST,  *)
(* by induction over the tree.                                             *)
(***************************************************************************)
EXTENDS RangeTree, LoopLemmas, SequenceTheorems, FiniteSetTheorems

------------------------------------------------------------------------------
(* Trees *)

\* The recursion that defines TreesOf has a solution.
LEMMA TreesOfIs ==
  TreesOf = [depth \in Nat |-> {Nil} \cup IF depth = 0 THEN {} ELSE Nodes(TreesOf[depth - 1])]
<1> DEFINE Level(f, d) == {Nil} \cup IF d = 0 THEN {} ELSE Nodes(f[d - 1])
           Upto(f, n) == f = [d \in 0..n |-> Level(f, d)]
           D == {n \in Nat : \E f : Upto(f, n)}
<1>1. 0 \in D
  <2> DEFINE f == [d \in 0..0 |-> {Nil}]
  <2>1. f = [d \in 0..0 |-> Level(f, d)]
    OBVIOUS
  <2> QED
    BY <2>1
<1>2. ASSUME NEW n \in Nat, n \in D
      PROVE  n + 1 \in D
  <2>1. PICK f : Upto(f, n)
    BY <1>2
  <2> DEFINE g == [d \in 0..(n + 1) |-> IF d <= n THEN f[d] ELSE {Nil} \cup Nodes(f[n])]
  <2>2. ASSUME NEW d \in 0..(n + 1)
        PROVE  g[d] = Level(g, d)
    <3>1. CASE d <= n
      <4>1. d \in 0..n /\ (d # 0 => d - 1 \in 0..n /\ d - 1 \in 0..(n + 1))
        BY <3>1
      <4>2. g[d] = f[d] /\ (d # 0 => g[d - 1] = f[d - 1])
        BY <4>1
      <4>3. f[d] = Level(f, d)
        BY <2>1, <4>1
      <4> QED
        BY <4>2, <4>3
    <3>2. CASE d = n + 1
      BY <3>2
    <3> QED
      BY <3>1, <3>2
  <2>3. g = [d \in 0..(n + 1) |-> g[d]]
    OBVIOUS
  <2> HIDE DEF g, Level
  <2>4. g = [d \in 0..(n + 1) |-> Level(g, d)]
    BY <2>2, <2>3, Zenon
  <2> QED
    BY <2>4
<1>3. D = Nat
  <2> HIDE DEF D
  <2> QED
    BY <1>1, <1>2, AllNaturals DEF D
<1> DEFINE c(n) == CHOOSE f : Upto(f, n)
<1>4. ASSUME NEW n \in Nat
      PROVE  Upto(c(n), n)
  <2>1. \E f : Upto(f, n)
    BY <1>3
  <2> HIDE DEF Upto
  <2> QED
    BY <2>1
<1> HIDE DEF c
<1>5. ASSUME NEW m \in Nat
      PROVE  \A n \in Nat : m <= n => c(n)[m] = c(m)[m]
  <2> DEFINE S == {k \in Nat : \A n, o \in Nat : k <= n /\ k <= o => c(n)[k] = c(o)[k]}
  <2>1. \A n \in Nat, k \in Nat : k <= n => c(n)[k] = Level(c(n), k)
    BY <1>4
  <2>2. 0 \in S
    BY <2>1
  <2>3. ASSUME NEW k \in Nat, k \in S
        PROVE  k + 1 \in S
    <3> SUFFICES ASSUME NEW n \in Nat, NEW o \in Nat, k + 1 <= n, k + 1 <= o
                 PROVE  c(n)[k + 1] = c(o)[k + 1]
      OBVIOUS
    <3>1. c(n)[k] = c(o)[k]
      BY <2>3
    <3>2. c(n)[k + 1] = {Nil} \cup Nodes(c(n)[k]) /\ c(o)[k + 1] = {Nil} \cup Nodes(c(o)[k])
      BY <2>1
    <3> QED
      BY <3>1, <3>2
  <2>4. S = Nat
    <3> HIDE DEF S
    <3> QED
      BY <2>2, <2>3, AllNaturals DEF S
  <2> QED
    BY <2>4
<1> DEFINE F == [d \in Nat |-> c(d)[d]]
<1>6. ASSUME NEW d \in Nat
      PROVE  F[d] = Level(F, d)
  <2>1. c(d)[d] = Level(c(d), d)
    BY <1>4
  <2>2. d # 0 => d - 1 \in Nat /\ c(d)[d - 1] = F[d - 1]
    BY <1>5
  <2> QED
    BY <2>1, <2>2
<1>7. F = [d \in Nat |-> F[d]]
  OBVIOUS
<1> HIDE DEF F, Level
<1>8. F = [d \in Nat |-> Level(F, d)]
  BY <1>6, <1>7, Zenon
<1> QED
  BY <1>8 DEF Level, TreesOf

AllTrees == AllOf(TreesOf)

LEMMA Levels ==
  /\ TreesOf[0] = {Nil}
  /\ \A d \in Nat : TreesOf[d + 1] = {Nil} \cup Nodes(TreesOf[d])
<1>1. \A d \in Nat : TreesOf[d] = {Nil} \cup IF d = 0 THEN {} ELSE Nodes(TreesOf[d - 1])
  BY TreesOfIs
<1>2. ASSUME NEW d \in Nat
      PROVE  TreesOf[d + 1] = {Nil} \cup Nodes(TreesOf[d])
  <2>1. d + 1 \in Nat /\ d + 1 # 0 /\ (d + 1) - 1 = d
    OBVIOUS
  <2>2. TreesOf[d + 1] = {Nil} \cup Nodes(TreesOf[(d + 1) - 1])
    BY <1>1, <2>1
  <2> QED
    BY <2>1, <2>2
<1>3. TreesOf[0] = {Nil} \cup {}
  BY <1>1
<1> QED
  BY <1>2, <1>3

\* A node is not the empty tree, and has what a record of the code has.
LEMMA NodeIs ==
  ASSUME NEW S, NEW n \in Nodes(S)
  PROVE  /\ n # Nil
         /\ n.key \in Keys /\ n.offsets \in Seq(Offsets) /\ n.height \in Nat
         /\ n.left \in S /\ n.right \in S
         /\ n = [key |-> n.key, offsets |-> n.offsets, left |-> n.left, right |-> n.right,
                 height |-> n.height]
BY DEF Nodes, Nil

LEMMA TreesGrow ==
  ASSUME NEW d \in Nat
  PROVE  \A e \in Nat : d <= e => TreesOf[d] \subseteq TreesOf[e]
<1>1. ASSUME NEW k \in Nat
      PROVE  TreesOf[k] \subseteq TreesOf[k + 1]
  <2> DEFINE S == {j \in Nat : TreesOf[j] \subseteq TreesOf[j + 1]}
  <2>1. 0 \in S
    BY Levels
  <2>2. ASSUME NEW j \in Nat, j \in S
        PROVE  j + 1 \in S
    <3>1. Nodes(TreesOf[j]) \subseteq Nodes(TreesOf[j + 1])
      BY <2>2 DEF Nodes
    <3>2. /\ TreesOf[j + 1] = {Nil} \cup Nodes(TreesOf[j])
          /\ TreesOf[(j + 1) + 1] = {Nil} \cup Nodes(TreesOf[j + 1])
      BY Levels
    <3> QED
      BY <3>1, <3>2
  <2>3. S = Nat
    <3> HIDE DEF S
    <3> QED
      BY <2>1, <2>2, AllNaturals DEF S
  <2> QED
    BY <2>3
<1> DEFINE S == {j \in Nat : TreesOf[d] \subseteq TreesOf[d + j]}
<1>2. 0 \in S
  OBVIOUS
<1>3. ASSUME NEW j \in Nat, j \in S
      PROVE  j + 1 \in S
  <2>1. d + j \in Nat /\ d + (j + 1) = (d + j) + 1
    OBVIOUS
  <2>2. TreesOf[d + j] \subseteq TreesOf[(d + j) + 1]
    BY <1>1, <2>1
  <2> QED
    BY <1>3, <2>1, <2>2
<1>4. S = Nat
  <2> HIDE DEF S
  <2> QED
    BY <1>2, <1>3, AllNaturals DEF S
<1>5. ASSUME NEW e \in Nat, d <= e
      PROVE  TreesOf[d] \subseteq TreesOf[e]
  <2> DEFINE j == e - d
  <2>1. j \in Nat /\ d + j = e
    BY <1>5
  <2> HIDE DEF j
  <2>2. TreesOf[d] \subseteq TreesOf[d + j]
    BY <1>4, <2>1
  <2> QED
    BY <2>1, <2>2
<1> QED
  BY <1>5

LEMMA TreesLayered == Layered(TreesOf, Nil)
<1>1. \A d \in Nat : Nil \in TreesOf[d] /\ TreesOf[d] \subseteq TreesOf[d + 1]
  <2> SUFFICES ASSUME NEW d \in Nat
               PROVE  Nil \in TreesOf[d] /\ TreesOf[d] \subseteq TreesOf[d + 1]
    OBVIOUS
  <2>1. TreesOf[0] \subseteq TreesOf[d] /\ TreesOf[d] \subseteq TreesOf[d + 1]
    BY TreesGrow
  <2> QED
    BY <2>1, Levels
<1>2. ASSUME NEW d \in Nat, NEW t \in TreesOf[d + 1], t # Nil
      PROVE  t.left \in TreesOf[d] /\ t.right \in TreesOf[d]
  <2>1. t \in Nodes(TreesOf[d])
    BY <1>2, Levels
  <2> QED
    BY <2>1, NodeIs
<1> QED
  BY <1>1, <1>2, Levels DEF Layered

\* Every tree is empty or a node over two trees, and every such node is one.
LEMMA AllTreesAre == Nil \in AllTrees /\ AllTrees = {Nil} \cup Nodes(AllTrees)
<1>1. ASSUME NEW t \in AllTrees, t # Nil
      PROVE  t \in Nodes(AllTrees)
  <2>1. PICK d \in Nat : t \in TreesOf[d]
    BY DEF AllTrees, AllOf
  <2>2. d # 0
    BY <1>1, <2>1, Levels
  <2> DEFINE e == d - 1
  <2>3. e \in Nat /\ d = e + 1
    BY <2>2
  <2> HIDE DEF e
  <2>4. t \in Nodes(TreesOf[e])
    BY <1>1, <2>1, <2>3, Levels
  <2>5. TreesOf[e] \subseteq AllTrees
    BY <2>3 DEF AllTrees, AllOf
  <2> QED
    BY <2>4, <2>5 DEF Nodes
<1>2. ASSUME NEW n \in Nodes(AllTrees)
      PROVE  n \in AllTrees
  <2>1. n.left \in AllTrees /\ n.right \in AllTrees
    BY NodeIs
  <2>2. PICK d \in Nat, e \in Nat : n.left \in TreesOf[d] /\ n.right \in TreesOf[e]
    BY <2>1 DEF AllTrees, AllOf
  <2>3. PICK m \in Nat : d <= m /\ e <= m
    BY <2>2
  <2>4. n.left \in TreesOf[m] /\ n.right \in TreesOf[m]
    BY <2>2, <2>3, TreesGrow
  <2>5. n \in Nodes(TreesOf[m])
    BY <2>4, NodeIs DEF Nodes
  <2>6. n \in TreesOf[m + 1] /\ m + 1 \in Nat
    BY <2>5, Levels
  <2> QED
    BY <2>6 DEF AllTrees, AllOf
<1>3. Nil \in AllTrees
  BY Levels DEF AllTrees, AllOf
<1> QED
  BY <1>1, <1>2, <1>3

------------------------------------------------------------------------------
(* What a tree holds *)

\* The nodes of a tree, by recursion over all trees.
NodeSets == SUBSET Nodes(AllTrees)

NodesStep == [s \in AllTrees \X NodeSets \X NodeSets |-> {s[1]} \cup s[2] \cup s[3]]

AllNodes == CHOOSE f : IsFold(f, AllTrees, Nil, NodeSets, {}, NodesStep)

LEMMA NodesStepIs ==
  ASSUME NEW n \in AllTrees, NEW a \in NodeSets, NEW b \in NodeSets
  PROVE  NodesStep[<<n, a, b>>] = {n} \cup a \cup b
<1> DEFINE q == <<n, a, b>>
<1>1. q \in AllTrees \X NodeSets \X NodeSets /\ q[1] = n /\ q[2] = a /\ q[3] = b
  OBVIOUS
<1> HIDE DEF q
<1>2. NodesStep[q] = {n} \cup a \cup b
  BY <1>1 DEF NodesStep
<1> QED
  BY <1>2 DEF q

LEMMA AllNodesAre ==
  /\ AllNodes[Nil] = {}
  /\ \A t \in AllTrees : AllNodes[t] \in NodeSets
  /\ \A n \in Nodes(AllTrees) :
       AllNodes[n] = {n} \cup AllNodes[n.left] \cup AllNodes[n.right]
<1>1. \A n \in AllTrees, a, b \in NodeSets : n # Nil => NodesStep[<<n, a, b>>] \in NodeSets
  <2> SUFFICES ASSUME NEW n \in AllTrees, NEW a \in NodeSets, NEW b \in NodeSets, n # Nil
               PROVE  NodesStep[<<n, a, b>>] \in NodeSets
    OBVIOUS
  <2>1. NodesStep[<<n, a, b>>] = {n} \cup a \cup b
    BY NodesStepIs
  <2>2. n \in Nodes(AllTrees)
    BY AllTreesAre
  <2> QED
    BY <2>1, <2>2 DEF NodeSets
<1>2. IsFold(AllNodes, AllTrees, Nil, NodeSets, {}, NodesStep)
  <2>1. {} \in NodeSets
    BY DEF NodeSets
  <2>2. \E f : IsFold(f, AllTrees, Nil, NodeSets, {}, NodesStep)
    BY <1>1, <2>1, TreesLayered, FoldExists DEF AllTrees
  <2> QED
    BY <2>2 DEF AllNodes
<1>3. \A t \in AllTrees : AllNodes[t] \in NodeSets
  BY <1>2 DEF IsFold
<1>4. AllNodes[Nil] = {}
  BY <1>2, AllTreesAre DEF IsFold
<1>5. ASSUME NEW n \in Nodes(AllTrees)
      PROVE  AllNodes[n] = {n} \cup AllNodes[n.left] \cup AllNodes[n.right]
  <2>1. n \in AllTrees /\ n # Nil /\ n.left \in AllTrees /\ n.right \in AllTrees
    BY AllTreesAre, NodeIs
  <2>2. AllNodes[n] = NodesStep[<<n, AllNodes[n.left], AllNodes[n.right]>>]
    BY <1>2, <2>1 DEF IsFold
  <2>3. AllNodes[n.left] \in NodeSets /\ AllNodes[n.right] \in NodeSets
    BY <1>3, <2>1
  <2> QED
    BY <2>1, <2>2, <2>3, NodesStepIs
<1> QED
  BY <1>3, <1>4, <1>5

\* What is filed in a node, and in a tree.
FiledAt(key, offsets) == {<<key, o>> : o \in ToSet(offsets)}

Filed(t) == UNION {FiledAt(n.key, n.offsets) : n \in AllNodes[t]}

\* A node whose height is right, over subtrees that differ by one level at most.
Tight(n) ==
  /\ n.height = 1 + IF n.left.height > n.right.height THEN n.left.height ELSE n.right.height
  /\ n.left.height - n.right.height \in {-1, 0, 1}

AllTight(t) == \A n \in AllNodes[t] : Tight(n)

\* A key with offsets, each once, between what is filed on its left and on its right.
Fits(key, offsets, left, right) ==
  /\ offsets # <<>> /\ IsInjective(offsets)
  /\ \A e \in Filed(left) : e[1] < key
  /\ \A e \in Filed(right) : e[1] > key

Search(t) == \A n \in AllNodes[t] : Fits(n.key, n.offsets, n.left, n.right)

\* A key with offsets, between the same: an offset may be there twice.
Apart(key, offsets, left, right) ==
  /\ offsets # <<>>
  /\ \A e \in Filed(left) : e[1] < key
  /\ \A e \in Filed(right) : e[1] > key

Sorted(t) == \A n \in AllNodes[t] : Apart(n.key, n.offsets, n.left, n.right)

LEMMA SearchIsSorted == \A t : Search(t) => Sorted(t)
BY DEF Search, Sorted, Fits, Apart

LEMMA OfNil ==
  /\ Filed(Nil) = {} /\ AllTight(Nil) /\ Search(Nil) /\ Sorted(Nil)
  /\ Nil \in AllTrees /\ Nil.height = 0
BY AllNodesAre, AllTreesAre, SearchIsSorted DEF Filed, AllTight, Search, Nil

LEMMA OfNode ==
  ASSUME NEW n \in Nodes(AllTrees)
  PROVE  /\ Filed(n) = Filed(n.left) \cup FiledAt(n.key, n.offsets) \cup Filed(n.right)
         /\ AllTight(n) <=> AllTight(n.left) /\ AllTight(n.right) /\ Tight(n)
         /\ Search(n) <=> /\ Search(n.left) /\ Search(n.right)
                          /\ Fits(n.key, n.offsets, n.left, n.right)
         /\ Sorted(n) <=> /\ Sorted(n.left) /\ Sorted(n.right)
                          /\ Apart(n.key, n.offsets, n.left, n.right)
<1>1. AllNodes[n] = {n} \cup AllNodes[n.left] \cup AllNodes[n.right]
  BY AllNodesAre
<1>2. Filed(n) = Filed(n.left) \cup FiledAt(n.key, n.offsets) \cup Filed(n.right)
  BY <1>1 DEF Filed
<1>3. AllTight(n) <=> AllTight(n.left) /\ AllTight(n.right) /\ Tight(n)
  BY <1>1 DEF AllTight
<1>4. Search(n) <=> /\ Search(n.left) /\ Search(n.right)
                    /\ Fits(n.key, n.offsets, n.left, n.right)
  BY <1>1 DEF Search
<1>5. Sorted(n) <=> /\ Sorted(n.left) /\ Sorted(n.right)
                    /\ Apart(n.key, n.offsets, n.left, n.right)
  BY <1>1 DEF Sorted
<1> QED
  BY <1>2, <1>3, <1>4, <1>5

LEMMA HeightIs ==
  ASSUME NEW t \in AllTrees
  PROVE  /\ t.height \in Nat
         /\ AllTight(t) => (t = Nil <=> t.height = 0)
<1>1. CASE t = Nil
  BY <1>1 DEF Nil
<1>2. CASE t # Nil
  <2>1. t \in Nodes(AllTrees)
    BY <1>2, AllTreesAre
  <2>2. t.left \in AllTrees /\ t.right \in AllTrees /\ t.height \in Nat
    BY <2>1, NodeIs
  <2>3. t.left.height \in Nat /\ t.right.height \in Nat
    <3>1. ASSUME NEW u \in AllTrees
          PROVE  u.height \in Nat
      <4>1. CASE u = Nil
        BY <4>1 DEF Nil
      <4>2. CASE u # Nil
        BY <4>2, AllTreesAre, NodeIs
      <4> QED
        BY <4>1, <4>2
    <3> QED
      BY <2>2, <3>1
  <2>4. AllTight(t) => Tight(t)
    BY <2>1, OfNode
  <2>5. Tight(t) => t.height # 0
    BY <2>3 DEF Tight
  <2> QED
    BY <1>2, <2>2, <2>4, <2>5
<1> QED
  BY <1>1, <1>2

------------------------------------------------------------------------------
(* Rotations *)

Highest(left, right) == IF left.height > right.height THEN left.height ELSE right.height

\* The node that updateHeight has seen to.
Made(key, offsets, left, right) ==
  [key |-> key, offsets |-> offsets, left |-> left, right |-> right,
   height |-> 1 + Highest(left, right)]

LEMMA MadeIs ==
  ASSUME NEW key \in Keys, NEW offsets \in Seq(Offsets), NEW left \in AllTrees, NEW right \in AllTrees
  PROVE  LET m == Made(key, offsets, left, right)
         IN  /\ m \in Nodes(AllTrees) /\ m \in AllTrees /\ m # Nil
             /\ m.key = key /\ m.offsets = offsets /\ m.left = left /\ m.right = right
             /\ m.height = 1 + Highest(left, right) /\ m.height \in Nat
             /\ Filed(m) = Filed(left) \cup FiledAt(key, offsets) \cup Filed(right)
             /\ AllTight(m) <=> /\ AllTight(left) /\ AllTight(right)
                            /\ left.height - right.height \in {-1, 0, 1}
             /\ Search(m) <=> Search(left) /\ Search(right) /\ Fits(key, offsets, left, right)
<1> DEFINE m == Made(key, offsets, left, right)
<1>1. left.height \in Nat /\ right.height \in Nat
  BY HeightIs
<1>2. 1 + Highest(left, right) \in Nat
  BY <1>1 DEF Highest
<1>3. /\ m \in Nodes(AllTrees)
      /\ m.key = key /\ m.offsets = offsets /\ m.left = left /\ m.right = right
      /\ m.height = 1 + Highest(left, right)
  BY <1>2 DEF Nodes, Made
<1> HIDE DEF m
<1>4. m \in AllTrees /\ m # Nil
  BY <1>3, AllTreesAre, NodeIs
<1>5. Tight(m) <=> left.height - right.height \in {-1, 0, 1}
  BY <1>3 DEF Tight, Highest
<1>6. /\ Filed(m) = Filed(left) \cup FiledAt(key, offsets) \cup Filed(right)
      /\ AllTight(m) <=> AllTight(left) /\ AllTight(right) /\ Tight(m)
      /\ Search(m) <=> Search(left) /\ Search(right) /\ Fits(key, offsets, left, right)
  BY <1>3, OfNode
<1> QED
  BY <1>2, <1>3, <1>4, <1>5, <1>6 DEF m

\* updateHeight of a node whose children were replaced.
LEMMA UpdateHeightIs ==
  ASSUME NEW n \in Nodes(AllTrees)
  PROVE  UpdateHeight(n) = Made(n.key, n.offsets, n.left, n.right)
<1>1. UpdateHeight(n) = [n EXCEPT !.height = 1 + Highest(n.left, n.right)]
  BY DEF UpdateHeight, NodeHeight, Highest
<1>2. n = [key |-> n.key, offsets |-> n.offsets, left |-> n.left, right |-> n.right,
           height |-> n.height]
  BY NodeIs
<1> QED
  BY <1>1, <1>2 DEF Made

LEMMA WithLeft ==
  ASSUME NEW n \in Nodes(AllTrees), NEW t \in AllTrees
  PROVE  LET m == [n EXCEPT !.left = t]
         IN  /\ m \in Nodes(AllTrees) /\ m.key = n.key /\ m.offsets = n.offsets
             /\ m.left = t /\ m.right = n.right
BY DEF Nodes

LEMMA WithRight ==
  ASSUME NEW n \in Nodes(AllTrees), NEW t \in AllTrees
  PROVE  LET m == [n EXCEPT !.right = t]
         IN  /\ m \in Nodes(AllTrees) /\ m.key = n.key /\ m.offsets = n.offsets
             /\ m.left = n.left /\ m.right = t
BY DEF Nodes

LEMMA RotateRightIs ==
  ASSUME NEW y \in Nodes(AllTrees), y.left # Nil
  PROVE  LET x == y.left
         IN  RotateRight(y) =
               Made(x.key, x.offsets, x.left, Made(y.key, y.offsets, x.right, y.right))
<1> DEFINE x == y.left
           y2 == [y EXCEPT !.left = x.right]
           u == UpdateHeight(y2)
           x2 == [x EXCEPT !.right = u]
<1>1. y.key \in Keys /\ y.offsets \in Seq(Offsets) /\ y.right \in AllTrees /\ x \in Nodes(AllTrees)
  BY NodeIs, AllTreesAre
<1>2. x.right \in AllTrees
  BY <1>1, NodeIs
<1>3. /\ y2 \in Nodes(AllTrees) /\ y2.key = y.key /\ y2.offsets = y.offsets
      /\ y2.left = x.right /\ y2.right = y.right
  BY <1>2, WithLeft
<1>4. RotateRight(y) = UpdateHeight(x2)
  BY DEF RotateRight
<1> HIDE DEF y2
<1>5. u = Made(y.key, y.offsets, x.right, y.right)
  BY <1>3, UpdateHeightIs
<1>6. u \in AllTrees
  BY <1>1, <1>2, <1>5, MadeIs
<1> HIDE DEF u
<1>7. /\ x2 \in Nodes(AllTrees) /\ x2.key = x.key /\ x2.offsets = x.offsets
      /\ x2.left = x.left /\ x2.right = u
  BY <1>1, <1>6, WithRight
<1> HIDE DEF x2
<1>8. UpdateHeight(x2) = Made(x.key, x.offsets, x.left, u)
  BY <1>7, UpdateHeightIs
<1> QED
  BY <1>4, <1>5, <1>8

LEMMA RotateLeftIs ==
  ASSUME NEW x \in Nodes(AllTrees), x.right # Nil
  PROVE  LET y == x.right
         IN  RotateLeft(x) =
               Made(y.key, y.offsets, Made(x.key, x.offsets, x.left, y.left), y.right)
<1> DEFINE y == x.right
           x2 == [x EXCEPT !.right = y.left]
           u == UpdateHeight(x2)
           y2 == [y EXCEPT !.left = u]
<1>1. x.key \in Keys /\ x.offsets \in Seq(Offsets) /\ x.left \in AllTrees /\ y \in Nodes(AllTrees)
  BY NodeIs, AllTreesAre
<1>2. y.left \in AllTrees
  BY <1>1, NodeIs
<1>3. /\ x2 \in Nodes(AllTrees) /\ x2.key = x.key /\ x2.offsets = x.offsets
      /\ x2.left = x.left /\ x2.right = y.left
  BY <1>2, WithRight
<1>4. RotateLeft(x) = UpdateHeight(y2)
  BY DEF RotateLeft
<1> HIDE DEF x2
<1>5. u = Made(x.key, x.offsets, x.left, y.left)
  BY <1>3, UpdateHeightIs
<1>6. u \in AllTrees
  BY <1>1, <1>2, <1>5, MadeIs
<1> HIDE DEF u
<1>7. /\ y2 \in Nodes(AllTrees) /\ y2.key = y.key /\ y2.offsets = y.offsets
      /\ y2.left = u /\ y2.right = y.right
  BY <1>1, <1>6, WithLeft
<1> HIDE DEF y2
<1>8. UpdateHeight(y2) = Made(y.key, y.offsets, u, y.right)
  BY <1>7, UpdateHeightIs
<1> QED
  BY <1>4, <1>5, <1>8

\* What a tree that is not empty has.
LEMMA Parts ==
  ASSUME NEW t \in AllTrees, t # Nil
  PROVE  /\ t \in Nodes(AllTrees) /\ t.key \in Keys /\ t.offsets \in Seq(Offsets)
         /\ t.left \in AllTrees /\ t.right \in AllTrees
         /\ t.left.height \in Nat /\ t.right.height \in Nat /\ t.height \in Nat
<1>1. t \in Nodes(AllTrees)
  BY AllTreesAre
<1>2. t.left \in AllTrees /\ t.right \in AllTrees
  BY <1>1, NodeIs
<1> QED
  BY <1>1, <1>2, NodeIs, HeightIs

\* What rebalance makes of a node, in each of the four cases and otherwise.
RotatedRight(n) ==
  LET l == n.left
  IN  Made(l.key, l.offsets, l.left, Made(n.key, n.offsets, l.right, n.right))

RotatedLeftRight(n) ==
  LET l == n.left
      s == l.right
  IN  Made(s.key, s.offsets, Made(l.key, l.offsets, l.left, s.left),
           Made(n.key, n.offsets, s.right, n.right))

RotatedLeft(n) ==
  LET r == n.right
  IN  Made(r.key, r.offsets, Made(n.key, n.offsets, n.left, r.left), r.right)

RotatedRightLeft(n) ==
  LET r == n.right
      s == r.left
  IN  Made(s.key, s.offsets, Made(n.key, n.offsets, n.left, s.left),
           Made(r.key, r.offsets, s.right, r.right))

LEMMA RebalanceIs ==
  ASSUME NEW n \in Nodes(AllTrees)
  PROVE  \/ /\ n.left.height - n.right.height > 1 /\ n.left # Nil
            /\ n.left.left.height >= n.left.right.height
            /\ Rebalance(n) = RotatedRight(n)
         \/ /\ n.left.height - n.right.height > 1 /\ n.left # Nil
            /\ n.left.left.height < n.left.right.height /\ n.left.right # Nil
            /\ Rebalance(n) = RotatedLeftRight(n)
         \/ /\ n.left.height - n.right.height < -1 /\ n.right # Nil
            /\ n.right.left.height <= n.right.right.height
            /\ Rebalance(n) = RotatedLeft(n)
         \/ /\ n.left.height - n.right.height < -1 /\ n.right # Nil
            /\ n.right.left.height > n.right.right.height /\ n.right.left # Nil
            /\ Rebalance(n) = RotatedRightLeft(n)
         \/ /\ n.left.height - n.right.height \in {-1, 0, 1}
            /\ Rebalance(n) = Made(n.key, n.offsets, n.left, n.right)
<1> DEFINE l == n.left
           r == n.right
           m == Made(n.key, n.offsets, l, r)
           bf == l.height - r.height
<1>1. /\ n \in AllTrees /\ n # Nil /\ n.key \in Keys /\ n.offsets \in Seq(Offsets)
      /\ l \in AllTrees /\ r \in AllTrees /\ l.height \in Nat /\ r.height \in Nat
  <2>1. n \in AllTrees /\ n # Nil
    BY AllTreesAre, NodeIs
  <2> QED
    BY <2>1, Parts
<1>2. /\ m \in Nodes(AllTrees) /\ m # Nil /\ m.key = n.key /\ m.offsets = n.offsets
      /\ m.left = l /\ m.right = r
  BY <1>1, MadeIs
<1>3. UpdateHeight(n) = m
  BY UpdateHeightIs
<1> HIDE DEF l, r, m
<1>4. BalanceFactor(m) = bf /\ bf \in Int
  BY <1>1, <1>2 DEF BalanceFactor, NodeHeight
<1>5. Rebalance(n) =
        CASE bf > 1 /\ BalanceFactor(l) >= 0 -> RotateRight(m)
          [] bf > 1 /\ BalanceFactor(l) < 0 -> RotateRight([m EXCEPT !.left = RotateLeft(l)])
          [] bf < -1 /\ BalanceFactor(r) <= 0 -> RotateLeft(m)
          [] bf < -1 /\ BalanceFactor(r) > 0 -> RotateLeft([m EXCEPT !.right = RotateRight(r)])
          [] OTHER -> m
  BY <1>2, <1>3, <1>4 DEF Rebalance
<1> HIDE DEF bf
<1>6. CASE bf > 1
  <2>1. l # Nil
    BY <1>1, <1>6 DEF bf, Nil
  <2>2. /\ l \in Nodes(AllTrees) /\ l.left.height \in Nat /\ l.right.height \in Nat
        /\ l.right \in AllTrees
    BY <1>1, <2>1, Parts
  <2>3. BalanceFactor(l) = l.left.height - l.right.height
    BY <2>1 DEF BalanceFactor, NodeHeight
  <2>4. CASE l.left.height >= l.right.height
    <3>1. Rebalance(n) = RotateRight(m)
      BY <1>4, <1>5, <1>6, <2>2, <2>3, <2>4
    <3>2. RotateRight(m) = Made(l.key, l.offsets, l.left, Made(n.key, n.offsets, l.right, r))
      BY <1>2, <2>1, RotateRightIs
    <3> QED
      BY <1>6, <2>1, <2>4, <3>1, <3>2 DEF RotatedRight, l, r, bf
  <2>5. CASE l.left.height < l.right.height
    <3> DEFINE s == l.right
               q == RotateLeft(l)
               w == [m EXCEPT !.left = q]
    <3>1. Rebalance(n) = RotateRight(w)
      BY <1>4, <1>5, <1>6, <2>2, <2>3, <2>5
    <3>2. s # Nil
      BY <2>2, <2>5 DEF Nil
    <3>3. q = Made(s.key, s.offsets, Made(l.key, l.offsets, l.left, s.left), s.right)
      BY <2>2, <3>2, RotateLeftIs
    <3> DEFINE u == Made(l.key, l.offsets, l.left, s.left)
    <3>4. u \in AllTrees /\ s.key \in Keys /\ s.offsets \in Seq(Offsets) /\ s.right \in AllTrees
      <4>1. /\ s.key \in Keys /\ s.offsets \in Seq(Offsets) /\ s.right \in AllTrees
            /\ s.left \in AllTrees
        BY <2>2, <3>2, Parts
      <4>2. l.key \in Keys /\ l.offsets \in Seq(Offsets) /\ l.left \in AllTrees
        BY <1>1, <2>1, Parts
      <4> QED
        BY <4>1, <4>2, MadeIs
    <3> HIDE DEF u, q
    <3>5. /\ q \in AllTrees /\ q # Nil /\ q.key = s.key /\ q.offsets = s.offsets
          /\ q.left = u /\ q.right = s.right
      BY <3>3, <3>4, MadeIs DEF u
    <3>6. /\ w \in Nodes(AllTrees) /\ w.key = n.key /\ w.offsets = n.offsets
          /\ w.left = q /\ w.right = r
      BY <1>2, <3>5, WithLeft
    <3> HIDE DEF w
    <3>7. RotateRight(w) = Made(s.key, s.offsets, u, Made(n.key, n.offsets, s.right, r))
      BY <3>5, <3>6, RotateRightIs
    <3> QED
      BY <1>6, <2>1, <2>5, <3>1, <3>2, <3>7 DEF RotatedLeftRight, l, r, u, bf
  <2> QED
    BY <2>2, <2>4, <2>5
<1>7. CASE bf < -1
  <2>1. r # Nil
    BY <1>1, <1>7 DEF bf, Nil
  <2>2. /\ r \in Nodes(AllTrees) /\ r.left.height \in Nat /\ r.right.height \in Nat
        /\ r.left \in AllTrees
    BY <1>1, <2>1, Parts
  <2>3. BalanceFactor(r) = r.left.height - r.right.height
    BY <2>1 DEF BalanceFactor, NodeHeight
  <2>4. CASE r.left.height <= r.right.height
    <3>1. Rebalance(n) = RotateLeft(m)
      BY <1>4, <1>5, <1>7, <2>2, <2>3, <2>4
    <3>2. RotateLeft(m) = Made(r.key, r.offsets, Made(n.key, n.offsets, l, r.left), r.right)
      BY <1>2, <2>1, RotateLeftIs
    <3> QED
      BY <1>7, <2>1, <2>4, <3>1, <3>2 DEF RotatedLeft, l, r, bf
  <2>5. CASE r.left.height > r.right.height
    <3> DEFINE s == r.left
               q == RotateRight(r)
               w == [m EXCEPT !.right = q]
    <3>1. Rebalance(n) = RotateLeft(w)
      BY <1>4, <1>5, <1>7, <2>2, <2>3, <2>5
    <3>2. s # Nil
      BY <2>2, <2>5 DEF Nil
    <3>3. q = Made(s.key, s.offsets, s.left, Made(r.key, r.offsets, s.right, r.right))
      BY <2>2, <3>2, RotateRightIs
    <3> DEFINE u == Made(r.key, r.offsets, s.right, r.right)
    <3>4. u \in AllTrees /\ s.key \in Keys /\ s.offsets \in Seq(Offsets) /\ s.left \in AllTrees
      <4>1. /\ s.key \in Keys /\ s.offsets \in Seq(Offsets) /\ s.right \in AllTrees
            /\ s.left \in AllTrees
        BY <2>2, <3>2, Parts
      <4>2. r.key \in Keys /\ r.offsets \in Seq(Offsets) /\ r.right \in AllTrees
        BY <1>1, <2>1, Parts
      <4> QED
        BY <4>1, <4>2, MadeIs
    <3> HIDE DEF u, q
    <3>5. /\ q \in AllTrees /\ q # Nil /\ q.key = s.key /\ q.offsets = s.offsets
          /\ q.left = s.left /\ q.right = u
      BY <3>3, <3>4, MadeIs DEF u
    <3>6. /\ w \in Nodes(AllTrees) /\ w.key = n.key /\ w.offsets = n.offsets
          /\ w.left = l /\ w.right = q
      BY <1>2, <3>5, WithRight
    <3> HIDE DEF w
    <3>7. RotateLeft(w) = Made(s.key, s.offsets, Made(n.key, n.offsets, l, s.left), u)
      BY <3>5, <3>6, RotateLeftIs
    <3> QED
      BY <1>7, <2>1, <2>5, <3>1, <3>2, <3>7 DEF RotatedRightLeft, l, r, u, bf
  <2> QED
    BY <2>2, <2>4, <2>5
<1>8. CASE bf \in {-1, 0, 1}
  <2>1. Rebalance(n) = m
    BY <1>5, <1>8
  <2> QED
    BY <1>8, <2>1 DEF l, r, m, bf
<1> QED
  BY <1>4, <1>6, <1>7, <1>8

LEMMA FiledTyped ==
  ASSUME NEW t \in AllTrees
  PROVE  Filed(t) \subseteq Keys \X Offsets
<1> SUFFICES ASSUME NEW e \in Filed(t)
             PROVE  e \in Keys \X Offsets
  OBVIOUS
<1>1. PICK n \in AllNodes[t] : e \in FiledAt(n.key, n.offsets)
  BY DEF Filed
<1>2. n \in Nodes(AllTrees)
  BY AllNodesAre DEF NodeSets
<1>3. n.key \in Keys /\ n.offsets \in Seq(Offsets)
  BY <1>2, NodeIs
<1>4. ToSet(n.offsets) \subseteq Offsets
  BY <1>3 DEF ToSet
<1> QED
  BY <1>1, <1>3, <1>4 DEF FiledAt

\* A key is on the side that the search goes to.
LEMMA FiledKeys ==
  /\ \A t \in AllTrees : \A e \in Filed(t) : e[1] \in Keys /\ e[1] \in Int
  /\ \A key \in Keys : \A offsets : \A e \in FiledAt(key, offsets) : e[1] = key
  /\ \A key \in Keys, offsets \in Seq(Offsets) :
       offsets # <<>> => \E e \in FiledAt(key, offsets) : e[1] = key
<1>1. ASSUME NEW t \in AllTrees, NEW e \in Filed(t)
      PROVE  e[1] \in Keys /\ e[1] \in Int
  <2>1. e \in Keys \X Offsets
    BY FiledTyped
  <2> QED
    BY <2>1, KeysAssumption
<1>2. ASSUME NEW key \in Keys, NEW offsets, NEW e \in FiledAt(key, offsets)
      PROVE  e[1] = key
  BY DEF FiledAt
<1>3. ASSUME NEW key \in Keys, NEW offsets \in Seq(Offsets), offsets # <<>>
      PROVE  \E e \in FiledAt(key, offsets) : e[1] = key
  <2>1. offsets[1] \in ToSet(offsets)
    BY <1>3 DEF ToSet
  <2>2. <<key, offsets[1]>> \in FiledAt(key, offsets)
    BY <2>1 DEF FiledAt
  <2>3. <<key, offsets[1]>>[1] = key
    OBVIOUS
  <2> QED
    BY <2>2, <2>3
<1> QED
  BY <1>1, <1>2, <1>3

\* A rotation leaves what is filed as it is, and on the same side of each key.
LEMMA RightKeeps ==
  ASSUME NEW n \in Nodes(AllTrees), n.left # Nil, Search(n.left), Search(n.right),
         Fits(n.key, n.offsets, n.left, n.right)
  PROVE  /\ RotatedRight(n) \in Nodes(AllTrees) /\ Search(RotatedRight(n))
         /\ Filed(RotatedRight(n)) =
              Filed(n.left) \cup FiledAt(n.key, n.offsets) \cup Filed(n.right)
<1> DEFINE l == n.left
           r == n.right
           u == Made(n.key, n.offsets, l.right, r)
           R == Made(l.key, l.offsets, l.left, u)
<1>1. /\ n.key \in Keys /\ n.offsets \in Seq(Offsets) /\ l \in AllTrees /\ r \in AllTrees
      /\ l # Nil /\ Search(l) /\ Search(r) /\ Fits(n.key, n.offsets, l, r)
  BY NodeIs
<1> HIDE DEF l, r
<1>2. /\ l \in Nodes(AllTrees) /\ l.key \in Keys /\ l.offsets \in Seq(Offsets)
      /\ l.left \in AllTrees /\ l.right \in AllTrees
  BY <1>1, Parts
<1>3. /\ Search(l.left) /\ Search(l.right) /\ Fits(l.key, l.offsets, l.left, l.right)
      /\ Filed(l) = Filed(l.left) \cup FiledAt(l.key, l.offsets) \cup Filed(l.right)
  BY <1>1, <1>2, OfNode
<1>4. l.key < n.key
  <2>1. PICK e \in FiledAt(l.key, l.offsets) : e[1] = l.key
    BY <1>2, <1>3, FiledKeys DEF Fits
  <2> QED
    BY <1>1, <1>3, <2>1 DEF Fits
<1>5. Fits(n.key, n.offsets, l.right, r)
  BY <1>1, <1>3 DEF Fits
<1>6. /\ u \in AllTrees /\ Search(u)
      /\ Filed(u) = Filed(l.right) \cup FiledAt(n.key, n.offsets) \cup Filed(r)
  BY <1>1, <1>2, <1>3, <1>5, MadeIs
<1>7. ASSUME NEW e \in Filed(u)
      PROVE  e[1] > l.key
  <2>1. CASE e \in Filed(l.right)
    BY <1>3, <2>1 DEF Fits
  <2>2. CASE e \in FiledAt(n.key, n.offsets)
    BY <1>1, <1>4, <2>2, FiledKeys
  <2>3. CASE e \in Filed(r)
    <3>1. e[1] > n.key /\ e[1] \in Int
      BY <1>1, <2>3, FiledKeys DEF Fits
    <3>2. n.key \in Int /\ l.key \in Int
      BY <1>1, <1>2, KeysAssumption
    <3> QED
      BY <1>4, <3>1, <3>2
  <2> QED
    BY <1>6, <2>1, <2>2, <2>3
<1> HIDE DEF u
<1>8. Fits(l.key, l.offsets, l.left, u)
  BY <1>3, <1>7 DEF Fits
<1>9. /\ R \in Nodes(AllTrees) /\ Search(R)
      /\ Filed(R) = Filed(l.left) \cup FiledAt(l.key, l.offsets) \cup Filed(u)
  BY <1>2, <1>3, <1>6, <1>8, MadeIs
<1>10. RotatedRight(n) = R
  BY DEF RotatedRight, u, l, r
<1> HIDE DEF R
<1>11. Filed(R) = Filed(l) \cup FiledAt(n.key, n.offsets) \cup Filed(r)
  BY <1>3, <1>6, <1>9
<1> QED
  BY <1>9, <1>10, <1>11 DEF l, r

LEMMA LeftKeeps ==
  ASSUME NEW n \in Nodes(AllTrees), n.right # Nil, Search(n.left), Search(n.right),
         Fits(n.key, n.offsets, n.left, n.right)
  PROVE  /\ RotatedLeft(n) \in Nodes(AllTrees) /\ Search(RotatedLeft(n))
         /\ Filed(RotatedLeft(n)) =
              Filed(n.left) \cup FiledAt(n.key, n.offsets) \cup Filed(n.right)
<1> DEFINE l == n.left
           r == n.right
           u == Made(n.key, n.offsets, l, r.left)
           R == Made(r.key, r.offsets, u, r.right)
<1>1. /\ n.key \in Keys /\ n.offsets \in Seq(Offsets) /\ l \in AllTrees /\ r \in AllTrees
      /\ r # Nil /\ Search(l) /\ Search(r) /\ Fits(n.key, n.offsets, l, r)
  BY NodeIs
<1> HIDE DEF l, r
<1>2. /\ r \in Nodes(AllTrees) /\ r.key \in Keys /\ r.offsets \in Seq(Offsets)
      /\ r.left \in AllTrees /\ r.right \in AllTrees
  BY <1>1, Parts
<1>3. /\ Search(r.left) /\ Search(r.right) /\ Fits(r.key, r.offsets, r.left, r.right)
      /\ Filed(r) = Filed(r.left) \cup FiledAt(r.key, r.offsets) \cup Filed(r.right)
  BY <1>1, <1>2, OfNode
<1>4. r.key > n.key
  <2>1. PICK e \in FiledAt(r.key, r.offsets) : e[1] = r.key
    BY <1>2, <1>3, FiledKeys DEF Fits
  <2> QED
    BY <1>1, <1>3, <2>1 DEF Fits
<1>5. Fits(n.key, n.offsets, l, r.left)
  BY <1>1, <1>3 DEF Fits
<1>6. /\ u \in AllTrees /\ Search(u)
      /\ Filed(u) = Filed(l) \cup FiledAt(n.key, n.offsets) \cup Filed(r.left)
  BY <1>1, <1>2, <1>3, <1>5, MadeIs
<1>7. ASSUME NEW e \in Filed(u)
      PROVE  e[1] < r.key
  <2>1. CASE e \in Filed(r.left)
    BY <1>3, <2>1 DEF Fits
  <2>2. CASE e \in FiledAt(n.key, n.offsets)
    <3>1. e[1] = n.key /\ n.key \in Int /\ r.key \in Int
      BY <1>1, <1>2, <2>2, FiledKeys, KeysAssumption
    <3> QED
      BY <1>4, <3>1
  <2>3. CASE e \in Filed(l)
    <3>1. e[1] < n.key /\ e[1] \in Int
      BY <1>1, <2>3, FiledKeys DEF Fits
    <3>2. n.key \in Int /\ r.key \in Int
      BY <1>1, <1>2, KeysAssumption
    <3> QED
      BY <1>4, <3>1, <3>2
  <2> QED
    BY <1>6, <2>1, <2>2, <2>3
<1> HIDE DEF u
<1>8. Fits(r.key, r.offsets, u, r.right)
  BY <1>3, <1>7 DEF Fits
<1>9. /\ R \in Nodes(AllTrees) /\ Search(R)
      /\ Filed(R) = Filed(u) \cup FiledAt(r.key, r.offsets) \cup Filed(r.right)
  BY <1>2, <1>3, <1>6, <1>8, MadeIs
<1>10. RotatedLeft(n) = R
  BY DEF RotatedLeft, u, l, r
<1> HIDE DEF R
<1>11. Filed(R) = Filed(l) \cup FiledAt(n.key, n.offsets) \cup Filed(r)
  BY <1>3, <1>6, <1>9
<1> QED
  BY <1>9, <1>10, <1>11 DEF l, r

\* So do two of them.
LEMMA DoubleKeeps ==
  ASSUME NEW n \in Nodes(AllTrees), Search(n.left), Search(n.right),
         Fits(n.key, n.offsets, n.left, n.right)
  PROVE  LET Kept(R) == /\ R \in Nodes(AllTrees) /\ Search(R)
                        /\ Filed(R) = Filed(n.left) \cup FiledAt(n.key, n.offsets) \cup Filed(n.right)
         IN  /\ n.left # Nil /\ n.left.right # Nil => Kept(RotatedLeftRight(n))
             /\ n.right # Nil /\ n.right.left # Nil => Kept(RotatedRightLeft(n))
<1> DEFINE l == n.left
           r == n.right
<1>1. n.key \in Keys /\ n.offsets \in Seq(Offsets) /\ l \in AllTrees /\ r \in AllTrees
  BY NodeIs
<1>2. ASSUME l # Nil, l.right # Nil
      PROVE  /\ RotatedLeftRight(n) \in Nodes(AllTrees) /\ Search(RotatedLeftRight(n))
             /\ Filed(RotatedLeftRight(n)) = Filed(l) \cup FiledAt(n.key, n.offsets) \cup Filed(r)
  <2> DEFINE q == RotatedLeft(l)
             w == [n EXCEPT !.left = q]
             s == l.right
  <2>1. l \in Nodes(AllTrees)
    BY <1>1, <1>2, Parts
  <2>2. /\ Search(l.left) /\ Search(l.right) /\ Fits(l.key, l.offsets, l.left, l.right)
        /\ Filed(l) = Filed(l.left) \cup FiledAt(l.key, l.offsets) \cup Filed(l.right)
    BY <2>1, OfNode
  <2>3. q \in Nodes(AllTrees) /\ Search(q) /\ Filed(q) = Filed(l)
    BY <1>2, <2>1, <2>2, LeftKeeps
  <2>4. q = Made(s.key, s.offsets, Made(l.key, l.offsets, l.left, s.left), s.right)
    BY DEF RotatedLeft
  <2>5. /\ l.key \in Keys /\ l.offsets \in Seq(Offsets) /\ l.left \in AllTrees /\ s \in AllTrees
        /\ s.key \in Keys /\ s.offsets \in Seq(Offsets) /\ s.left \in AllTrees /\ s.right \in AllTrees
    BY <1>1, <1>2, Parts
  <2> DEFINE u == Made(l.key, l.offsets, l.left, s.left)
  <2>6. u \in AllTrees
    BY <2>5, MadeIs
  <2> HIDE DEF u, s, q
  <2>7. q.key = s.key /\ q.offsets = s.offsets /\ q.left = u /\ q.right = s.right
    BY <2>4, <2>5, <2>6, MadeIs DEF u
  <2>8. q \in AllTrees /\ q # Nil
    BY <2>3, AllTreesAre, NodeIs
  <2>9. /\ w \in Nodes(AllTrees) /\ w.key = n.key /\ w.offsets = n.offsets
        /\ w.left = q /\ w.right = r
    BY <2>8, WithLeft
  <2> HIDE DEF w
  <2>10. Fits(w.key, w.offsets, w.left, w.right)
    BY <2>3, <2>9 DEF Fits
  <2>11. /\ RotatedRight(w) \in Nodes(AllTrees) /\ Search(RotatedRight(w))
         /\ Filed(RotatedRight(w)) = Filed(q) \cup FiledAt(n.key, n.offsets) \cup Filed(r)
    BY <2>3, <2>8, <2>9, <2>10, RightKeeps
  <2>12. RotatedRight(w) = RotatedLeftRight(n)
    BY <2>7, <2>9 DEF RotatedRight, RotatedLeftRight, u, s
  <2> QED
    BY <2>3, <2>11, <2>12
<1>3. ASSUME r # Nil, r.left # Nil
      PROVE  /\ RotatedRightLeft(n) \in Nodes(AllTrees) /\ Search(RotatedRightLeft(n))
             /\ Filed(RotatedRightLeft(n)) = Filed(l) \cup FiledAt(n.key, n.offsets) \cup Filed(r)
  <2> DEFINE q == RotatedRight(r)
             w == [n EXCEPT !.right = q]
             s == r.left
  <2>1. r \in Nodes(AllTrees)
    BY <1>1, <1>3, Parts
  <2>2. /\ Search(r.left) /\ Search(r.right) /\ Fits(r.key, r.offsets, r.left, r.right)
        /\ Filed(r) = Filed(r.left) \cup FiledAt(r.key, r.offsets) \cup Filed(r.right)
    BY <2>1, OfNode
  <2>3. q \in Nodes(AllTrees) /\ Search(q) /\ Filed(q) = Filed(r)
    BY <1>3, <2>1, <2>2, RightKeeps
  <2>4. q = Made(s.key, s.offsets, s.left, Made(r.key, r.offsets, s.right, r.right))
    BY DEF RotatedRight
  <2>5. /\ r.key \in Keys /\ r.offsets \in Seq(Offsets) /\ r.right \in AllTrees /\ s \in AllTrees
        /\ s.key \in Keys /\ s.offsets \in Seq(Offsets) /\ s.left \in AllTrees /\ s.right \in AllTrees
    BY <1>1, <1>3, Parts
  <2> DEFINE u == Made(r.key, r.offsets, s.right, r.right)
  <2>6. u \in AllTrees
    BY <2>5, MadeIs
  <2> HIDE DEF u, s, q
  <2>7. q.key = s.key /\ q.offsets = s.offsets /\ q.left = s.left /\ q.right = u
    BY <2>4, <2>5, <2>6, MadeIs DEF u
  <2>8. q \in AllTrees /\ q # Nil
    BY <2>3, AllTreesAre, NodeIs
  <2>9. /\ w \in Nodes(AllTrees) /\ w.key = n.key /\ w.offsets = n.offsets
        /\ w.left = l /\ w.right = q
    BY <2>8, WithRight
  <2> HIDE DEF w
  <2>10. Fits(w.key, w.offsets, w.left, w.right)
    BY <2>3, <2>9 DEF Fits
  <2>11. /\ RotatedLeft(w) \in Nodes(AllTrees) /\ Search(RotatedLeft(w))
         /\ Filed(RotatedLeft(w)) = Filed(l) \cup FiledAt(n.key, n.offsets) \cup Filed(q)
    BY <2>3, <2>8, <2>9, <2>10, LeftKeeps
  <2>12. RotatedLeft(w) = RotatedRightLeft(n)
    BY <2>7, <2>9 DEF RotatedLeft, RotatedRightLeft, u, s
  <2> QED
    BY <2>3, <2>11, <2>12
<1> QED
  BY <1>2, <1>3

\* Heights, of which nothing but the numbers matters.
LEMMA MadeHeight ==
  ASSUME NEW key \in Keys, NEW offsets \in Seq(Offsets), NEW left \in AllTrees, NEW right \in AllTrees,
         AllTight(left), AllTight(right), left.height - right.height \in {-1, 0, 1}
  PROVE  LET m == Made(key, offsets, left, right)
         IN  /\ m \in AllTrees /\ AllTight(m)
             /\ m.height \in {1 + left.height, 1 + right.height}
             /\ m.height > left.height /\ m.height > right.height
<1>1. left.height \in Nat /\ right.height \in Nat
  BY HeightIs
<1>2. /\ Made(key, offsets, left, right) \in AllTrees /\ AllTight(Made(key, offsets, left, right))
      /\ Made(key, offsets, left, right).height = 1 + Highest(left, right)
  BY MadeIs
<1> QED
  BY <1>1, <1>2 DEF Highest

LEMMA GoodParts ==
  ASSUME NEW t \in AllTrees, t # Nil, AllTight(t)
  PROVE  /\ AllTight(t.left) /\ AllTight(t.right)
         /\ t.left.height - t.right.height \in {-1, 0, 1}
         /\ t.height \in {1 + t.left.height, 1 + t.right.height}
         /\ t.height > t.left.height /\ t.height > t.right.height
         /\ t.left.height >= t.right.height =>
              /\ t.height = t.left.height + 1
              /\ t.left.height = t.right.height \/ t.left.height = t.right.height + 1
         /\ t.left.height <= t.right.height =>
              /\ t.height = t.right.height + 1
              /\ t.right.height = t.left.height \/ t.right.height = t.left.height + 1
<1> DEFINE a == t.left.height
           b == t.right.height
           h == t.height
<1>1. t \in Nodes(AllTrees) /\ a \in Nat /\ b \in Nat
  BY Parts
<1>2. AllTight(t.left) /\ AllTight(t.right) /\ Tight(t)
  BY <1>1, OfNode
<1>3. h = 1 + (IF a > b THEN a ELSE b) /\ a - b \in {-1, 0, 1}
  BY <1>2 DEF Tight
<1> SUFFICES /\ h \in {1 + a, 1 + b} /\ h > a /\ h > b
             /\ a >= b => h = a + 1 /\ (a = b \/ a = b + 1)
             /\ a <= b => h = b + 1 /\ (b = a \/ b = a + 1)
  BY <1>2, <1>3
<1> HIDE DEF a, b, h
<1> QED
  BY <1>1, <1>3

\* The subtrees of a node may differ by two levels: rebalance makes up for it, and the
\* tree is as high as the higher one or one level more.
LEMMA RebalanceGood ==
  ASSUME NEW n \in Nodes(AllTrees), AllTight(n.left), AllTight(n.right),
         n.left.height - n.right.height \in -2..2
  PROVE  /\ Rebalance(n) \in AllTrees /\ AllTight(Rebalance(n))
         /\ Rebalance(n).height \in {Highest(n.left, n.right), 1 + Highest(n.left, n.right)}
         /\ n.left.height - n.right.height \in {-1, 0, 1} =>
              Rebalance(n).height = 1 + Highest(n.left, n.right)
<1> DEFINE l == n.left
           r == n.right
           bf == l.height - r.height
           Result(R) == /\ R \in AllTrees /\ AllTight(R)
                        /\ R.height \in {Highest(l, r), 1 + Highest(l, r)}
                        /\ bf \in {-1, 0, 1} => R.height = 1 + Highest(l, r)
<1>1. /\ n.key \in Keys /\ n.offsets \in Seq(Offsets) /\ l \in AllTrees /\ r \in AllTrees
      /\ AllTight(l) /\ AllTight(r) /\ bf \in -2..2
  BY NodeIs
<1>2. l.height \in Nat /\ r.height \in Nat
  BY <1>1, HeightIs
<1> SUFFICES Result(Rebalance(n))
  OBVIOUS
<1> HIDE DEF l, r
<1>3. CASE /\ bf > 1 /\ l # Nil /\ l.left.height >= l.right.height
           /\ Rebalance(n) = RotatedRight(n)
  <2> DEFINE u == Made(n.key, n.offsets, l.right, r)
             R == Made(l.key, l.offsets, l.left, u)
  <2>1. /\ l.key \in Keys /\ l.offsets \in Seq(Offsets) /\ l.left \in AllTrees /\ l.right \in AllTrees
        /\ l.left.height \in Nat /\ l.right.height \in Nat
    BY <1>1, <1>3, Parts
  <2>2. /\ AllTight(l.left) /\ AllTight(l.right) /\ l.left.height - l.right.height \in {0, 1}
        /\ l.height = 1 + l.left.height
    BY <1>1, <1>3, <2>1, GoodParts
  <2>3. r.height = l.left.height - 1
    <3> DEFINE h == r.height
               i == l.height
               j == l.left.height
    <3>1. h \in Nat /\ i \in Nat /\ j \in Nat /\ i = 1 + j /\ i - h \in -2..2 /\ i - h > 1
      BY <1>1, <1>2, <1>3, <2>1, <2>2
    <3> HIDE DEF h, i, j
    <3>2. h = j - 1
      BY <3>1
    <3> QED
      BY <3>2 DEF h, j
  <2>4. l.right.height - r.height \in {0, 1}
    BY <2>1, <2>2, <2>3
  <2>5. u \in AllTrees /\ AllTight(u) /\ u.height = 1 + l.right.height
    <3>1. /\ u \in AllTrees /\ AllTight(u) /\ u.height \in {1 + l.right.height, 1 + r.height}
          /\ u.height > l.right.height
      BY <1>1, <2>1, <2>2, <2>4, MadeHeight
    <3> QED
      BY <1>2, <2>1, <2>4, <3>1
  <2> HIDE DEF u
  <2>6. l.left.height - u.height \in {-1, 0}
    BY <2>1, <2>2, <2>5
  <2>7. R \in AllTrees /\ AllTight(R) /\ R.height \in {1 + l.left.height, 1 + u.height}
    BY <2>1, <2>2, <2>5, <2>6, MadeHeight
  <2>8. Highest(l, r) = 1 + l.left.height
    BY <1>1, <1>2, <1>3, <2>2 DEF Highest
  <2>9. R = Rebalance(n)
    BY <1>3 DEF RotatedRight, u, l, r
  <2> HIDE DEF R
  <2>10. R.height \in {Highest(l, r), 1 + Highest(l, r)}
    <3>1. R.height > l.left.height
      BY <2>1, <2>2, <2>5, <2>6, MadeHeight DEF R
    <3> QED
      BY <2>1, <2>2, <2>5, <2>7, <2>8, <3>1
  <2> QED
    BY <1>1, <1>2, <1>3, <2>7, <2>9, <2>10
<1>4. CASE /\ bf > 1 /\ l # Nil /\ l.left.height < l.right.height /\ l.right # Nil
           /\ Rebalance(n) = RotatedLeftRight(n)
  <2> DEFINE s == l.right
             u == Made(l.key, l.offsets, l.left, s.left)
             v == Made(n.key, n.offsets, s.right, r)
             R == Made(s.key, s.offsets, u, v)
             a == l.left.height
  <2>1. /\ l.key \in Keys /\ l.offsets \in Seq(Offsets) /\ l.left \in AllTrees /\ s \in AllTrees
        /\ a \in Nat /\ s.height \in Nat
    BY <1>1, <1>4, Parts
  <2>2. /\ AllTight(l.left) /\ AllTight(s) /\ a - s.height = -1 /\ l.height = 1 + s.height
    <3> DEFINE h == s.height
               i == l.height
    <3>1. /\ AllTight(l.left) /\ AllTight(s) /\ a \in Nat /\ h \in Nat
          /\ a <= h => i = h + 1 /\ (h = a \/ h = a + 1)
      BY <1>1, <1>4, <2>1, GoodParts
    <3>2. a < h
      BY <1>4
    <3> HIDE DEF a, h, i, s
    <3>3. a - h = -1 /\ i = 1 + h
      BY <3>1, <3>2
    <3> QED
      BY <3>1, <3>3 DEF h, i
  <2>3. /\ s.key \in Keys /\ s.offsets \in Seq(Offsets) /\ s.left \in AllTrees /\ s.right \in AllTrees
        /\ s.left.height \in Nat /\ s.right.height \in Nat
    BY <1>4, <2>1, Parts
  <2>4. /\ AllTight(s.left) /\ AllTight(s.right) /\ s.left.height - s.right.height \in {-1, 0, 1}
        /\ s.height \in {1 + s.left.height, 1 + s.right.height}
        /\ s.height > s.left.height /\ s.height > s.right.height
    BY <1>4, <2>1, <2>2, GoodParts
  <2>5. s.height = a + 1 /\ r.height = a
    <3> DEFINE h == s.height
               i == l.height
               j == r.height
    <3>1. /\ a \in Nat /\ h \in Nat /\ i \in Nat /\ j \in Nat
          /\ a - h = -1 /\ i = 1 + h /\ i - j \in -2..2 /\ i - j > 1
      BY <1>1, <1>2, <1>4, <2>1, <2>2
    <3> HIDE DEF a, h, i, j
    <3>2. h = a + 1 /\ j = a
      BY <3>1
    <3> QED
      BY <3>2 DEF h, j
  <2>6. a - s.left.height \in {0, 1} /\ s.right.height - a \in {-1, 0}
    <3> DEFINE x == s.left.height
               y == s.right.height
               h == s.height
    <3>1. /\ a \in Nat /\ x \in Nat /\ y \in Nat
          /\ x - y \in {-1, 0, 1} /\ h \in {1 + x, 1 + y} /\ h > x /\ h > y /\ h = a + 1
      BY <2>1, <2>3, <2>4, <2>5
    <3> HIDE DEF a, x, y, h
    <3>2. a - x \in {0, 1} /\ y - a \in {-1, 0}
      BY <3>1
    <3> QED
      BY <3>2 DEF x, y
  <2>7. u \in AllTrees /\ AllTight(u) /\ u.height = 1 + a
    <3>1. /\ u \in AllTrees /\ AllTight(u) /\ u.height \in {1 + l.left.height, 1 + s.left.height}
          /\ u.height > l.left.height
      BY <2>1, <2>2, <2>3, <2>4, <2>6, MadeHeight
    <3> QED
      BY <2>1, <2>3, <2>6, <3>1
  <2>8. v \in AllTrees /\ AllTight(v) /\ v.height = 1 + a
    <3>1. s.right.height - r.height \in {-1, 0, 1}
      BY <2>5, <2>6
    <3>2. /\ v \in AllTrees /\ AllTight(v) /\ v.height \in {1 + s.right.height, 1 + r.height}
          /\ v.height > r.height
      BY <1>1, <2>3, <2>4, <3>1, MadeHeight
    <3> DEFINE x == s.right.height
               h == v.height
    <3>3. a \in Nat /\ x \in Nat /\ h \in {1 + a, 1 + x} /\ h > a /\ x - a \in {-1, 0}
      BY <2>1, <2>3, <2>5, <2>6, <3>2
    <3> HIDE DEF a, v, x, h
    <3>4. h = 1 + a
      BY <3>3
    <3> QED
      BY <3>2, <3>4 DEF h
  <2> HIDE DEF u, v, a, s
  <2>9. u.height - v.height = 0
    BY <2>1, <2>7, <2>8
  <2>10. R \in AllTrees /\ AllTight(R) /\ R.height \in {1 + u.height, 1 + v.height}
    BY <2>3, <2>7, <2>8, <2>9, MadeHeight
  <2>11. Highest(l, r) = a + 2
    BY <1>1, <1>2, <1>4, <2>1, <2>2, <2>5 DEF Highest
  <2>12. R = Rebalance(n)
    BY <1>4 DEF RotatedLeftRight, u, v, l, r, s
  <2> HIDE DEF R
  <2>13. R.height = Highest(l, r)
    BY <2>1, <2>7, <2>8, <2>10, <2>11
  <2> QED
    BY <1>1, <1>4, <2>10, <2>12, <2>13
<1>5. CASE /\ bf < -1 /\ r # Nil /\ r.left.height <= r.right.height
           /\ Rebalance(n) = RotatedLeft(n)
  <2> DEFINE u == Made(n.key, n.offsets, l, r.left)
             R == Made(r.key, r.offsets, u, r.right)
  <2>1. /\ r.key \in Keys /\ r.offsets \in Seq(Offsets) /\ r.left \in AllTrees /\ r.right \in AllTrees
        /\ r.left.height \in Nat /\ r.right.height \in Nat
    BY <1>1, <1>5, Parts
  <2>2. /\ AllTight(r.left) /\ AllTight(r.right) /\ r.left.height - r.right.height \in {-1, 0}
        /\ r.height = 1 + r.right.height
    BY <1>1, <1>5, <2>1, GoodParts
  <2>3. l.height = r.right.height - 1
    <3> DEFINE h == l.height
               i == r.height
               j == r.right.height
    <3>1. h \in Nat /\ i \in Nat /\ j \in Nat /\ i = 1 + j /\ h - i \in -2..2 /\ h - i < -1
      BY <1>1, <1>2, <1>5, <2>1, <2>2
    <3> HIDE DEF h, i, j
    <3>2. h = j - 1
      BY <3>1
    <3> QED
      BY <3>2 DEF h, j
  <2>4. l.height - r.left.height \in {-1, 0}
    BY <2>1, <2>2, <2>3
  <2>5. u \in AllTrees /\ AllTight(u) /\ u.height = 1 + r.left.height
    <3>1. /\ u \in AllTrees /\ AllTight(u) /\ u.height \in {1 + l.height, 1 + r.left.height}
          /\ u.height > r.left.height
      BY <1>1, <2>1, <2>2, <2>4, MadeHeight
    <3> QED
      BY <1>2, <2>1, <2>4, <3>1
  <2> HIDE DEF u
  <2>6. u.height - r.right.height \in {0, 1}
    BY <2>1, <2>2, <2>5
  <2>7. R \in AllTrees /\ AllTight(R) /\ R.height \in {1 + u.height, 1 + r.right.height}
    BY <2>1, <2>2, <2>5, <2>6, MadeHeight
  <2>8. Highest(l, r) = 1 + r.right.height
    BY <1>1, <1>2, <1>5, <2>2 DEF Highest
  <2>9. R = Rebalance(n)
    BY <1>5 DEF RotatedLeft, u, l, r
  <2> HIDE DEF R
  <2>10. R.height \in {Highest(l, r), 1 + Highest(l, r)}
    <3>1. R.height > r.right.height
      BY <2>1, <2>2, <2>5, <2>6, MadeHeight DEF R
    <3> QED
      BY <2>1, <2>2, <2>5, <2>7, <2>8, <3>1, SMTT(30)
  <2> QED
    BY <1>1, <1>5, <2>7, <2>9, <2>10
<1>6. CASE /\ bf < -1 /\ r # Nil /\ r.left.height > r.right.height /\ r.left # Nil
           /\ Rebalance(n) = RotatedRightLeft(n)
  <2> DEFINE s == r.left
             u == Made(n.key, n.offsets, l, s.left)
             v == Made(r.key, r.offsets, s.right, r.right)
             R == Made(s.key, s.offsets, u, v)
             a == r.right.height
  <2>1. /\ r.key \in Keys /\ r.offsets \in Seq(Offsets) /\ r.right \in AllTrees /\ s \in AllTrees
        /\ a \in Nat /\ s.height \in Nat
    BY <1>1, <1>6, Parts
  <2>2. /\ AllTight(r.right) /\ AllTight(s) /\ s.height - a = 1 /\ r.height = 1 + s.height
    <3> DEFINE h == s.height
               i == r.height
    <3>1. /\ AllTight(r.right) /\ AllTight(s) /\ a \in Nat /\ h \in Nat
          /\ h >= a => i = h + 1 /\ (h = a \/ h = a + 1)
      BY <1>1, <1>6, <2>1, GoodParts
    <3>2. h > a
      BY <1>6
    <3> HIDE DEF a, h, i, s
    <3>3. h - a = 1 /\ i = 1 + h
      BY <3>1, <3>2
    <3> QED
      BY <3>1, <3>3 DEF h, i
  <2>3. /\ s.key \in Keys /\ s.offsets \in Seq(Offsets) /\ s.left \in AllTrees /\ s.right \in AllTrees
        /\ s.left.height \in Nat /\ s.right.height \in Nat
    BY <1>6, <2>1, Parts
  <2>4. /\ AllTight(s.left) /\ AllTight(s.right) /\ s.left.height - s.right.height \in {-1, 0, 1}
        /\ s.height \in {1 + s.left.height, 1 + s.right.height}
        /\ s.height > s.left.height /\ s.height > s.right.height
    BY <1>6, <2>1, <2>2, GoodParts
  <2>5. s.height = a + 1 /\ l.height = a
    <3> DEFINE h == s.height
               i == r.height
               j == l.height
    <3>1. /\ a \in Nat /\ h \in Nat /\ i \in Nat /\ j \in Nat
          /\ h - a = 1 /\ i = 1 + h /\ j - i \in -2..2 /\ j - i < -1
      BY <1>1, <1>2, <1>6, <2>1, <2>2
    <3> HIDE DEF a, h, i, j
    <3>2. h = a + 1 /\ j = a
      BY <3>1
    <3> QED
      BY <3>2 DEF h, j
  <2>6. a - s.left.height \in {0, 1} /\ s.right.height - a \in {-1, 0}
    <3> DEFINE x == s.left.height
               y == s.right.height
               h == s.height
    <3>1. /\ a \in Nat /\ x \in Nat /\ y \in Nat
          /\ x - y \in {-1, 0, 1} /\ h \in {1 + x, 1 + y} /\ h > x /\ h > y /\ h = a + 1
      BY <2>1, <2>3, <2>4, <2>5
    <3> HIDE DEF a, x, y, h
    <3>2. a - x \in {0, 1} /\ y - a \in {-1, 0}
      BY <3>1
    <3> QED
      BY <3>2 DEF x, y
  <2>7. u \in AllTrees /\ AllTight(u) /\ u.height = 1 + a
    <3>1. l.height - s.left.height \in {-1, 0, 1}
      BY <2>5, <2>6
    <3>2. /\ u \in AllTrees /\ AllTight(u) /\ u.height \in {1 + l.height, 1 + s.left.height}
          /\ u.height > l.height
      BY <1>1, <2>3, <2>4, <3>1, MadeHeight
    <3> DEFINE x == s.left.height
               h == u.height
    <3>3. a \in Nat /\ x \in Nat /\ h \in {1 + a, 1 + x} /\ h > a /\ a - x \in {0, 1}
      BY <2>1, <2>3, <2>5, <2>6, <3>2
    <3> HIDE DEF a, u, x, h
    <3>4. h = 1 + a
      BY <3>3
    <3> QED
      BY <3>2, <3>4 DEF h
  <2>8. v \in AllTrees /\ AllTight(v) /\ v.height = 1 + a
    <3>1. /\ v \in AllTrees /\ AllTight(v) /\ v.height \in {1 + s.right.height, 1 + r.right.height}
          /\ v.height > r.right.height
      BY <2>1, <2>2, <2>3, <2>4, <2>6, MadeHeight
    <3> QED
      BY <2>1, <2>3, <2>6, <3>1
  <2> HIDE DEF u, v, a, s
  <2>9. u.height - v.height = 0
    BY <2>1, <2>7, <2>8
  <2>10. R \in AllTrees /\ AllTight(R) /\ R.height \in {1 + u.height, 1 + v.height}
    BY <2>3, <2>7, <2>8, <2>9, MadeHeight
  <2>11. Highest(l, r) = a + 2
    BY <1>1, <1>2, <1>6, <2>1, <2>2, <2>5 DEF Highest
  <2>12. R = Rebalance(n)
    BY <1>6 DEF RotatedRightLeft, u, v, l, r, s
  <2> HIDE DEF R
  <2>13. R.height = Highest(l, r)
    BY <2>1, <2>7, <2>8, <2>10, <2>11
  <2> QED
    BY <1>1, <1>6, <2>10, <2>12, <2>13
<1>7. CASE bf \in {-1, 0, 1} /\ Rebalance(n) = Made(n.key, n.offsets, l, r)
  BY <1>1, <1>7, MadeIs
<1>8. \/ <1>3!1 \/ <1>4!1 \/ <1>5!1 \/ <1>6!1 \/ <1>7!1
  BY RebalanceIs DEF l, r
<1> HIDE DEF Result
<1> QED
  BY <1>3, <1>4, <1>5, <1>6, <1>7, <1>8

\* Rebalance makes a tree of any node, and leaves what is filed in it where it is.
LEMMA RebalanceTyped ==
  ASSUME NEW n \in Nodes(AllTrees)
  PROVE  Rebalance(n) \in Nodes(AllTrees)
<1> DEFINE l == n.left
           r == n.right
<1>1. /\ n.key \in Keys /\ n.offsets \in Seq(Offsets) /\ l \in AllTrees /\ r \in AllTrees
  BY NodeIs
<1>2. \A a \in Keys, b \in Seq(Offsets), t, u \in AllTrees :
        Made(a, b, t, u) \in Nodes(AllTrees) /\ Made(a, b, t, u) \in AllTrees
  BY MadeIs
<1>3. \A t \in AllTrees : t # Nil => /\ t.key \in Keys /\ t.offsets \in Seq(Offsets)
                                     /\ t.left \in AllTrees /\ t.right \in AllTrees
  BY Parts
<1>4. l # Nil => RotatedRight(n) \in Nodes(AllTrees)
  BY <1>1, <1>2, <1>3 DEF RotatedRight
<1>5. l # Nil /\ l.right # Nil => RotatedLeftRight(n) \in Nodes(AllTrees)
  <2> SUFFICES ASSUME l # Nil, l.right # Nil
               PROVE  RotatedLeftRight(n) \in Nodes(AllTrees)
    OBVIOUS
  <2> DEFINE s == l.right
             u == Made(l.key, l.offsets, l.left, s.left)
             v == Made(n.key, n.offsets, s.right, r)
  <2>1. /\ s \in AllTrees /\ s # Nil
        /\ l.key \in Keys /\ l.offsets \in Seq(Offsets) /\ l.left \in AllTrees
    BY <1>1, <1>3
  <2>2. /\ s.key \in Keys /\ s.offsets \in Seq(Offsets) /\ s.left \in AllTrees /\ s.right \in AllTrees
    BY <1>3, <2>1
  <2>3. u \in AllTrees /\ v \in AllTrees
    BY <1>1, <1>2, <2>1, <2>2
  <2>4. RotatedLeftRight(n) = Made(s.key, s.offsets, u, v)
    BY DEF RotatedLeftRight
  <2> HIDE DEF u, v, s
  <2> QED
    BY <1>2, <2>2, <2>3, <2>4
<1>6. r # Nil => RotatedLeft(n) \in Nodes(AllTrees)
  BY <1>1, <1>2, <1>3 DEF RotatedLeft
<1>7. r # Nil /\ r.left # Nil => RotatedRightLeft(n) \in Nodes(AllTrees)
  <2> SUFFICES ASSUME r # Nil, r.left # Nil
               PROVE  RotatedRightLeft(n) \in Nodes(AllTrees)
    OBVIOUS
  <2> DEFINE s == r.left
             u == Made(n.key, n.offsets, l, s.left)
             v == Made(r.key, r.offsets, s.right, r.right)
  <2>1. /\ s \in AllTrees /\ s # Nil
        /\ r.key \in Keys /\ r.offsets \in Seq(Offsets) /\ r.right \in AllTrees
    BY <1>1, <1>3
  <2>2. /\ s.key \in Keys /\ s.offsets \in Seq(Offsets) /\ s.left \in AllTrees /\ s.right \in AllTrees
    BY <1>3, <2>1
  <2>3. u \in AllTrees /\ v \in AllTrees
    BY <1>1, <1>2, <2>1, <2>2
  <2>4. RotatedRightLeft(n) = Made(s.key, s.offsets, u, v)
    BY DEF RotatedRightLeft
  <2> HIDE DEF u, v, s
  <2> QED
    BY <1>2, <2>2, <2>3, <2>4
<1>8. Made(n.key, n.offsets, l, r) \in Nodes(AllTrees)
  BY <1>1, <1>2
<1> QED
  BY <1>4, <1>5, <1>6, <1>7, <1>8, RebalanceIs

LEMMA RebalanceKeeps ==
  ASSUME NEW n \in Nodes(AllTrees), Search(n.left), Search(n.right),
         Fits(n.key, n.offsets, n.left, n.right)
  PROVE  /\ Search(Rebalance(n))
         /\ Filed(Rebalance(n)) =
              Filed(n.left) \cup FiledAt(n.key, n.offsets) \cup Filed(n.right)
<1> DEFINE m == Made(n.key, n.offsets, n.left, n.right)
<1>1. Search(m) /\ Filed(m) = Filed(n.left) \cup FiledAt(n.key, n.offsets) \cup Filed(n.right)
  BY NodeIs, MadeIs
<1> HIDE DEF m
<1>2. CASE n.left # Nil /\ Rebalance(n) = RotatedRight(n)
  BY <1>2, RightKeeps
<1>3. CASE n.left # Nil /\ n.left.right # Nil /\ Rebalance(n) = RotatedLeftRight(n)
  BY <1>3, DoubleKeeps
<1>4. CASE n.right # Nil /\ Rebalance(n) = RotatedLeft(n)
  BY <1>4, LeftKeeps
<1>5. CASE n.right # Nil /\ n.right.left # Nil /\ Rebalance(n) = RotatedRightLeft(n)
  BY <1>5, DoubleKeeps
<1>6. CASE Rebalance(n) = m
  BY <1>1, <1>6
<1> QED
  BY <1>2, <1>3, <1>4, <1>5, <1>6, RebalanceIs DEF m

------------------------------------------------------------------------------
(* Levels *)

\* A tree in order has no more levels than keys.
KeysOf(t) == {e[1] : e \in Filed(t)}

LEMMA KeysOfNode ==
  ASSUME NEW n \in Nodes(AllTrees), Sorted(n)
  PROVE  /\ KeysOf(n) = KeysOf(n.left) \cup {n.key} \cup KeysOf(n.right)
         /\ n.key \notin KeysOf(n.left) /\ n.key \notin KeysOf(n.right)
<1> DEFINE at == FiledAt(n.key, n.offsets)
<1>1. Filed(n) = Filed(n.left) \cup at \cup Filed(n.right)
  BY OfNode
<1>2. Apart(n.key, n.offsets, n.left, n.right)
  BY OfNode
<1>3. n.key \in Keys /\ n.key \in Int /\ n.offsets \in Seq(Offsets) /\ n.offsets # <<>>
  BY <1>2, NodeIs, KeysAssumption DEF Apart
<1>4. {e[1] : e \in at} = {n.key}
  BY <1>3, FiledKeys
<1> HIDE DEF at
<1>5. KeysOf(n) = KeysOf(n.left) \cup {n.key} \cup KeysOf(n.right)
  BY <1>1, <1>4 DEF KeysOf
<1>6. n.left \in AllTrees /\ n.right \in AllTrees
  BY NodeIs
<1>7. n.key \notin KeysOf(n.left) /\ n.key \notin KeysOf(n.right)
  BY <1>2, <1>3, <1>6, FiledKeys DEF Apart, KeysOf
<1> QED
  BY <1>5, <1>7

LEMMA SortedTreesAreTrees ==
  ASSUME NEW tree \in AllTrees, Sorted(tree)
  PROVE  tree \in Trees
<1> DEFINE P == {t \in AllTrees : Sorted(t) => t \in TreesOf[Cardinality(KeysOf(t))]}
<1>1. ASSUME NEW t \in AllTrees
      PROVE  /\ KeysOf(t) \subseteq Keys /\ IsFiniteSet(KeysOf(t))
             /\ Cardinality(KeysOf(t)) \in Nat /\ Cardinality(KeysOf(t)) <= Cardinality(Keys)
  <2>1. KeysOf(t) \subseteq Keys
    BY FiledKeys DEF KeysOf
  <2>2. IsFiniteSet(Keys)
    BY KeysAssumption
  <2>3. IsFiniteSet(KeysOf(t)) /\ Cardinality(KeysOf(t)) <= Cardinality(Keys)
    BY <2>1, <2>2, FS_Subset
  <2> QED
    BY <2>1, <2>3, FS_CardinalityType
<1>2. Nil \in P
  <2>1. KeysOf(Nil) = {}
    BY OfNil DEF KeysOf
  <2>2. Cardinality(KeysOf(Nil)) = 0
    BY <2>1, FS_EmptySet
  <2> QED
    BY <2>2, Levels, AllTreesAre
<1>3. ASSUME NEW n \in AllTrees, n # Nil, n.left \in P, n.right \in P, Sorted(n)
      PROVE  n \in TreesOf[Cardinality(KeysOf(n))]
  <2>1. n \in Nodes(AllTrees)
    BY <1>3, AllTreesAre
  <2>2. Sorted(n.left) /\ Sorted(n.right)
    BY <1>3, <2>1, OfNode
  <2> DEFINE S == KeysOf(n) \ {n.key}
             d == Cardinality(S)
  <2>3. KeysOf(n.left) \subseteq S /\ KeysOf(n.right) \subseteq S /\ n.key \in KeysOf(n)
    BY <1>3, <2>1, KeysOfNode
  <2>4. IsFiniteSet(KeysOf(n))
    BY <1>1
  <2>5. IsFiniteSet(S) /\ d = Cardinality(KeysOf(n)) - 1
    BY <2>3, <2>4, FS_RemoveElement
  <2>6. d \in Nat
    BY <2>5, FS_CardinalityType
  <2>7. ASSUME NEW t \in P, Sorted(t), KeysOf(t) \subseteq S
        PROVE  t \in TreesOf[d]
    <3>1. Cardinality(KeysOf(t)) \in Nat /\ t \in TreesOf[Cardinality(KeysOf(t))]
      BY <1>1, <2>7
    <3>2. Cardinality(KeysOf(t)) <= d
      BY <2>5, <2>7, FS_Subset
    <3> HIDE DEF d
    <3> QED
      BY <2>6, <3>1, <3>2, TreesGrow
  <2> HIDE DEF P, S
  <2>8. n.left \in TreesOf[d] /\ n.right \in TreesOf[d]
    BY <1>3, <2>2, <2>3, <2>7
  <2> HIDE DEF d
  <2>9. n \in Nodes(TreesOf[d])
    BY <2>1, <2>8, NodeIs DEF Nodes
  <2>10. n \in TreesOf[d + 1]
    BY <2>6, <2>9, Levels
  <2>11. d + 1 = Cardinality(KeysOf(n))
    BY <1>1, <1>3, <2>5
  <2> QED
    BY <2>10, <2>11
<1>4. \A n \in AllTrees : n # Nil /\ n.left \in P /\ n.right \in P => n \in P
  BY <1>3
<1> HIDE DEF P
<1>5. AllTrees \subseteq P
  BY <1>2, <1>4, TreesLayered, TreeInduction DEF AllTrees
<1>6. tree \in TreesOf[Cardinality(KeysOf(tree))]
  BY <1>5 DEF P
<1>7. Cardinality(Keys) \in Nat
  BY KeysAssumption, FS_CardinalityType
<1> QED
  BY <1>1, <1>6, <1>7, TreesGrow DEF Trees

LEMMA SearchTreesAreTrees ==
  ASSUME NEW tree \in AllTrees, Search(tree)
  PROVE  tree \in Trees
BY SearchIsSorted, SortedTreesAreTrees

\* The parts of a tree of so many levels are trees of so many levels.
LEMMA InTrees ==
  /\ Nil \in Trees /\ Trees \subseteq AllTrees
  /\ \A n \in Trees : n # Nil => n.left \in Trees /\ n.right \in Trees
<1>1. Cardinality(Keys) \in Nat
  BY KeysAssumption, FS_CardinalityType
<1> QED
  BY <1>1, TreesLayered, Subtrees DEF Trees, AllTrees, AllOf, Layered

------------------------------------------------------------------------------
(* Insertion *)

\* A recursion over the trees that never leaves R has a solution.
LEMMA TreeFoldExists ==
  ASSUME NEW R, NEW base \in R, NEW step,
         \A n \in AllTrees, a, b \in R : n # Nil => step[<<n, a, b>>] \in R
  PROVE  \E f : IsFold(f, Trees, Nil, R, base, step)
<1> DEFINE e == Cardinality(Keys)
<1>1. e \in Nat
  BY KeysAssumption, FS_CardinalityType
<1>2. Layered(TreesOf, Nil)
  BY TreesLayered
<1>3. \A n \in AllOf(TreesOf), a, b \in R : n # Nil => step[<<n, a, b>>] \in R
  BY DEF AllTrees
<1> HIDE DEF e
<1>4. \E f : IsFold(f, TreesOf[e], Nil, R, base, step)
  BY <1>1, <1>2, <1>3, FoldExistsTo
<1> QED
  BY <1>4 DEF e, Trees

\* The recursion of AvlInsert.
LEMMA InsertIs ==
  ASSUME NEW key \in Keys, NEW offset \in Offsets, NEW n \in Trees
  PROVE  AvlInsert(n, key, offset) =
           IF n = Nil
             THEN [key |-> key, offsets |-> <<offset>>, left |-> Nil, right |-> Nil, height |-> 1]
           ELSE IF key < n.key
             THEN Rebalance([n EXCEPT !.left = AvlInsert(n.left, key, offset)])
           ELSE IF key > n.key
             THEN Rebalance([n EXCEPT !.right = AvlInsert(n.right, key, offset)])
           ELSE IF offset \in ToSet(n.offsets) THEN n
           ELSE [n EXCEPT !.offsets = Append(@, offset)]
<1> DEFINE base == [key |-> key, offsets |-> <<offset>>, left |-> Nil, right |-> Nil, height |-> 1]
           After(m, a, b) ==
             IF key < m.key THEN Rebalance([m EXCEPT !.left = a])
             ELSE IF key > m.key THEN Rebalance([m EXCEPT !.right = b])
             ELSE IF offset \in ToSet(m.offsets) THEN m
             ELSE [m EXCEPT !.offsets = Append(@, offset)]
           step == [q \in AllTrees \X AllTrees \X AllTrees |-> After(q[1], q[2], q[3])]
           inserted[m \in Trees] ==
             IF m = Nil THEN base
             ELSE IF key < m.key THEN Rebalance([m EXCEPT !.left = inserted[@]])
             ELSE IF key > m.key THEN Rebalance([m EXCEPT !.right = inserted[@]])
             ELSE IF offset \in ToSet(m.offsets) THEN m
             ELSE [m EXCEPT !.offsets = Append(@, offset)]
<1>1. base \in AllTrees
  <2>1. base \in Nodes(AllTrees)
    BY AllTreesAre DEF Nodes
  <2> QED
    BY <2>1, AllTreesAre
<1>2. \A m \in AllTrees, a, b \in AllTrees : m # Nil => After(m, a, b) \in AllTrees
  <2> SUFFICES ASSUME NEW m \in AllTrees, NEW a \in AllTrees, NEW b \in AllTrees, m # Nil
               PROVE  After(m, a, b) \in AllTrees
    OBVIOUS
  <2>1. m \in Nodes(AllTrees) /\ m.offsets \in Seq(Offsets)
    BY Parts
  <2>2. Rebalance([m EXCEPT !.left = a]) \in AllTrees
    BY <2>1, WithLeft, RebalanceTyped, AllTreesAre
  <2>3. Rebalance([m EXCEPT !.right = b]) \in AllTrees
    BY <2>1, WithRight, RebalanceTyped, AllTreesAre
  <2>4. [m EXCEPT !.offsets = Append(@, offset)] \in AllTrees
    <3> DEFINE more == Append(m.offsets, offset)
    <3>1. more \in Seq(Offsets)
      BY <2>1
    <3> HIDE DEF more
    <3>2. [m EXCEPT !.offsets = more] \in Nodes(AllTrees)
      BY <2>1, <3>1 DEF Nodes
    <3> QED
      BY <3>2, AllTreesAre DEF more
  <2> QED
    BY <2>2, <2>3, <2>4
<1> HIDE DEF After
<1>3. \A m \in AllTrees, a, b \in AllTrees : step[<<m, a, b>>] = After(m, a, b)
  OBVIOUS
<1> HIDE DEF step, base
<1>4. \A m \in AllTrees, a, b \in AllTrees : m # Nil => step[<<m, a, b>>] \in AllTrees
  BY <1>2, <1>3
<1>5. PICK f : IsFold(f, Trees, Nil, AllTrees, base, step)
  BY <1>1, <1>4, TreeFoldExists
<1>6. ASSUME NEW m \in Trees
      PROVE  f[m] = IF m = Nil THEN base ELSE After(m, f[m.left], f[m.right])
  <2>1. m # Nil => /\ m \in AllTrees /\ f[m.left] \in AllTrees /\ f[m.right] \in AllTrees
                   /\ f[m] = step[<<m, f[m.left], f[m.right]>>]
    BY <1>5, InTrees DEF IsFold
  <2>2. f[Nil] = base
    BY <1>5, InTrees DEF IsFold
  <2> QED
    BY <1>3, <2>1, <2>2
<1>7. f = [m \in Trees |-> f[m]]
  BY <1>5 DEF IsFold
<1>8. f = [m \in Trees |->
             IF m = Nil THEN base
             ELSE IF key < m.key THEN Rebalance([m EXCEPT !.left = f[@]])
             ELSE IF key > m.key THEN Rebalance([m EXCEPT !.right = f[@]])
             ELSE IF offset \in ToSet(m.offsets) THEN m
             ELSE [m EXCEPT !.offsets = Append(@, offset)]]
  BY <1>6, <1>7, Zenon DEF After
<1>9. inserted = [m \in Trees |->
             IF m = Nil THEN base
             ELSE IF key < m.key THEN Rebalance([m EXCEPT !.left = inserted[@]])
             ELSE IF key > m.key THEN Rebalance([m EXCEPT !.right = inserted[@]])
             ELSE IF offset \in ToSet(m.offsets) THEN m
             ELSE [m EXCEPT !.offsets = Append(@, offset)]]
  BY <1>8, Zenon DEF base
<1>10. \A m \in Trees : AvlInsert(m, key, offset) = inserted[m]
  BY DEF AvlInsert, base
<1> HIDE DEF inserted
<1>11. inserted[n] = IF n = Nil THEN base
             ELSE IF key < n.key THEN Rebalance([n EXCEPT !.left = inserted[n.left]])
             ELSE IF key > n.key THEN Rebalance([n EXCEPT !.right = inserted[n.right]])
             ELSE IF offset \in ToSet(n.offsets) THEN n
             ELSE [n EXCEPT !.offsets = Append(@, offset)]
  BY <1>9
<1>12. n # Nil => n.left \in Trees /\ n.right \in Trees
  BY InTrees
<1> QED
  BY <1>10, <1>11, <1>12 DEF base

\* The height after a rebalancing, when a subtree was a level higher or lower before:
\* a and b are the heights of the subtrees, a2 what a became.
LEMMA HeightAfter ==
  ASSUME NEW a \in Nat, NEW b \in Nat, NEW a2 \in Nat, NEW hi \in Nat, NEW high \in Nat,
         NEW old \in Nat, NEW new \in Nat,
         a - b \in {-1, 0, 1}, hi = (IF a > b THEN a ELSE b), old = 1 + hi,
         a2 - a \in {-1, 0, 1}, high = (IF a2 > b THEN a2 ELSE b),
         new \in {high, 1 + high}, a2 - b \in {-1, 0, 1} => new = 1 + high
  PROVE  /\ a2 - b \in -2..2 /\ b - a2 \in -2..2
         /\ a2 - a \in {0, 1} => new - old \in {0, 1}
         /\ a2 - a \in {-1, 0} => new - old \in {-1, 0}
OBVIOUS

\* A subtree is replaced by one that has kept to its side of the key and is a level
\* higher or lower at most, and rebalance sees to the node: so is the tree.
LEMMA LeftReplaced ==
  ASSUME NEW t \in AllTrees, t # Nil, Search(t), AllTight(t),
         NEW u \in AllTrees, Search(u), AllTight(u), \A e \in Filed(u) : e[1] < t.key,
         u.height - t.left.height \in {-1, 0, 1}
  PROVE  LET R == Rebalance([t EXCEPT !.left = u])
         IN  /\ R \in AllTrees /\ Search(R) /\ AllTight(R)
             /\ Filed(R) = Filed(u) \cup FiledAt(t.key, t.offsets) \cup Filed(t.right)
             /\ u.height - t.left.height \in {0, 1} => R.height - t.height \in {0, 1}
             /\ u.height - t.left.height \in {-1, 0} => R.height - t.height \in {-1, 0}
<1> DEFINE n == [t EXCEPT !.left = u]
           R == Rebalance(n)
           r == t.right
<1>1. /\ t \in Nodes(AllTrees) /\ t.left \in AllTrees /\ r \in AllTrees
      /\ t.left.height \in Nat /\ r.height \in Nat /\ t.height \in Nat /\ u.height \in Nat
  BY Parts, HeightIs
<1>2. /\ n \in Nodes(AllTrees) /\ n.key = t.key /\ n.offsets = t.offsets
      /\ n.left = u /\ n.right = r
  BY <1>1, WithLeft
<1> HIDE DEF n
<1>3. /\ Search(r) /\ AllTight(r) /\ Fits(t.key, t.offsets, t.left, r) /\ Tight(t)
  BY <1>1, OfNode
<1>4. Fits(n.key, n.offsets, n.left, n.right)
  BY <1>2, <1>3 DEF Fits
<1>5. /\ Search(R)
      /\ Filed(R) = Filed(u) \cup FiledAt(t.key, t.offsets) \cup Filed(r)
  BY <1>2, <1>3, <1>4, RebalanceKeeps
<1> DEFINE a == t.left.height
           b == r.height
           a2 == u.height
           old == t.height
           hi == IF a > b THEN a ELSE b
           high == IF a2 > b THEN a2 ELSE b
<1>6. old = 1 + hi /\ a - b \in {-1, 0, 1}
  BY <1>3 DEF Tight
<1>7. a2 - b \in -2..2
  <2>1. a \in Nat /\ b \in Nat /\ a2 \in Nat /\ a2 - a \in {-1, 0, 1}
    BY <1>1
  <2> HIDE DEF a, b, a2
  <2> QED
    BY <1>6, <2>1
<1>8. R \in AllTrees /\ AllTight(R)
      /\ R.height \in {high, 1 + high} /\ (a2 - b \in {-1, 0, 1} => R.height = 1 + high)
  BY <1>2, <1>3, <1>7, RebalanceGood DEF Highest
<1> HIDE DEF R
<1>9. R.height \in Nat
  BY <1>8, HeightIs
<1> DEFINE new == R.height
<1>10. /\ a2 - a \in {0, 1} => new - old \in {0, 1}
       /\ a2 - a \in {-1, 0} => new - old \in {-1, 0}
  <2>1. /\ a \in Nat /\ b \in Nat /\ a2 \in Nat /\ old \in Nat /\ new \in Nat
        /\ a2 - a \in {-1, 0, 1}
    BY <1>1, <1>9
  <2>2. new \in {high, 1 + high} /\ (a2 - b \in {-1, 0, 1} => new = 1 + high)
    BY <1>8
  <2> HIDE DEF a, b, a2, old, new
  <2>3. hi \in Nat /\ high \in Nat
    BY <2>1
  <2> HIDE DEF hi, high
  <2>4. hi = (IF a > b THEN a ELSE b) /\ high = (IF a2 > b THEN a2 ELSE b)
    BY DEF hi, high
  <2> QED
    BY <1>6, <2>1, <2>2, <2>3, <2>4, HeightAfter
<1> QED
  BY <1>5, <1>8, <1>10 DEF R, n

\* What matters for the height is the heights of the subtrees alone.
LEMMA RightHeights ==
  ASSUME NEW t \in AllTrees, t # Nil, AllTight(t),
         NEW n \in Nodes(AllTrees), n.left = t.left, AllTight(n.right),
         n.right.height - t.right.height \in {-1, 0, 1}
  PROVE  LET R == Rebalance(n)
         IN  /\ R \in AllTrees /\ AllTight(R)
             /\ n.right.height - t.right.height \in {0, 1} => R.height - t.height \in {0, 1}
             /\ n.right.height - t.right.height \in {-1, 0} => R.height - t.height \in {-1, 0}
<1> DEFINE R == Rebalance(n)
           l == t.left
           u == n.right
<1>1. /\ t \in Nodes(AllTrees) /\ l \in AllTrees /\ u \in AllTrees
      /\ t.right.height \in Nat /\ l.height \in Nat /\ t.height \in Nat /\ u.height \in Nat
  BY Parts, NodeIs, HeightIs
<1>2. AllTight(l) /\ Tight(t)
  BY <1>1, OfNode
<1> DEFINE a == t.right.height
           b == l.height
           a2 == u.height
           old == t.height
           hi == IF a > b THEN a ELSE b
           high == IF a2 > b THEN a2 ELSE b
<1>3. old = 1 + hi /\ a - b \in {-1, 0, 1}
  <2>1. a \in Nat /\ b \in Nat
    BY <1>1
  <2>2. old = 1 + (IF b > a THEN b ELSE a) /\ b - a \in {-1, 0, 1}
    BY <1>2 DEF Tight
  <2> HIDE DEF a, b, old
  <2> QED
    BY <2>1, <2>2
<1>4. b - a2 \in -2..2
  <2>1. a \in Nat /\ b \in Nat /\ a2 \in Nat /\ a2 - a \in {-1, 0, 1}
    BY <1>1
  <2> HIDE DEF a, b, a2
  <2> QED
    BY <1>3, <2>1
<1>5. R \in AllTrees /\ AllTight(R)
      /\ R.height \in {high, 1 + high} /\ (a2 - b \in {-1, 0, 1} => R.height = 1 + high)
  <2>1. /\ R \in AllTrees /\ AllTight(R)
        /\ R.height \in {Highest(l, u), 1 + Highest(l, u)}
        /\ b - a2 \in {-1, 0, 1} => R.height = 1 + Highest(l, u)
    BY <1>2, <1>4, RebalanceGood
  <2>2. Highest(l, u) = IF b > a2 THEN b ELSE a2
    BY DEF Highest
  <2>3. a2 \in Nat /\ b \in Nat
    BY <1>1
  <2> HIDE DEF a2, b, R
  <2>4. Highest(l, u) = high
    BY <2>2, <2>3
  <2> QED
    BY <2>1, <2>3, <2>4
<1> HIDE DEF R
<1>6. R.height \in Nat
  BY <1>5, HeightIs
<1> DEFINE new == R.height
<1>7. /\ a2 - a \in {0, 1} => new - old \in {0, 1}
      /\ a2 - a \in {-1, 0} => new - old \in {-1, 0}
  <2>1. /\ a \in Nat /\ b \in Nat /\ a2 \in Nat /\ old \in Nat /\ new \in Nat
        /\ a2 - a \in {-1, 0, 1}
    BY <1>1, <1>6
  <2>2. new \in {high, 1 + high} /\ (a2 - b \in {-1, 0, 1} => new = 1 + high)
    BY <1>5
  <2> HIDE DEF a, b, a2, old, new
  <2>3. hi \in Nat /\ high \in Nat
    BY <2>1
  <2> HIDE DEF hi, high
  <2>4. hi = (IF a > b THEN a ELSE b) /\ high = (IF a2 > b THEN a2 ELSE b)
    BY DEF hi, high
  <2> QED
    BY <1>3, <2>1, <2>2, <2>3, <2>4, HeightAfter
<1> QED
  BY <1>5, <1>7 DEF R

LEMMA RightReplaced ==
  ASSUME NEW t \in AllTrees, t # Nil, Search(t), AllTight(t),
         NEW u \in AllTrees, Search(u), AllTight(u), \A e \in Filed(u) : e[1] > t.key,
         u.height - t.right.height \in {-1, 0, 1}
  PROVE  LET R == Rebalance([t EXCEPT !.right = u])
         IN  /\ R \in AllTrees /\ Search(R) /\ AllTight(R)
             /\ Filed(R) = Filed(t.left) \cup FiledAt(t.key, t.offsets) \cup Filed(u)
             /\ u.height - t.right.height \in {0, 1} => R.height - t.height \in {0, 1}
             /\ u.height - t.right.height \in {-1, 0} => R.height - t.height \in {-1, 0}
<1> DEFINE n == [t EXCEPT !.right = u]
           R == Rebalance(n)
<1>1. t \in Nodes(AllTrees)
  BY Parts
<1>2. /\ n \in Nodes(AllTrees) /\ n.key = t.key /\ n.offsets = t.offsets
      /\ n.left = t.left /\ n.right = u
  BY <1>1, WithRight
<1> HIDE DEF n
<1>3. Search(t.left) /\ Fits(t.key, t.offsets, t.left, t.right)
  BY <1>1, OfNode
<1>4. Fits(n.key, n.offsets, n.left, n.right)
  BY <1>2, <1>3 DEF Fits
<1>5. /\ Search(R)
      /\ Filed(R) = Filed(t.left) \cup FiledAt(t.key, t.offsets) \cup Filed(u)
  BY <1>2, <1>3, <1>4, RebalanceKeeps
<1>6. /\ R \in AllTrees /\ AllTight(R)
      /\ u.height - t.right.height \in {0, 1} => R.height - t.height \in {0, 1}
      /\ u.height - t.right.height \in {-1, 0} => R.height - t.height \in {-1, 0}
  BY <1>2, RightHeights
<1> QED
  BY <1>5, <1>6 DEF n

\* The offsets of a node are replaced by others, each once.
LEMMA OffsetsReplaced ==
  ASSUME NEW t \in AllTrees, t # Nil, Search(t), AllTight(t),
         NEW offsets \in Seq(Offsets), offsets # <<>>, IsInjective(offsets)
  PROVE  LET R == [t EXCEPT !.offsets = offsets]
         IN  /\ R \in AllTrees /\ Search(R) /\ AllTight(R) /\ R.height = t.height
             /\ Filed(R) = Filed(t.left) \cup FiledAt(t.key, offsets) \cup Filed(t.right)
<1> DEFINE R == [t EXCEPT !.offsets = offsets]
<1>1. t \in Nodes(AllTrees)
  BY Parts
<1>2. /\ R \in Nodes(AllTrees) /\ R.key = t.key /\ R.offsets = offsets
      /\ R.left = t.left /\ R.right = t.right /\ R.height = t.height
  BY <1>1 DEF Nodes
<1> HIDE DEF R
<1>3. /\ Search(t.left) /\ Search(t.right) /\ AllTight(t.left) /\ AllTight(t.right)
      /\ Fits(t.key, t.offsets, t.left, t.right) /\ Tight(t)
  BY <1>1, OfNode
<1>4. Fits(R.key, R.offsets, R.left, R.right) /\ Tight(R)
  BY <1>2, <1>3 DEF Fits, Tight
<1> QED
  BY <1>2, <1>3, <1>4, OfNode, AllTreesAre DEF R

LEMMA AppendedIs ==
  ASSUME NEW offsets \in Seq(Offsets), NEW o \in Offsets
  PROVE  LET more == Append(offsets, o)
         IN  /\ more \in Seq(Offsets) /\ more # <<>>
             /\ ToSet(more) = ToSet(offsets) \cup {o}
             /\ IsInjective(offsets) /\ o \notin ToSet(offsets) => IsInjective(more)
<1> DEFINE more == Append(offsets, o)
           L == Len(offsets)
<1>1. /\ more \in Seq(Offsets) /\ Len(more) = L + 1 /\ L \in Nat
      /\ DOMAIN more = 1..(L + 1) /\ DOMAIN offsets = 1..L
      /\ more[L + 1] = o /\ \A i \in 1..L : more[i] = offsets[i]
  OBVIOUS
<1> HIDE DEF more, L
<1>2. more # <<>>
  BY <1>1
<1>3. ToSet(more) = ToSet(offsets) \cup {o}
  <2>1. ASSUME NEW x \in ToSet(more)
        PROVE  x \in ToSet(offsets) \cup {o}
    <3>1. PICK i \in 1..(L + 1) : x = more[i]
      BY <1>1 DEF ToSet
    <3>2. i = L + 1 \/ i \in 1..L
      BY <1>1
    <3> QED
      BY <1>1, <3>1, <3>2 DEF ToSet
  <2>2. ASSUME NEW x \in ToSet(offsets)
        PROVE  x \in ToSet(more)
    <3>1. PICK i \in 1..L : x = offsets[i]
      BY <1>1 DEF ToSet
    <3>2. i \in 1..(L + 1) /\ x = more[i]
      BY <1>1, <3>1
    <3> QED
      BY <1>1, <3>2 DEF ToSet
  <2>3. o \in ToSet(more)
    BY <1>1 DEF ToSet
  <2> QED
    BY <2>1, <2>2, <2>3
<1>4. ASSUME IsInjective(offsets), o \notin ToSet(offsets)
      PROVE  IsInjective(more)
  <2>1. \A i \in 1..L : offsets[i] # o
    BY <1>1, <1>4 DEF ToSet
  <2>2. \A i, j \in 1..L : offsets[i] = offsets[j] => i = j
    BY <1>1, <1>4 DEF IsInjective
  <2> SUFFICES ASSUME NEW i \in 1..(L + 1), NEW j \in 1..(L + 1), more[i] = more[j]
               PROVE  i = j
    BY <1>1 DEF IsInjective
  <2>3. (i = L + 1 \/ i \in 1..L) /\ (j = L + 1 \/ j \in 1..L)
    BY <1>1
  <2> QED
    BY <1>1, <2>1, <2>2, <2>3
<1> QED
  BY <1>1, <1>2, <1>3, <1>4 DEF more

\* Insertion files the pair, and no rotation on the way back breaks the tree.
Inserts(t, r, pair) ==
  /\ r \in AllTrees /\ Search(r) /\ AllTight(r)
  /\ Filed(r) = Filed(t) \cup {pair}
  /\ r.height - t.height \in {0, 1}

LEMMA InsertKeeps ==
  ASSUME NEW key \in Keys, NEW offset \in Offsets, NEW tree \in AllTrees,
         Search(tree), AllTight(tree)
  PROVE  Inserts(tree, AvlInsert(tree, key, offset), <<key, offset>>)
<1> DEFINE I(t) == AvlInsert(t, key, offset)
           pair == <<key, offset>>
           P == {t \in AllTrees : Search(t) /\ AllTight(t) => Inserts(t, I(t), pair)}
<1>1. Nil \in P
  <2> DEFINE leaf == Made(key, <<offset>>, Nil, Nil)
  <2>1. I(Nil) = leaf
    BY InTrees, InsertIs DEF Made, Highest, Nil
  <2>2. <<offset>> \in Seq(Offsets) /\ <<offset>> # <<>> /\ IsInjective(<<offset>>)
        /\ ToSet(<<offset>>) = {offset}
    BY DEF IsInjective, ToSet
  <2>3. Fits(key, <<offset>>, Nil, Nil)
    BY <2>2, OfNil DEF Fits
  <2>4. /\ leaf \in AllTrees /\ leaf.height = 1 + Highest(Nil, Nil)
        /\ Filed(leaf) = Filed(Nil) \cup FiledAt(key, <<offset>>) \cup Filed(Nil)
        /\ AllTight(leaf) /\ Search(leaf)
    <3> DEFINE one == <<offset>>
               m == Made(key, one, Nil, Nil)
    <3>1. one \in Seq(Offsets) /\ Fits(key, one, Nil, Nil) /\ Nil \in AllTrees
      BY <2>2, <2>3, OfNil
    <3>2. AllTight(Nil) /\ Search(Nil) /\ Nil.height - Nil.height \in {-1, 0, 1}
      BY OfNil
    <3> HIDE DEF one
    <3>3. /\ m \in AllTrees /\ m.height = 1 + Highest(Nil, Nil)
          /\ Filed(m) = Filed(Nil) \cup FiledAt(key, one) \cup Filed(Nil)
          /\ AllTight(m) <=> AllTight(Nil) /\ AllTight(Nil) /\ Nil.height - Nil.height \in {-1, 0, 1}
          /\ Search(m) <=> Search(Nil) /\ Search(Nil) /\ Fits(key, one, Nil, Nil)
      BY <3>1, MadeIs
    <3> QED
      BY <3>1, <3>2, <3>3 DEF one
  <2>5. FiledAt(key, <<offset>>) = {pair}
    BY <2>2 DEF FiledAt
  <2> HIDE DEF leaf
  <2>6. leaf.height = 1 /\ Nil.height = 0
    BY <2>4 DEF Highest, Nil
  <2>7. Inserts(Nil, leaf, pair)
    BY <2>4, <2>5, <2>6, OfNil DEF Inserts
  <2> QED
    BY <2>1, <2>7, OfNil
<1>2. ASSUME NEW n \in AllTrees, n # Nil, n.left \in P, n.right \in P, Search(n), AllTight(n)
      PROVE  Inserts(n, I(n), pair)
  <2> DEFINE l == n.left
             r == n.right
             at == FiledAt(n.key, n.offsets)
  <2>1. /\ n \in Nodes(AllTrees) /\ n.key \in Keys /\ n.offsets \in Seq(Offsets)
        /\ l \in AllTrees /\ r \in AllTrees
        /\ n.height \in Nat /\ l.height \in Nat /\ r.height \in Nat
    BY <1>2, Parts
  <2>2. /\ Search(l) /\ Search(r) /\ AllTight(l) /\ AllTight(r) /\ Fits(n.key, n.offsets, l, r)
        /\ Filed(n) = Filed(l) \cup at \cup Filed(r)
    BY <1>2, <2>1, OfNode
  <2>3. n \in Trees
    BY <1>2, SearchTreesAreTrees
  <2>4. key \in Int /\ n.key \in Int
    BY <2>1, KeysAssumption
  <2>5. Inserts(l, I(l), pair) /\ Inserts(r, I(r), pair)
    BY <1>2, <2>2
  <2>6. I(n) = IF key < n.key THEN Rebalance([n EXCEPT !.left = I(l)])
               ELSE IF key > n.key THEN Rebalance([n EXCEPT !.right = I(r)])
               ELSE IF offset \in ToSet(n.offsets) THEN n
               ELSE [n EXCEPT !.offsets = Append(n.offsets, offset)]
    BY <1>2, <2>3, InsertIs
  <2> HIDE DEF I, P, pair, l, r
  <2>7. CASE key < n.key
    <3> DEFINE u == I(l)
    <3>1. \A e \in Filed(u) : e[1] < n.key
      BY <2>2, <2>5, <2>7 DEF Inserts, Fits, pair
    <3>2. u \in AllTrees /\ Search(u) /\ AllTight(u) /\ u.height - l.height \in {0, 1}
      BY <2>5 DEF Inserts
    <3>3. Filed(u) = Filed(l) \cup {pair}
      BY <2>5 DEF Inserts
    <3> HIDE DEF u
    <3> DEFINE R == Rebalance([n EXCEPT !.left = u])
    <3>4. u.height - n.left.height \in {-1, 0, 1} /\ u.height - n.left.height \in {0, 1}
      BY <3>2 DEF l
    <3>5. /\ R \in AllTrees /\ Search(R) /\ AllTight(R) /\ R.height - n.height \in {0, 1}
          /\ Filed(R) = Filed(u) \cup at \cup Filed(r)
      BY <1>2, <3>1, <3>2, <3>4, LeftReplaced DEF r
    <3>6. I(n) = R
      BY <2>6, <2>7 DEF u
    <3> HIDE DEF R
    <3>7. Filed(R) = Filed(n) \cup {pair}
      BY <2>2, <3>3, <3>5
    <3> QED
      BY <3>5, <3>6, <3>7 DEF Inserts
  <2>8. CASE key > n.key
    <3> DEFINE u == I(r)
    <3>1. \A e \in Filed(u) : e[1] > n.key
      BY <2>2, <2>5, <2>8 DEF Inserts, Fits, pair
    <3>2. u \in AllTrees /\ Search(u) /\ AllTight(u) /\ u.height - r.height \in {0, 1}
      BY <2>5 DEF Inserts
    <3>3. Filed(u) = Filed(r) \cup {pair}
      BY <2>5 DEF Inserts
    <3> HIDE DEF u
    <3> DEFINE R == Rebalance([n EXCEPT !.right = u])
    <3>4. u.height - n.right.height \in {-1, 0, 1} /\ u.height - n.right.height \in {0, 1}
      BY <3>2 DEF r
    <3>5. /\ R \in AllTrees /\ Search(R) /\ AllTight(R) /\ R.height - n.height \in {0, 1}
          /\ Filed(R) = Filed(l) \cup at \cup Filed(u)
      BY <1>2, <3>1, <3>2, <3>4, RightReplaced DEF l
    <3>6. I(n) = R
      BY <2>4, <2>6, <2>8 DEF u
    <3> HIDE DEF R
    <3>7. Filed(R) = Filed(n) \cup {pair}
      BY <2>2, <3>3, <3>5
    <3> QED
      BY <3>5, <3>6, <3>7 DEF Inserts
  <2>9. CASE key = n.key /\ offset \in ToSet(n.offsets)
    <3>1. I(n) = n
      BY <2>4, <2>6, <2>9
    <3>2. pair \in at
      BY <2>9 DEF FiledAt, pair
    <3>3. n.height - n.height \in {0, 1}
      BY <2>1
    <3> QED
      BY <1>2, <2>2, <3>1, <3>2, <3>3 DEF Inserts
  <2>10. CASE key = n.key /\ offset \notin ToSet(n.offsets)
    <3> DEFINE more == Append(n.offsets, offset)
               R == [n EXCEPT !.offsets = more]
    <3>1. I(n) = R
      BY <2>4, <2>6, <2>10
    <3>2. /\ more \in Seq(Offsets) /\ more # <<>> /\ IsInjective(more)
          /\ ToSet(more) = ToSet(n.offsets) \cup {offset}
      BY <2>1, <2>2, <2>10, AppendedIs DEF Fits
    <3> HIDE DEF more
    <3>3. /\ R \in AllTrees /\ Search(R) /\ AllTight(R) /\ R.height = n.height
          /\ Filed(R) = Filed(l) \cup FiledAt(n.key, more) \cup Filed(r)
      BY <1>2, <3>2, OffsetsReplaced DEF l, r
    <3> HIDE DEF R
    <3>4. FiledAt(n.key, more) = at \cup {pair}
      BY <2>10, <3>2 DEF FiledAt, pair
    <3>5. R.height - n.height \in {0, 1}
      BY <2>1, <3>3
    <3> QED
      BY <2>2, <3>1, <3>3, <3>4, <3>5 DEF Inserts
  <2> QED
    BY <2>4, <2>7, <2>8, <2>9, <2>10
<1>3. \A n \in AllTrees : n # Nil /\ n.left \in P /\ n.right \in P => n \in P
  BY <1>2
<1> HIDE DEF P
<1>4. AllTrees \subseteq P
  BY <1>1, <1>3, TreesLayered, TreeInduction DEF AllTrees
<1> QED
  BY <1>4 DEF P

------------------------------------------------------------------------------
(* Deletion *)

LEMMA LeastIs ==
  ASSUME NEW n \in Trees, n # Nil
  PROVE  AvlMin(n) = IF n.left = Nil THEN n ELSE AvlMin(n.left)
<1> DEFINE After(m, a) == IF m.left = Nil THEN m ELSE a
           step == [q \in AllTrees \X AllTrees \X AllTrees |-> After(q[1], q[2])]
           least[m \in Trees \ {Nil}] == IF m.left = Nil THEN m ELSE least[m.left]
<1>1. \A m \in AllTrees, a, b \in AllTrees : step[<<m, a, b>>] = After(m, a)
  OBVIOUS
<1>2. \A m \in AllTrees, a, b \in AllTrees : m # Nil => step[<<m, a, b>>] \in AllTrees
  BY <1>1
<1> HIDE DEF step, After
<1>3. PICK f : IsFold(f, Trees, Nil, AllTrees, Nil, step)
  BY <1>2, InTrees, TreeFoldExists
<1> DEFINE g == [m \in Trees \ {Nil} |-> f[m]]
<1>4. ASSUME NEW m \in Trees \ {Nil}
      PROVE  g[m] = IF m.left = Nil THEN m ELSE g[m.left]
  <2>1. /\ m \in AllTrees /\ m.left \in Trees /\ f[m.left] \in AllTrees /\ f[m.right] \in AllTrees
        /\ f[m] = step[<<m, f[m.left], f[m.right]>>]
    BY <1>3, InTrees DEF IsFold
  <2>2. f[m] = After(m, f[m.left])
    BY <1>1, <2>1
  <2> QED
    BY <2>1, <2>2 DEF After
<1>5. g = [m \in Trees \ {Nil} |-> g[m]]
  OBVIOUS
<1> HIDE DEF g
<1>6. g = [m \in Trees \ {Nil} |-> IF m.left = Nil THEN m ELSE g[m.left]]
  BY <1>4, <1>5, Zenon
<1>7. least = [m \in Trees \ {Nil} |-> IF m.left = Nil THEN m ELSE least[m.left]]
  BY <1>6, Zenon
<1>8. \A m \in Trees : AvlMin(m) = least[m]
  BY DEF AvlMin
<1> HIDE DEF least
<1>9. least[n] = IF n.left = Nil THEN n ELSE least[n.left]
  BY <1>7
<1> QED
  BY <1>8, <1>9, InTrees

LEMMA DeleteMinIs ==
  ASSUME NEW n \in Trees, n # Nil
  PROVE  AvlDeleteMin(n) =
           IF n.left = Nil THEN n.right ELSE Rebalance([n EXCEPT !.left = AvlDeleteMin(n.left)])
<1> DEFINE After(m, a) == IF m.left = Nil THEN m.right ELSE Rebalance([m EXCEPT !.left = a])
           step == [q \in AllTrees \X AllTrees \X AllTrees |-> After(q[1], q[2])]
           left[m \in Trees \ {Nil}] ==
             IF m.left = Nil THEN m.right ELSE Rebalance([m EXCEPT !.left = left[@]])
<1>1. ASSUME NEW m \in AllTrees, NEW a \in AllTrees, m # Nil
      PROVE  After(m, a) \in AllTrees
  <2>1. m \in Nodes(AllTrees) /\ m.right \in AllTrees
    BY <1>1, Parts
  <2> QED
    BY <2>1, WithLeft, RebalanceTyped, AllTreesAre
<1> HIDE DEF After
<1>2. \A m \in AllTrees, a, b \in AllTrees : step[<<m, a, b>>] = After(m, a)
  OBVIOUS
<1> HIDE DEF step
<1>3. \A m \in AllTrees, a, b \in AllTrees : m # Nil => step[<<m, a, b>>] \in AllTrees
  BY <1>1, <1>2
<1>4. PICK f : IsFold(f, Trees, Nil, AllTrees, Nil, step)
  BY <1>3, InTrees, TreeFoldExists
<1> DEFINE g == [m \in Trees \ {Nil} |-> f[m]]
<1>5. ASSUME NEW m \in Trees \ {Nil}
      PROVE  g[m] = IF m.left = Nil THEN m.right ELSE Rebalance([m EXCEPT !.left = g[@]])
  <2>1. /\ m \in AllTrees /\ m.left \in Trees /\ f[m.left] \in AllTrees /\ f[m.right] \in AllTrees
        /\ f[m] = step[<<m, f[m.left], f[m.right]>>]
    BY <1>4, InTrees DEF IsFold
  <2>2. f[m] = After(m, f[m.left])
    BY <1>2, <2>1
  <2>3. m.left # Nil => g[m.left] = f[m.left]
    BY <2>1
  <2>4. g[m] = f[m]
    OBVIOUS
  <2> HIDE DEF g
  <2> QED
    BY <2>2, <2>3, <2>4 DEF After
<1>6. g = [m \in Trees \ {Nil} |-> g[m]]
  OBVIOUS
<1> HIDE DEF g
<1>7. g = [m \in Trees \ {Nil} |->
             IF m.left = Nil THEN m.right ELSE Rebalance([m EXCEPT !.left = g[@]])]
  BY <1>5, <1>6, Zenon
<1>8. left = [m \in Trees \ {Nil} |->
             IF m.left = Nil THEN m.right ELSE Rebalance([m EXCEPT !.left = left[@]])]
  BY <1>7, Zenon
<1>9. \A m \in Trees : AvlDeleteMin(m) = left[m]
  BY DEF AvlDeleteMin
<1> HIDE DEF left
<1>10. left[n] = IF n.left = Nil THEN n.right ELSE Rebalance([n EXCEPT !.left = left[n.left]])
  BY <1>8
<1> QED
  BY <1>9, <1>10, InTrees

LEMMA LeastTyped ==
  ASSUME NEW tree \in Trees, tree # Nil
  PROVE  AvlMin(tree) \in Nodes(AllTrees) /\ AvlDeleteMin(tree) \in AllTrees
<1> DEFINE P == {t \in AllTrees : t \in Trees /\ t # Nil =>
                   AvlMin(t) \in Nodes(AllTrees) /\ AvlDeleteMin(t) \in AllTrees}
<1>1. Nil \in P
  BY AllTreesAre
<1>2. ASSUME NEW n \in AllTrees, n # Nil, n.left \in P, n.right \in P, n \in Trees
      PROVE  AvlMin(n) \in Nodes(AllTrees) /\ AvlDeleteMin(n) \in AllTrees
  <2>1. n \in Nodes(AllTrees) /\ n.right \in AllTrees /\ n.left \in Trees
    BY <1>2, Parts, InTrees
  <2>2. CASE n.left = Nil
    BY <1>2, <2>1, <2>2, LeastIs, DeleteMinIs
  <2>3. CASE n.left # Nil
    <3>1. AvlMin(n.left) \in Nodes(AllTrees) /\ AvlDeleteMin(n.left) \in AllTrees
      BY <1>2, <2>1, <2>3
    <3>2. AvlMin(n) = AvlMin(n.left)
      BY <1>2, <2>3, LeastIs
    <3>3. AvlDeleteMin(n) = Rebalance([n EXCEPT !.left = AvlDeleteMin(n.left)])
      BY <1>2, <2>3, DeleteMinIs
    <3>4. Rebalance([n EXCEPT !.left = AvlDeleteMin(n.left)]) \in AllTrees
      BY <2>1, <3>1, WithLeft, RebalanceTyped, AllTreesAre
    <3> QED
      BY <3>1, <3>2, <3>3, <3>4
  <2> QED
    BY <2>2, <2>3
<1>3. \A n \in AllTrees : n # Nil /\ n.left \in P /\ n.right \in P => n \in P
  BY <1>2
<1> HIDE DEF P
<1>4. AllTrees \subseteq P
  BY <1>1, <1>3, TreesLayered, TreeInduction DEF AllTrees
<1> QED
  BY <1>4, InTrees DEF P

\* The least node, and what remains of the tree without it.
LeastOf(t, m, d) ==
  /\ m.key \in Keys /\ m.offsets \in Seq(Offsets) /\ m.offsets # <<>> /\ IsInjective(m.offsets)
  /\ d \in AllTrees /\ Search(d) /\ AllTight(d)
  /\ Filed(t) = FiledAt(m.key, m.offsets) \cup Filed(d)
  /\ \A e \in Filed(d) : e[1] > m.key
  /\ d.height - t.height \in {-1, 0}

LEMMA LeastKeeps ==
  ASSUME NEW tree \in AllTrees, tree # Nil, Search(tree), AllTight(tree)
  PROVE  LeastOf(tree, AvlMin(tree), AvlDeleteMin(tree))
<1> DEFINE P == {t \in AllTrees : t # Nil /\ Search(t) /\ AllTight(t) =>
                   LeastOf(t, AvlMin(t), AvlDeleteMin(t))}
<1>1. Nil \in P
  BY AllTreesAre
<1>2. ASSUME NEW n \in AllTrees, n # Nil, n.left \in P, n.right \in P, Search(n), AllTight(n)
      PROVE  LeastOf(n, AvlMin(n), AvlDeleteMin(n))
  <2> DEFINE l == n.left
             r == n.right
             at == FiledAt(n.key, n.offsets)
  <2>1. /\ n \in Nodes(AllTrees) /\ n.key \in Keys /\ n.offsets \in Seq(Offsets)
        /\ l \in AllTrees /\ r \in AllTrees
        /\ n.height \in Nat /\ l.height \in Nat /\ r.height \in Nat
    BY <1>2, Parts
  <2>2. /\ Search(l) /\ Search(r) /\ AllTight(l) /\ AllTight(r) /\ Fits(n.key, n.offsets, l, r)
        /\ Filed(n) = Filed(l) \cup at \cup Filed(r)
    BY <1>2, <2>1, OfNode
  <2>3. n \in Trees
    BY <1>2, SearchTreesAreTrees
  <2>4. n.key \in Int
    BY <2>1, KeysAssumption
  <2> HIDE DEF P, at
  <2>5. CASE l = Nil
    <3>1. AvlMin(n) = n /\ AvlDeleteMin(n) = r
      BY <1>2, <2>3, <2>5, LeastIs, DeleteMinIs
    <3>2. l.height = 0 /\ Filed(l) = {}
      BY <2>5, OfNil
    <3>3. n.height = r.height + 1
      BY <1>2, <2>1, <3>2, GoodParts
    <3>4. r.height - n.height \in {-1, 0}
      BY <2>1, <3>3
    <3> QED
      BY <2>1, <2>2, <3>1, <3>2, <3>4 DEF LeastOf, Fits, at
  <2>6. CASE l # Nil
    <3> DEFINE m == AvlMin(l)
               d == AvlDeleteMin(l)
               R == Rebalance([n EXCEPT !.left = d])
    <3>1. LeastOf(l, m, d)
      BY <1>2, <2>1, <2>2, <2>6 DEF P
    <3>2. AvlMin(n) = m /\ AvlDeleteMin(n) = R
      BY <1>2, <2>3, <2>6, LeastIs, DeleteMinIs
    <3> HIDE DEF m, d
    <3>3. /\ m.key \in Keys /\ m.key \in Int
          /\ m.offsets \in Seq(Offsets) /\ m.offsets # <<>> /\ IsInjective(m.offsets)
          /\ d \in AllTrees /\ Search(d) /\ AllTight(d)
          /\ Filed(l) = FiledAt(m.key, m.offsets) \cup Filed(d)
          /\ d.height - l.height \in {-1, 0}
      BY <3>1, KeysAssumption DEF LeastOf
    <3>4. m.key < n.key
      <4>1. PICK e \in FiledAt(m.key, m.offsets) : e[1] = m.key
        BY <3>3, FiledKeys
      <4> QED
        BY <2>2, <3>3, <4>1 DEF Fits
    <3>5. \A e \in Filed(d) : e[1] < n.key
      BY <2>2, <3>3 DEF Fits
    <3>6. d.height - l.height \in {-1, 0, 1}
      BY <3>3
    <3>7. /\ R \in AllTrees /\ Search(R) /\ AllTight(R) /\ R.height - n.height \in {-1, 0}
          /\ Filed(R) = Filed(d) \cup at \cup Filed(r)
      BY <1>2, <3>3, <3>5, <3>6, LeftReplaced DEF at
    <3> HIDE DEF R
    <3>8. \A e \in Filed(d) : e[1] > m.key
      BY <3>1 DEF LeastOf
    <3>9. \A e \in at : e[1] > m.key
      BY <2>1, <3>4, FiledKeys DEF at
    <3>10. ASSUME NEW e \in Filed(r)
           PROVE  e[1] > m.key
      <4>1. e[1] > n.key /\ e[1] \in Int
        BY <2>1, <2>2, FiledKeys DEF Fits
      <4> QED
        BY <2>4, <3>3, <3>4, <4>1
    <3>11. \A e \in Filed(R) : e[1] > m.key
      BY <3>7, <3>8, <3>9, <3>10
    <3>12. Filed(n) = FiledAt(m.key, m.offsets) \cup Filed(R)
      BY <2>2, <3>3, <3>7
    <3> QED
      BY <3>2, <3>3, <3>7, <3>11, <3>12 DEF LeastOf
  <2> QED
    BY <2>5, <2>6
<1>3. \A n \in AllTrees : n # Nil /\ n.left \in P /\ n.right \in P => n \in P
  BY <1>2
<1> HIDE DEF P
<1>4. AllTrees \subseteq P
  BY <1>1, <1>3, TreesLayered, TreeInduction DEF AllTrees
<1> QED
  BY <1>4 DEF P

LEMMA RemovedIs ==
  ASSUME NEW offsets \in Seq(Offsets), IsInjective(offsets), NEW o \in Offsets
  PROVE  LET less == RemoveFirst(offsets, o)
         IN  /\ less \in Seq(Offsets) /\ IsInjective(less)
             /\ ToSet(less) = ToSet(offsets) \ {o}
<1> DEFINE L == Len(offsets)
<1>1. L \in Nat /\ DOMAIN offsets = 1..L
  OBVIOUS
<1>2. \A i, j \in 1..L : offsets[i] = offsets[j] => i = j
  BY <1>1 DEF IsInjective
<1>3. CASE \A i \in 1..L : offsets[i] # o
  <2>1. RemoveFirst(offsets, o) = offsets
    BY <1>3 DEF RemoveFirst
  <2>2. o \notin ToSet(offsets)
    BY <1>1, <1>3 DEF ToSet
  <2> QED
    BY <2>1, <2>2
<1>4. ASSUME NEW i \in 1..L, offsets[i] = o
      PROVE  LET less == RemoveFirst(offsets, o)
             IN  /\ less \in Seq(Offsets) /\ IsInjective(less)
                 /\ ToSet(less) = ToSet(offsets) \ {o}
  <2> DEFINE less == RemoveAt(offsets, i)
  <2>1. {k \in 1..L : offsets[k] = o} = {i}
    BY <1>2, <1>4
  <2>2. SelectInSeq(offsets, LAMBDA v : v = o) = i
    <3>1. Min({i}) = i
      BY <1>1, <1>4 DEF Min
    <3> QED
      BY <2>1, <3>1 DEF SelectInSeq
  <2>3. RemoveFirst(offsets, o) = less
    BY <1>4, <2>2 DEF RemoveFirst
  <2>4. /\ less \in Seq(Offsets) /\ Len(less) = L - 1
        /\ \A j \in 1..Len(less) : less[j] = IF j < i THEN offsets[j] ELSE offsets[j + 1]
    <3>1. i \in 1..Len(offsets)
      BY <1>4
    <3> QED
      BY <3>1, RemoveAtElements, Zenon
  <2> HIDE DEF less
  <2> DEFINE from(j) == IF j < i THEN j ELSE j + 1
  <2>5. \A j \in 1..(L - 1) : from(j) \in 1..L /\ from(j) # i /\ less[j] = offsets[from(j)]
    <3> SUFFICES ASSUME NEW j \in 1..(L - 1)
                 PROVE  from(j) \in 1..L /\ from(j) # i /\ less[j] = offsets[from(j)]
      OBVIOUS
    <3>1. less[j] = offsets[from(j)]
      BY <2>4
    <3> HIDE DEF L
    <3>2. from(j) \in 1..L /\ from(j) # i
      BY <1>1
    <3> QED
      BY <3>1, <3>2
  <2>6. DOMAIN less = 1..(L - 1)
    BY <2>4
  <2>7. IsInjective(less)
    <3> SUFFICES ASSUME NEW j \in 1..(L - 1), NEW k \in 1..(L - 1), less[j] = less[k]
                 PROVE  j = k
      BY <2>6 DEF IsInjective
    <3>1. from(j) = from(k)
      BY <1>2, <2>5
    <3> QED
      BY <1>1, <3>1
  <2>8. ASSUME NEW x \in ToSet(less)
        PROVE  x \in ToSet(offsets) \ {o}
    <3>1. PICK j \in 1..(L - 1) : x = less[j]
      BY <2>6 DEF ToSet
    <3>2. from(j) \in 1..L /\ from(j) # i /\ x = offsets[from(j)]
      BY <2>5, <3>1
    <3> HIDE DEF from
    <3> QED
      BY <1>1, <1>2, <1>4, <3>2 DEF ToSet
  <2>9. ASSUME NEW x \in ToSet(offsets), x # o
        PROVE  x \in ToSet(less)
    <3>1. PICK k \in 1..L : x = offsets[k]
      BY <1>1 DEF ToSet
    <3>2. k # i
      BY <1>4, <2>9, <3>1
    <3>3. CASE k < i
      <4>1. k \in 1..(L - 1) /\ less[k] = offsets[k]
        BY <1>1, <2>4, <3>3
      <4> QED
        BY <2>6, <3>1, <4>1 DEF ToSet
    <3>4. CASE k > i
      <4>1. k - 1 \in 1..(L - 1) /\ ~ (k - 1 < i) /\ (k - 1) + 1 = k
        BY <1>1, <3>4
      <4>2. less[k - 1] = offsets[k]
        BY <2>4, <4>1
      <4> QED
        BY <2>6, <3>1, <4>1, <4>2 DEF ToSet
    <3> QED
      BY <3>2, <3>3, <3>4
  <2> QED
    BY <2>3, <2>4, <2>7, <2>8, <2>9
<1> QED
  BY <1>3, <1>4

\* What takes the place of a node is the rest of its tree.
Removes(t, r, pairs) ==
  /\ r \in AllTrees /\ Search(r) /\ AllTight(r)
  /\ Filed(r) = Filed(t) \ pairs
  /\ r.height - t.height \in {-1, 0}

LEMMA UnlinkedTyped ==
  ASSUME NEW n \in Trees, n # Nil
  PROVE  Unlinked(n) \in AllTrees
<1>1. n \in Nodes(AllTrees) /\ n.left \in AllTrees /\ n.right \in AllTrees
  BY InTrees, Parts
<1>2. CASE n.left # Nil /\ n.right # Nil
  <2> DEFINE s == AvlMin(n.right)
             d == AvlDeleteMin(n.right)
             m == [n EXCEPT !.key = s.key, !.offsets = s.offsets, !.right = d]
  <2>1. s \in Nodes(AllTrees) /\ d \in AllTrees
    BY <1>2, InTrees, LeastTyped
  <2>2. s.key \in Keys /\ s.offsets \in Seq(Offsets)
    BY <2>1, NodeIs
  <2>3. Unlinked(n) = Rebalance(m)
    BY <1>2 DEF Unlinked
  <2> HIDE DEF s, d
  <2>4. m \in Nodes(AllTrees)
    BY <1>1, <2>1, <2>2 DEF Nodes
  <2> QED
    BY <2>3, <2>4, RebalanceTyped, AllTreesAre
<1>3. CASE n.left = Nil \/ n.right = Nil
  BY <1>1, <1>3 DEF Unlinked
<1> QED
  BY <1>2, <1>3

LEMMA UnlinkedKeeps ==
  ASSUME NEW n \in AllTrees, n # Nil, Search(n), AllTight(n)
  PROVE  Removes(n, Unlinked(n), FiledAt(n.key, n.offsets))
<1> DEFINE l == n.left
           r == n.right
           at == FiledAt(n.key, n.offsets)
<1>1. /\ n \in Nodes(AllTrees) /\ n.key \in Keys /\ n.offsets \in Seq(Offsets)
      /\ l \in AllTrees /\ r \in AllTrees
      /\ n.height \in Nat /\ l.height \in Nat /\ r.height \in Nat
  BY Parts
<1>2. /\ Search(l) /\ Search(r) /\ AllTight(l) /\ AllTight(r) /\ Fits(n.key, n.offsets, l, r)
      /\ Filed(n) = Filed(l) \cup at \cup Filed(r)
  BY <1>1, OfNode
<1>3. n.key \in Int /\ \A e \in at : e[1] = n.key
  BY <1>1, KeysAssumption, FiledKeys
<1>4. /\ \A e \in Filed(l) : e[1] < n.key /\ e[1] \in Int
      /\ \A e \in Filed(r) : e[1] > n.key /\ e[1] \in Int
  BY <1>1, <1>2, FiledKeys DEF Fits
<1> HIDE DEF at
<1>5. Filed(n) \ at = Filed(l) \cup Filed(r)
  BY <1>2, <1>3, <1>4
<1>6. CASE l = Nil
  <2>1. l.height = 0 /\ Filed(l) = {}
    BY <1>6, OfNil
  <2>2. n.height = r.height + 1
    BY <1>1, <2>1, GoodParts
  <2>3. r.height - n.height \in {-1, 0}
    BY <1>1, <2>2
  <2>4. Unlinked(n) = r
    BY <1>6 DEF Unlinked
  <2> QED
    BY <1>1, <1>2, <1>5, <2>1, <2>3, <2>4 DEF Removes, at
<1>7. CASE l # Nil /\ r = Nil
  <2>1. r.height = 0 /\ Filed(r) = {}
    BY <1>7, OfNil
  <2>2. n.height = l.height + 1
    BY <1>1, <2>1, GoodParts
  <2>3. l.height - n.height \in {-1, 0}
    BY <1>1, <2>2
  <2>4. Unlinked(n) = l
    BY <1>7 DEF Unlinked
  <2> QED
    BY <1>1, <1>2, <1>5, <2>1, <2>3, <2>4 DEF Removes, at
<1>8. CASE l # Nil /\ r # Nil
  <2> DEFINE s == AvlMin(r)
             d == AvlDeleteMin(r)
             m == [n EXCEPT !.key = s.key, !.offsets = s.offsets, !.right = d]
             R == Rebalance(m)
  <2>1. LeastOf(r, s, d)
    BY <1>1, <1>2, <1>8, LeastKeeps
  <2>2. Unlinked(n) = R
    BY <1>8 DEF Unlinked
  <2> HIDE DEF s, d
  <2>3. /\ s.key \in Keys /\ s.offsets \in Seq(Offsets) /\ s.offsets # <<>> /\ IsInjective(s.offsets)
        /\ s.key \in Int /\ d \in AllTrees /\ Search(d) /\ AllTight(d)
        /\ Filed(r) = FiledAt(s.key, s.offsets) \cup Filed(d)
        /\ \A e \in Filed(d) : e[1] > s.key
        /\ d.height - r.height \in {-1, 0}
    BY <2>1, KeysAssumption DEF LeastOf
  <2>4. /\ m \in Nodes(AllTrees) /\ m.key = s.key /\ m.offsets = s.offsets
        /\ m.left = l /\ m.right = d
    BY <1>1, <2>3 DEF Nodes
  <2> HIDE DEF m
  <2>5. n.key < s.key
    <3>1. PICK e \in FiledAt(s.key, s.offsets) : e[1] = s.key
      BY <2>3, FiledKeys
    <3> QED
      BY <1>4, <2>3, <3>1
  <2>6. \A e \in Filed(l) : e[1] < s.key
    BY <1>3, <1>4, <2>3, <2>5
  <2>7. Fits(m.key, m.offsets, m.left, m.right)
    BY <2>3, <2>4, <2>6 DEF Fits
  <2>8. /\ Search(R)
        /\ Filed(R) = Filed(l) \cup FiledAt(s.key, s.offsets) \cup Filed(d)
    BY <1>2, <2>3, <2>4, <2>7, RebalanceKeeps
  <2>9. m.right.height - n.right.height \in {-1, 0} /\ m.right.height - n.right.height \in {-1, 0, 1}
    BY <2>3, <2>4
  <2>10. R \in AllTrees /\ AllTight(R) /\ R.height - n.height \in {-1, 0}
    BY <2>3, <2>4, <2>9, RightHeights
  <2> HIDE DEF R
  <2>11. Filed(R) = Filed(n) \ at
    BY <1>5, <2>3, <2>8
  <2> QED
    BY <2>2, <2>8, <2>10, <2>11 DEF Removes, at
<1> QED
  BY <1>6, <1>7, <1>8

\* The offsets that remain, also where one is filed twice.
LEMMA RemovedTyped ==
  ASSUME NEW offsets \in Seq(Offsets), NEW o \in Offsets
  PROVE  RemoveFirst(offsets, o) \in Seq(Offsets)
<1> DEFINE I == {k \in 1..Len(offsets) : offsets[k] = o}
<1>1. CASE I = {}
  BY <1>1 DEF RemoveFirst
<1>2. CASE I # {}
  <2> DEFINE i == SelectInSeq(offsets, LAMBDA v : v = o)
  <2>1. I \subseteq Nat
    OBVIOUS
  <2>2. \E x \in I : \A y \in I : x <= y
    <3> HIDE DEF I
    <3> QED
      BY <1>2, <2>1, LeastElement
  <2>3. i = Min(I)
    BY <1>2 DEF SelectInSeq
  <2> HIDE DEF i
  <2>4. i \in 1..Len(offsets)
    BY <2>2, <2>3 DEF Min
  <2>5. RemoveFirst(offsets, o) = RemoveAt(offsets, i)
    BY <1>2 DEF RemoveFirst, i
  <2>6. RemoveAt(offsets, i) \in Seq(Offsets)
    BY <2>4, RemoveAtElements, Zenon
  <2> QED
    BY <2>5, <2>6
<1> QED
  BY <1>1, <1>2

\* The recursion of AvlDelete.
LEMMA DeleteIs ==
  ASSUME NEW key \in Keys, NEW offset \in Offsets, NEW n \in Trees
  PROVE  AvlDelete(n, key, offset) =
           IF n = Nil THEN Nil
           ELSE IF key < n.key
             THEN Rebalance([n EXCEPT !.left = AvlDelete(n.left, key, offset)])
           ELSE IF key > n.key
             THEN Rebalance([n EXCEPT !.right = AvlDelete(n.right, key, offset)])
           ELSE IF RemoveFirst(n.offsets, offset) # <<>>
             THEN [n EXCEPT !.offsets = RemoveFirst(@, offset)]
             ELSE Unlinked(n)
<1> DEFINE After(m, a, b) ==
             IF key < m.key THEN Rebalance([m EXCEPT !.left = a])
             ELSE IF key > m.key THEN Rebalance([m EXCEPT !.right = b])
             ELSE IF RemoveFirst(m.offsets, offset) # <<>>
               THEN [m EXCEPT !.offsets = RemoveFirst(@, offset)]
               ELSE Unlinked(m)
           step == [q \in AllTrees \X AllTrees \X AllTrees |->
                      IF q[1] \in Trees THEN After(q[1], q[2], q[3]) ELSE Nil]
           deleted[m \in Trees] ==
             IF m = Nil THEN Nil
             ELSE IF key < m.key THEN Rebalance([m EXCEPT !.left = deleted[@]])
             ELSE IF key > m.key THEN Rebalance([m EXCEPT !.right = deleted[@]])
             ELSE IF RemoveFirst(m.offsets, offset) # <<>>
               THEN [m EXCEPT !.offsets = RemoveFirst(@, offset)]
               ELSE Unlinked(m)
<1>1. \A m \in Trees, a, b \in AllTrees : m # Nil => After(m, a, b) \in AllTrees
  <2> SUFFICES ASSUME NEW m \in Trees, NEW a \in AllTrees, NEW b \in AllTrees, m # Nil
               PROVE  After(m, a, b) \in AllTrees
    OBVIOUS
  <2>1. m \in Nodes(AllTrees) /\ m.offsets \in Seq(Offsets)
    BY InTrees, Parts
  <2>2. Rebalance([m EXCEPT !.left = a]) \in AllTrees
    BY <2>1, WithLeft, RebalanceTyped, AllTreesAre
  <2>3. Rebalance([m EXCEPT !.right = b]) \in AllTrees
    BY <2>1, WithRight, RebalanceTyped, AllTreesAre
  <2>4. [m EXCEPT !.offsets = RemoveFirst(@, offset)] \in AllTrees
    <3> DEFINE less == RemoveFirst(m.offsets, offset)
    <3>1. less \in Seq(Offsets)
      BY <2>1, RemovedTyped
    <3> HIDE DEF less
    <3>2. [m EXCEPT !.offsets = less] \in Nodes(AllTrees)
      BY <2>1, <3>1 DEF Nodes
    <3> QED
      BY <3>2, AllTreesAre DEF less
  <2>5. Unlinked(m) \in AllTrees
    BY UnlinkedTyped
  <2> QED
    BY <2>2, <2>3, <2>4, <2>5
<1> HIDE DEF After
<1>2. \A m \in AllTrees, a, b \in AllTrees :
        step[<<m, a, b>>] = IF m \in Trees THEN After(m, a, b) ELSE Nil
  OBVIOUS
<1> HIDE DEF step
<1>3. \A m \in AllTrees, a, b \in AllTrees : m # Nil => step[<<m, a, b>>] \in AllTrees
  BY <1>1, <1>2, InTrees
<1>4. PICK f : IsFold(f, Trees, Nil, AllTrees, Nil, step)
  BY <1>3, InTrees, TreeFoldExists
<1>5. ASSUME NEW m \in Trees
      PROVE  f[m] = IF m = Nil THEN Nil ELSE After(m, f[m.left], f[m.right])
  <2>1. m # Nil => /\ m \in AllTrees /\ f[m.left] \in AllTrees /\ f[m.right] \in AllTrees
                   /\ f[m] = step[<<m, f[m.left], f[m.right]>>]
    BY <1>4, InTrees DEF IsFold
  <2>2. f[Nil] = Nil
    BY <1>4, InTrees DEF IsFold
  <2> QED
    BY <1>2, <2>1, <2>2
<1>6. f = [m \in Trees |-> f[m]]
  BY <1>4 DEF IsFold
<1>7. f = [m \in Trees |->
             IF m = Nil THEN Nil
             ELSE IF key < m.key THEN Rebalance([m EXCEPT !.left = f[@]])
             ELSE IF key > m.key THEN Rebalance([m EXCEPT !.right = f[@]])
             ELSE IF RemoveFirst(m.offsets, offset) # <<>>
               THEN [m EXCEPT !.offsets = RemoveFirst(@, offset)]
               ELSE Unlinked(m)]
  BY <1>5, <1>6, Zenon DEF After
<1>8. deleted = [m \in Trees |->
             IF m = Nil THEN Nil
             ELSE IF key < m.key THEN Rebalance([m EXCEPT !.left = deleted[@]])
             ELSE IF key > m.key THEN Rebalance([m EXCEPT !.right = deleted[@]])
             ELSE IF RemoveFirst(m.offsets, offset) # <<>>
               THEN [m EXCEPT !.offsets = RemoveFirst(@, offset)]
               ELSE Unlinked(m)]
  BY <1>7, Zenon
<1>9. \A m \in Trees : AvlDelete(m, key, offset) = deleted[m]
  BY DEF AvlDelete
<1> HIDE DEF deleted
<1>10. deleted[n] = IF n = Nil THEN Nil
             ELSE IF key < n.key THEN Rebalance([n EXCEPT !.left = deleted[n.left]])
             ELSE IF key > n.key THEN Rebalance([n EXCEPT !.right = deleted[n.right]])
             ELSE IF RemoveFirst(n.offsets, offset) # <<>>
               THEN [n EXCEPT !.offsets = RemoveFirst(@, offset)]
               ELSE Unlinked(n)
  BY <1>8
<1>11. n # Nil => n.left \in Trees /\ n.right \in Trees
  BY InTrees
<1> QED
  BY <1>9, <1>10, <1>11

\* Deletion takes the pair out, and no rotation on the way back breaks the tree.
LEMMA DeleteKeeps ==
  ASSUME NEW key \in Keys, NEW offset \in Offsets, NEW tree \in AllTrees,
         Search(tree), AllTight(tree)
  PROVE  Removes(tree, AvlDelete(tree, key, offset), {<<key, offset>>})
<1> DEFINE D(t) == AvlDelete(t, key, offset)
           gone == {<<key, offset>>}
           P == {t \in AllTrees : Search(t) /\ AllTight(t) => Removes(t, D(t), gone)}
<1>1. Nil \in P
  <2>1. D(Nil) = Nil
    BY InTrees, DeleteIs
  <2>2. Nil.height - Nil.height \in {-1, 0}
    BY OfNil
  <2> QED
    BY <2>1, <2>2, OfNil DEF Removes
<1>2. ASSUME NEW n \in AllTrees, n # Nil, n.left \in P, n.right \in P, Search(n), AllTight(n)
      PROVE  Removes(n, D(n), gone)
  <2> DEFINE l == n.left
             r == n.right
             at == FiledAt(n.key, n.offsets)
             less == RemoveFirst(n.offsets, offset)
  <2>1. /\ n \in Nodes(AllTrees) /\ n.key \in Keys /\ n.offsets \in Seq(Offsets)
        /\ l \in AllTrees /\ r \in AllTrees
        /\ n.height \in Nat /\ l.height \in Nat /\ r.height \in Nat
    BY <1>2, Parts
  <2>2. /\ Search(l) /\ Search(r) /\ AllTight(l) /\ AllTight(r) /\ Fits(n.key, n.offsets, l, r)
        /\ Filed(n) = Filed(l) \cup at \cup Filed(r)
    BY <1>2, <2>1, OfNode
  <2>3. n \in Trees
    BY <1>2, SearchTreesAreTrees
  <2>4. key \in Int /\ n.key \in Int
    BY <2>1, KeysAssumption
  <2>5. Removes(l, D(l), gone) /\ Removes(r, D(r), gone)
    BY <1>2, <2>2
  <2>6. D(n) = IF key < n.key THEN Rebalance([n EXCEPT !.left = D(l)])
               ELSE IF key > n.key THEN Rebalance([n EXCEPT !.right = D(r)])
               ELSE IF less # <<>> THEN [n EXCEPT !.offsets = less] ELSE Unlinked(n)
    BY <1>2, <2>3, DeleteIs
  <2>7. /\ \A e \in Filed(l) : e[1] < n.key /\ e[1] \in Int
        /\ \A e \in Filed(r) : e[1] > n.key /\ e[1] \in Int
        /\ \A e \in at : e[1] = n.key
        /\ \A e \in gone : e[1] = key
    BY <2>1, <2>2, FiledKeys DEF Fits
  <2> HIDE DEF D, P, gone, l, r, at, less
  <2>8. CASE key < n.key
    <3> DEFINE u == D(l)
    <3>1. /\ u \in AllTrees /\ Search(u) /\ AllTight(u) /\ u.height - l.height \in {-1, 0}
          /\ Filed(u) = Filed(l) \ gone
      BY <2>5 DEF Removes
    <3> HIDE DEF u
    <3> DEFINE R == Rebalance([n EXCEPT !.left = u])
    <3>2. u.height - n.left.height \in {-1, 0, 1} /\ u.height - n.left.height \in {-1, 0}
      BY <3>1 DEF l
    <3>3. \A e \in Filed(u) : e[1] < n.key
      BY <2>7, <3>1
    <3>4. /\ R \in AllTrees /\ Search(R) /\ AllTight(R) /\ R.height - n.height \in {-1, 0}
          /\ Filed(R) = Filed(u) \cup at \cup Filed(r)
      BY <1>2, <3>1, <3>2, <3>3, LeftReplaced DEF r, at
    <3>5. D(n) = R
      BY <2>6, <2>8 DEF u
    <3> HIDE DEF R
    <3>6. at \cap gone = {} /\ Filed(r) \cap gone = {}
      BY <2>4, <2>7, <2>8
    <3>7. Filed(R) = Filed(n) \ gone
      BY <2>2, <3>1, <3>4, <3>6 DEF at
    <3> QED
      BY <3>4, <3>5, <3>7 DEF Removes
  <2>9. CASE key > n.key
    <3> DEFINE u == D(r)
    <3>1. /\ u \in AllTrees /\ Search(u) /\ AllTight(u) /\ u.height - r.height \in {-1, 0}
          /\ Filed(u) = Filed(r) \ gone
      BY <2>5 DEF Removes
    <3> HIDE DEF u
    <3> DEFINE R == Rebalance([n EXCEPT !.right = u])
    <3>2. u.height - n.right.height \in {-1, 0, 1} /\ u.height - n.right.height \in {-1, 0}
      BY <3>1 DEF r
    <3>3. \A e \in Filed(u) : e[1] > n.key
      BY <2>7, <3>1
    <3>4. /\ R \in AllTrees /\ Search(R) /\ AllTight(R) /\ R.height - n.height \in {-1, 0}
          /\ Filed(R) = Filed(l) \cup at \cup Filed(u)
      BY <1>2, <3>1, <3>2, <3>3, RightReplaced DEF l, at
    <3>5. D(n) = R
      BY <2>4, <2>6, <2>9 DEF u
    <3> HIDE DEF R
    <3>6. at \cap gone = {} /\ Filed(l) \cap gone = {}
      BY <2>4, <2>7, <2>9
    <3>7. Filed(R) = Filed(n) \ gone
      BY <2>2, <3>1, <3>4, <3>6 DEF at
    <3> QED
      BY <3>4, <3>5, <3>7 DEF Removes
  <2>10. ASSUME key = n.key
         PROVE  /\ Filed(l) \cap gone = {} /\ Filed(r) \cap gone = {}
                /\ less \in Seq(Offsets) /\ IsInjective(less)
                /\ FiledAt(n.key, less) = at \ gone
    <3>1. Filed(l) \cap gone = {} /\ Filed(r) \cap gone = {}
      BY <2>4, <2>7, <2>10
    <3>2. less \in Seq(Offsets) /\ IsInjective(less) /\ ToSet(less) = ToSet(n.offsets) \ {offset}
      BY <2>1, <2>2, RemovedIs DEF Fits, less
    <3>3. FiledAt(n.key, less) = at \ gone
      BY <2>10, <3>2 DEF FiledAt, at, gone
    <3> QED
      BY <3>1, <3>2, <3>3
  <2>11. CASE key = n.key /\ less # <<>>
    <3> DEFINE R == [n EXCEPT !.offsets = less]
    <3>1. D(n) = R
      BY <2>4, <2>6, <2>11
    <3>2. /\ R \in AllTrees /\ Search(R) /\ AllTight(R) /\ R.height = n.height
          /\ Filed(R) = Filed(l) \cup FiledAt(n.key, less) \cup Filed(r)
      BY <1>2, <2>10, <2>11, OffsetsReplaced DEF l, r
    <3> HIDE DEF R
    <3>3. R.height - n.height \in {-1, 0}
      BY <2>1, <3>2
    <3>4. Filed(R) = Filed(n) \ gone
      BY <2>2, <2>10, <2>11, <3>2
    <3> QED
      BY <3>1, <3>2, <3>3, <3>4 DEF Removes
  <2>12. CASE key = n.key /\ less = <<>>
    <3>1. D(n) = Unlinked(n)
      BY <2>4, <2>6, <2>12
    <3>2. Removes(n, Unlinked(n), at)
      BY <1>2, UnlinkedKeeps DEF at
    <3>3. FiledAt(n.key, less) = {}
      BY <2>12 DEF FiledAt, ToSet
    <3>4. at \subseteq gone
      BY <2>10, <2>12, <3>3
    <3>5. Filed(n) \ at = Filed(n) \ gone
      BY <2>2, <2>10, <2>12, <3>4
    <3> QED
      BY <3>1, <3>2, <3>5 DEF Removes
  <2> QED
    BY <2>4, <2>8, <2>9, <2>11, <2>12
<1>3. \A n \in AllTrees : n # Nil /\ n.left \in P /\ n.right \in P => n \in P
  BY <1>2
<1> HIDE DEF P
<1>4. AllTrees \subseteq P
  BY <1>1, <1>3, TreesLayered, TreeInduction DEF AllTrees
<1> QED
  BY <1>4 DEF P

------------------------------------------------------------------------------
(* The walk in order *)

KeyedOffsets == Keys \X Offsets

\* What a node contributes.
Block(key, offsets) == [i \in DOMAIN offsets |-> <<key, offsets[i]>>]

\* A listing of some pairs by key, each once.
Lists(s, F) ==
  /\ s \in Seq(KeyedOffsets)
  /\ ToSet(s) = F
  /\ IsInjective(s)
  /\ \A i, j \in DOMAIN s : i < j => s[i][1] <= s[j][1]

LEMMA BlockIs ==
  ASSUME NEW key \in Keys, NEW offsets \in Seq(Offsets)
  PROVE  /\ Block(key, offsets) \in Seq(KeyedOffsets)
         /\ Len(Block(key, offsets)) = Len(offsets)
         /\ \A i \in 1..Len(offsets) : Block(key, offsets)[i] = <<key, offsets[i]>>
         /\ ToSet(Block(key, offsets)) = FiledAt(key, offsets)
         /\ IsInjective(offsets) => Lists(Block(key, offsets), FiledAt(key, offsets))
<1> DEFINE s == Block(key, offsets)
           L == Len(offsets)
<1>1. L \in Nat /\ DOMAIN offsets = 1..L /\ \A i \in 1..L : offsets[i] \in Offsets
  OBVIOUS
<1>2. s = [i \in 1..L |-> <<key, offsets[i]>>]
  BY <1>1 DEF Block
<1>3. s \in [1..L -> KeyedOffsets]
  BY <1>1, <1>2 DEF KeyedOffsets
<1> HIDE DEF s, L
<1>4. s \in Seq(KeyedOffsets) /\ Len(s) = L /\ DOMAIN s = 1..L
  BY <1>1, <1>3
<1>5. \A i \in 1..L : s[i] = <<key, offsets[i]>>
  BY <1>2
<1>6. ToSet(s) = FiledAt(key, offsets)
  BY <1>1, <1>4, <1>5 DEF ToSet, FiledAt
<1>7. ASSUME IsInjective(offsets)
      PROVE  Lists(s, FiledAt(key, offsets))
  <2>1. \A i, j \in 1..L : offsets[i] = offsets[j] => i = j
    BY <1>1, <1>7 DEF IsInjective
  <2>2. \A i, j \in 1..L : s[i] = s[j] => i = j
    BY <1>5, <2>1
  <2>3. IsInjective(s)
    BY <1>4, <2>2 DEF IsInjective
  <2>4. \A i \in 1..L : s[i][1] = key
    BY <1>5
  <2>5. \A i, j \in 1..L : s[i][1] <= s[j][1]
    BY <2>4, KeysAssumption
  <2> QED
    BY <1>4, <1>6, <2>3, <2>5 DEF Lists
<1> QED
  BY <1>4, <1>5, <1>6, <1>7 DEF s, L

LEMMA JoinedListing ==
  ASSUME NEW a, NEW F, Lists(a, F), NEW b, NEW G, Lists(b, G),
         \A e \in F : \A g \in G : e[1] < g[1]
  PROVE  Lists(a \o b, F \cup G)
<1> DEFINE c == a \o b
           M == Len(a)
           N == Len(b)
<1>1. a \in Seq(KeyedOffsets) /\ b \in Seq(KeyedOffsets)
  BY DEF Lists
<1>2. M \in Nat /\ N \in Nat /\ DOMAIN a = 1..M /\ DOMAIN b = 1..N
  BY <1>1
<1>3. /\ c \in Seq(KeyedOffsets) /\ Len(c) = M + N
      /\ \A i \in 1..(M + N) : c[i] = IF i <= M THEN a[i] ELSE b[i - M]
  BY <1>1, ConcatProperties
<1>4. DOMAIN c = 1..(M + N)
  BY <1>3
<1> HIDE DEF c, M, N
<1>5. /\ \A i \in 1..M : i \in 1..(M + N) /\ c[i] = a[i]
      /\ \A j \in 1..N : M + j \in 1..(M + N) /\ c[M + j] = b[j]
  BY <1>2, <1>3
<1>6. \A i \in 1..(M + N) : i \in 1..M \/ \E j \in 1..N : i = M + j
  <2> SUFFICES ASSUME NEW i \in 1..(M + N), i \notin 1..M
               PROVE  \E j \in 1..N : i = M + j
    OBVIOUS
  <2>1. i - M \in 1..N /\ i = M + (i - M)
    BY <1>2
  <2> QED
    BY <2>1
<1>7. /\ \A i \in 1..M : a[i] \in F
      /\ \A j \in 1..N : b[j] \in G
  BY <1>2 DEF Lists, ToSet
<1>8. ToSet(c) = F \cup G
  <2>1. ASSUME NEW x \in ToSet(c)
        PROVE  x \in F \cup G
    <3>1. PICK i \in 1..(M + N) : x = c[i]
      BY <1>4 DEF ToSet
    <3> QED
      BY <1>5, <1>6, <1>7, <3>1
  <2>2. ASSUME NEW x \in F
        PROVE  x \in ToSet(c)
    <3>1. PICK i \in 1..M : x = a[i]
      BY <1>2 DEF Lists, ToSet
    <3> QED
      BY <1>4, <1>5, <3>1 DEF ToSet
  <2>3. ASSUME NEW x \in G
        PROVE  x \in ToSet(c)
    <3>1. PICK j \in 1..N : x = b[j]
      BY <1>2 DEF Lists, ToSet
    <3> QED
      BY <1>4, <1>5, <3>1 DEF ToSet
  <2> QED
    BY <2>1, <2>2, <2>3
<1>9. /\ \A i \in 1..M : a[i][1] \in Int
      /\ \A j \in 1..N : b[j][1] \in Int
      /\ \A i \in 1..M : \A j \in 1..N : a[i][1] < b[j][1]
  <2>1. \A i \in 1..M : a[i] \in KeyedOffsets
    BY <1>1, <1>2
  <2>2. \A j \in 1..N : b[j] \in KeyedOffsets
    BY <1>1, <1>2
  <2>3. \A e \in KeyedOffsets : e[1] \in Int
    BY KeysAssumption DEF KeyedOffsets
  <2> QED
    BY <1>7, <2>1, <2>2, <2>3
<1>10. /\ \A i, j \in 1..M : (a[i] = a[j] => i = j) /\ (i < j => a[i][1] <= a[j][1])
       /\ \A i, j \in 1..N : (b[i] = b[j] => i = j) /\ (i < j => b[i][1] <= b[j][1])
  BY <1>2 DEF Lists, IsInjective
<1>11. ASSUME NEW i \in 1..(M + N), NEW j \in 1..(M + N), i < j
       PROVE  c[i] # c[j] /\ c[i][1] <= c[j][1]
  <2>1. CASE i \in 1..M /\ j \in 1..M
    BY <1>5, <1>10, <1>11, <2>1
  <2>2. ASSUME i \in 1..M, NEW k \in 1..N, j = M + k
        PROVE  c[i] # c[j] /\ c[i][1] <= c[j][1]
    <3>1. c[i] = a[i] /\ c[j] = b[k]
      BY <1>5, <2>2
    <3>2. a[i][1] < b[k][1] /\ a[i][1] \in Int /\ b[k][1] \in Int
      BY <1>9, <2>2
    <3> QED
      BY <3>1, <3>2
  <2>3. ASSUME NEW h \in 1..N, i = M + h, NEW k \in 1..N, j = M + k
        PROVE  c[i] # c[j] /\ c[i][1] <= c[j][1]
    <3>1. h < k
      BY <1>2, <1>11, <2>3
    <3>2. c[i] = b[h] /\ c[j] = b[k]
      BY <1>5, <2>3
    <3>3. h # k
      BY <3>1
    <3> QED
      BY <1>10, <3>1, <3>2, <3>3
  <2>4. j \in 1..M => i \in 1..M
    BY <1>2, <1>11
  <2> QED
    BY <1>6, <2>1, <2>2, <2>3, <2>4
<1>12. IsInjective(c)
  <2> SUFFICES ASSUME NEW i \in 1..(M + N), NEW j \in 1..(M + N), c[i] = c[j]
               PROVE  i = j
    BY <1>4 DEF IsInjective
  <2>1. ~ (i < j) /\ ~ (j < i)
    BY <1>11
  <2> QED
    BY <1>2, <2>1
<1>13. \A i, j \in DOMAIN c : i < j => c[i][1] <= c[j][1]
  BY <1>4, <1>11
<1> QED
  BY <1>3, <1>8, <1>12, <1>13 DEF Lists, c

\* A sequence without repetition is as long as its set is large.
LEMMA InjectiveLength ==
  ASSUME NEW X, NEW s \in Seq(X), IsInjective(s)
  PROVE  IsFiniteSet(ToSet(s)) /\ Cardinality(ToSet(s)) = Len(s) /\ Len(s) \in Nat
<1> DEFINE F == ToSet(s)
<1>1. Len(s) \in Nat /\ DOMAIN s = 1..Len(s)
  OBVIOUS
<1>2. F = {s[i] : i \in 1..Len(s)}
  BY <1>1 DEF ToSet
<1>3. s \in [1..Len(s) -> F]
  BY <1>1, <1>2
<1>4. s \in Bijection(1..Len(s), F)
  <2>1. \A i, j \in 1..Len(s) : s[i] = s[j] => i = j
    BY <1>1 DEF IsInjective
  <2>2. \A x \in F : \E i \in 1..Len(s) : s[i] = x
    BY <1>2
  <2> QED
    BY <1>3, <2>1, <2>2 DEF Bijection, Injection, Surjection, IsInjective
<1>5. ExistsBijection(1..Len(s), F)
  BY <1>4 DEF ExistsBijection
<1> QED
  BY <1>1, <1>5, FS_NatBijection, FS_CountingElements

\* A listing is as long as there are pairs.
LEMMA ListingLength ==
  ASSUME NEW s, NEW F, Lists(s, F)
  PROVE  IsFiniteSet(F) /\ Cardinality(F) = Len(s) /\ Len(s) \in Nat
BY InjectiveLength DEF Lists

\* The recursion of AvlCollect.
LEMMA CollectIs ==
  /\ \A t \in Trees : AvlCollect(t) \in Seq(KeyedOffsets)
  /\ AvlCollect(Nil) = <<>>
  /\ \A n \in Trees : n # Nil =>
       AvlCollect(n) = AvlCollect(n.left) \o Block(n.key, n.offsets) \o AvlCollect(n.right)
<1> DEFINE R == Seq(KeyedOffsets)
           After(m, a, b) == a \o Block(m.key, m.offsets) \o b
           step == [q \in AllTrees \X R \X R |-> After(q[1], q[2], q[3])]
           walked[m \in Trees] ==
             IF m = Nil THEN <<>>
             ELSE walked[m.left]
                  \o [i \in DOMAIN m.offsets |-> <<m.key, m.offsets[i]>>]
                  \o walked[m.right]
<1>1. <<>> \in R
  OBVIOUS
<1>2. ASSUME NEW m \in AllTrees, NEW a \in R, NEW b \in R, m # Nil
      PROVE  After(m, a, b) \in R
  <2> DEFINE s == Block(m.key, m.offsets)
  <2>1. s \in Seq(KeyedOffsets)
    BY <1>2, Parts, BlockIs
  <2> HIDE DEF s
  <2>2. a \o s \in Seq(KeyedOffsets)
    BY <2>1, ConcatProperties
  <2>3. (a \o s) \o b \in Seq(KeyedOffsets)
    BY <2>2, ConcatProperties
  <2> QED
    BY <2>3 DEF s
<1> HIDE DEF R, After
<1>3. \A m \in AllTrees, a, b \in R : step[<<m, a, b>>] = After(m, a, b)
  OBVIOUS
<1> HIDE DEF step
<1>4. \A m \in AllTrees, a, b \in R : m # Nil => step[<<m, a, b>>] \in R
  BY <1>2, <1>3
<1>5. PICK f : IsFold(f, Trees, Nil, R, <<>>, step)
  BY <1>1, <1>4, TreeFoldExists
<1>6. ASSUME NEW m \in Trees
      PROVE  f[m] = IF m = Nil THEN <<>> ELSE After(m, f[m.left], f[m.right])
  <2>1. m # Nil => /\ m \in AllTrees /\ f[m.left] \in R /\ f[m.right] \in R
                   /\ f[m] = step[<<m, f[m.left], f[m.right]>>]
    BY <1>5, InTrees DEF IsFold
  <2>2. f[Nil] = <<>>
    BY <1>5, InTrees DEF IsFold
  <2> QED
    BY <1>3, <2>1, <2>2
<1>7. f = [m \in Trees |-> f[m]]
  BY <1>5 DEF IsFold
<1>8. f = [m \in Trees |->
             IF m = Nil THEN <<>>
             ELSE f[m.left]
                  \o [i \in DOMAIN m.offsets |-> <<m.key, m.offsets[i]>>]
                  \o f[m.right]]
  BY <1>6, <1>7, Zenon DEF After, Block
<1>9. walked = [m \in Trees |->
             IF m = Nil THEN <<>>
             ELSE walked[m.left]
                  \o [i \in DOMAIN m.offsets |-> <<m.key, m.offsets[i]>>]
                  \o walked[m.right]]
  BY <1>8, Zenon
<1>10. \A t \in Trees : AvlCollect(t) = walked[t]
  BY DEF AvlCollect
<1> HIDE DEF walked
<1>11. \A n \in Trees : walked[n] =
         IF n = Nil THEN <<>>
         ELSE walked[n.left]
              \o [i \in DOMAIN n.offsets |-> <<n.key, n.offsets[i]>>]
              \o walked[n.right]
  BY <1>9, Zenon
<1>12. \A n \in Trees : walked[n] =
         IF n = Nil THEN <<>> ELSE After(n, walked[n.left], walked[n.right])
  BY <1>11, Zenon DEF After, Block
<1>13. \A t \in Trees : walked[t] \in R
  <2> DEFINE P == {t \in AllTrees : t \in Trees => walked[t] \in R}
  <2>1. Nil \in P
    BY <1>1, <1>12, InTrees
  <2>2. \A n \in AllTrees : n # Nil /\ n.left \in P /\ n.right \in P => n \in P
    BY <1>2, <1>12, InTrees
  <2> HIDE DEF P
  <2>3. AllTrees \subseteq P
    BY <2>1, <2>2, TreesLayered, TreeInduction DEF AllTrees
  <2> QED
    BY <2>3, InTrees DEF P
<1>14. \A t \in Trees : AvlCollect(t) \in R
  BY <1>10, <1>13
<1>15. AvlCollect(Nil) = <<>>
  BY <1>10, <1>12, InTrees
<1>16. \A n \in Trees : n # Nil =>
         AvlCollect(n) = After(n, AvlCollect(n.left), AvlCollect(n.right))
  BY <1>10, <1>12, InTrees
<1> QED
  BY <1>14, <1>15, <1>16 DEF R, After

\* The walk lists what is filed.
LEMMA CollectLists ==
  ASSUME NEW tree \in AllTrees, Search(tree)
  PROVE  Lists(AvlCollect(tree), Filed(tree))
<1> DEFINE C(t) == AvlCollect(t)
           P == {t \in AllTrees : Search(t) => Lists(C(t), Filed(t))}
<1>1. Nil \in P
  <2>1. C(Nil) = <<>> /\ Filed(Nil) = {}
    BY CollectIs, OfNil
  <2>2. Lists(<<>>, {})
    BY DEF Lists, ToSet, IsInjective
  <2> QED
    BY <2>1, <2>2, OfNil
<1>2. ASSUME NEW n \in AllTrees, n # Nil, n.left \in P, n.right \in P, Search(n)
      PROVE  Lists(C(n), Filed(n))
  <2> DEFINE l == n.left
             r == n.right
             s == Block(n.key, n.offsets)
             at == FiledAt(n.key, n.offsets)
  <2>1. /\ n \in Nodes(AllTrees) /\ n.key \in Keys /\ n.offsets \in Seq(Offsets)
        /\ l \in AllTrees /\ r \in AllTrees
    BY <1>2, Parts
  <2>2. /\ Search(l) /\ Search(r) /\ Fits(n.key, n.offsets, l, r)
        /\ Filed(n) = Filed(l) \cup at \cup Filed(r)
    BY <1>2, <2>1, OfNode
  <2>3. Lists(C(l), Filed(l)) /\ Lists(C(r), Filed(r))
    BY <1>2, <2>2
  <2>4. C(n) = (C(l) \o s) \o C(r)
    BY <1>2, SearchTreesAreTrees, CollectIs
  <2>5. Lists(s, at)
    BY <2>1, <2>2, BlockIs DEF Fits
  <2>6. /\ \A e \in Filed(l) : e[1] < n.key /\ e[1] \in Int
        /\ \A e \in Filed(r) : e[1] > n.key /\ e[1] \in Int
        /\ \A e \in at : e[1] = n.key
        /\ n.key \in Int
    BY <2>1, <2>2, FiledKeys, KeysAssumption DEF Fits
  <2> HIDE DEF C, P, l, r, s, at
  <2>7. Lists(C(l) \o s, Filed(l) \cup at)
    <3>1. \A e \in Filed(l) : \A g \in at : e[1] < g[1]
      BY <2>6
    <3> QED
      BY <2>3, <2>5, <3>1, JoinedListing
  <2>8. \A e \in Filed(l) \cup at : \A g \in Filed(r) : e[1] < g[1]
    <3>1. ASSUME NEW e \in Filed(l), NEW g \in Filed(r)
          PROVE  e[1] < g[1]
      <4>1. e[1] < n.key /\ e[1] \in Int /\ g[1] > n.key /\ g[1] \in Int /\ n.key \in Int
        BY <2>6
      <4> QED
        BY <4>1
    <3>2. ASSUME NEW e \in at, NEW g \in Filed(r)
          PROVE  e[1] < g[1]
      BY <2>6
    <3> QED
      BY <3>1, <3>2
  <2>9. Lists((C(l) \o s) \o C(r), (Filed(l) \cup at) \cup Filed(r))
    BY <2>3, <2>7, <2>8, JoinedListing
  <2> QED
    BY <2>2, <2>4, <2>9 DEF at
<1>3. \A n \in AllTrees : n # Nil /\ n.left \in P /\ n.right \in P => n \in P
  BY <1>2
<1> HIDE DEF P
<1>4. AllTrees \subseteq P
  BY <1>1, <1>3, TreesLayered, TreeInduction DEF AllTrees
<1> QED
  BY <1>4 DEF P

\* The nodes of a tree, as the properties have them.
LEMMA NodesInAre ==
  ASSUME NEW tree \in Trees
  PROVE  NodesIn(tree) = AllNodes[tree]
<1> DEFINE nodes[n \in Trees] ==
             IF n = Nil THEN {} ELSE {n} \cup nodes[n.left] \cup nodes[n.right]
           g == [n \in Trees |-> AllNodes[n]]
<1>1. ASSUME NEW n \in Trees
      PROVE  g[n] = IF n = Nil THEN {} ELSE {n} \cup g[n.left] \cup g[n.right]
  <2>1. CASE n = Nil
    BY <2>1, AllNodesAre
  <2>2. CASE n # Nil
    <3>1. n \in Nodes(AllTrees) /\ n.left \in Trees /\ n.right \in Trees
      BY <2>2, InTrees, Parts
    <3>2. AllNodes[n] = {n} \cup AllNodes[n.left] \cup AllNodes[n.right]
      BY <3>1, AllNodesAre
    <3> QED
      BY <2>2, <3>1, <3>2
  <2> QED
    BY <2>1, <2>2
<1>2. g = [n \in Trees |-> g[n]]
  OBVIOUS
<1>3. \A n \in Trees : g[n] = AllNodes[n]
  OBVIOUS
<1> HIDE DEF g
<1>4. g = [n \in Trees |-> IF n = Nil THEN {} ELSE {n} \cup g[n.left] \cup g[n.right]]
  BY <1>1, <1>2, Zenon
<1>5. nodes = [n \in Trees |->
                 IF n = Nil THEN {} ELSE {n} \cup nodes[n.left] \cup nodes[n.right]]
  BY <1>4, Zenon
<1>6. NodesIn(tree) = nodes[tree]
  BY DEF NodesIn
<1> HIDE DEF nodes
<1>7. \A n \in Trees :
        nodes[n] = IF n = Nil THEN {} ELSE {n} \cup nodes[n.left] \cup nodes[n.right]
  BY <1>5, Zenon
<1> DEFINE P == {t \in AllTrees : t \in Trees => nodes[t] = g[t]}
<1>8. Nil \in P
  BY <1>1, <1>7, InTrees
<1>9. ASSUME NEW n \in AllTrees, n # Nil, n.left \in P, n.right \in P
      PROVE  n \in P
  <2> SUFFICES ASSUME n \in Trees
               PROVE  nodes[n] = g[n]
    OBVIOUS
  <2>1. n.left \in Trees /\ n.right \in Trees
    BY <1>9, InTrees
  <2>2. nodes[n.left] = g[n.left] /\ nodes[n.right] = g[n.right]
    BY <1>9, <2>1
  <2>3. nodes[n] = {n} \cup nodes[n.left] \cup nodes[n.right]
    BY <1>7, <1>9
  <2>4. g[n] = {n} \cup g[n.left] \cup g[n.right]
    BY <1>1, <1>9
  <2> QED
    BY <2>2, <2>3, <2>4
<1> HIDE DEF P
<1>10. AllTrees \subseteq P
  BY <1>8, <1>9, TreesLayered, TreeInduction DEF AllTrees
<1>11. nodes[tree] = g[tree]
  BY <1>10, InTrees DEF P
<1> QED
  BY <1>3, <1>6, <1>11

------------------------------------------------------------------------------
(* The index *)

\* A balanced search tree.
Sound == {t \in AllTrees : Search(t) /\ AllTight(t)}

\* The loop of AvlLoad.
LEMMA LoadRuns ==
  ASSUME NEW pairs \in Seq(KeyedOffsets)
  PROVE  \E f : /\ f[0] = Nil
                /\ \A n \in 0..Len(pairs) : f[n] \in Sound
                /\ \A n \in 1..Len(pairs) :
                     /\ f[n] = AvlInsert(f[n - 1], pairs[n][1], pairs[n][2])
                     /\ Filed(f[n]) = Filed(f[n - 1]) \cup {pairs[n]}
                /\ AvlLoad(pairs) = f[Len(pairs)]
<1> DEFINE N == Len(pairs)
           X == Sound
           After(n, t) == AvlInsert(t, pairs[n][1], pairs[n][2])
           step == [q \in (1..N) \X X |-> After(q[1], q[2])]
           loaded[n \in 0..N] ==
             IF n = 0 THEN Nil ELSE AvlInsert(loaded[n - 1], pairs[n][1], pairs[n][2])
<1>1. N \in Nat /\ DOMAIN pairs = 1..N
  OBVIOUS
<1>2. Nil \in X
  BY OfNil DEF Sound
<1>3. ASSUME NEW n \in 1..N, NEW t \in X
      PROVE  After(n, t) \in X /\ Filed(After(n, t)) = Filed(t) \cup {pairs[n]}
  <2> DEFINE p == pairs[n]
  <2>1. p \in KeyedOffsets
    BY <1>1
  <2> HIDE DEF p
  <2>2. p[1] \in Keys /\ p[2] \in Offsets /\ p = <<p[1], p[2]>>
    BY <2>1 DEF KeyedOffsets
  <2>3. Inserts(t, AvlInsert(t, p[1], p[2]), <<p[1], p[2]>>)
    BY <2>2, InsertKeeps DEF Sound
  <2>4. After(n, t) = AvlInsert(t, p[1], p[2])
    BY DEF p
  <2> HIDE DEF After
  <2>5. After(n, t) \in X /\ Filed(After(n, t)) = Filed(t) \cup {p}
    BY <2>2, <2>3, <2>4 DEF Inserts, Sound
  <2> QED
    BY <2>5 DEF p
<1> HIDE DEF After, N, X
<1>4. step \in [(1..N) \X X -> X]
  BY <1>3
<1>5. \A n \in 1..N, t \in X : step[<<n, t>>] = After(n, t)
  OBVIOUS
<1> HIDE DEF step
<1>6. PICK f : IsLoop(f, N, X, Nil, step)
  BY <1>1, <1>2, <1>4, LoopExists
<1>7. /\ f[0] = Nil
      /\ \A n \in 0..N : f[n] \in X
      /\ \A n \in 1..N : f[n] = After(n, f[n - 1]) /\ Filed(f[n]) = Filed(f[n - 1]) \cup {pairs[n]}
  <2>1. f[0] = Nil /\ \A n \in 0..N : f[n] \in X
    BY <1>6 DEF IsLoop
  <2>2. ASSUME NEW n \in 1..N
        PROVE  f[n] = After(n, f[n - 1]) /\ Filed(f[n]) = Filed(f[n - 1]) \cup {pairs[n]}
    <3>1. n - 1 \in 0..N
      BY <1>1
    <3>2. f[n] = step[<<n, f[n - 1]>>] /\ f[n - 1] \in X
      BY <1>6, <3>1 DEF IsLoop
    <3> QED
      BY <1>3, <1>5, <3>2
  <2> QED
    BY <2>1, <2>2
<1>8. f = [n \in 0..N |-> f[n]]
  BY <1>6 DEF IsLoop
<1>9. \A n \in 0..N : f[n] = IF n = 0 THEN Nil ELSE After(n, f[n - 1])
  <2>1. \A n \in 0..N : n = 0 \/ n \in 1..N
    BY <1>1
  <2> QED
    BY <1>1, <1>7, <2>1
<1>10. f = [n \in 0..N |->
             IF n = 0 THEN Nil ELSE AvlInsert(f[n - 1], pairs[n][1], pairs[n][2])]
  BY <1>8, <1>9, Zenon DEF After
<1>11. loaded = [n \in 0..N |->
             IF n = 0 THEN Nil ELSE AvlInsert(loaded[n - 1], pairs[n][1], pairs[n][2])]
  BY <1>10, Zenon
<1>12. AvlLoad(pairs) = loaded[N]
  BY DEF AvlLoad, N
<1> HIDE DEF loaded
<1>13. \A n \in 0..N : loaded[n] = IF n = 0 THEN Nil ELSE After(n, loaded[n - 1])
  BY <1>11, Zenon DEF After
<1> DEFINE Same == [n \in 0..N |-> {f[n]}]
<1>14. loaded[0] \in Same[0]
  BY <1>1, <1>7, <1>13
<1>15. ASSUME NEW n \in 1..N, loaded[n - 1] \in Same[n - 1]
       PROVE  loaded[n] \in Same[n]
  <2>1. n \in 0..N /\ n - 1 \in 0..N /\ n # 0
    BY <1>1
  <2> QED
    BY <1>7, <1>13, <1>15, <2>1
<1> HIDE DEF Same
<1>16. \A n \in 0..N : loaded[n] \in Same[n]
  BY <1>1, <1>14, <1>15, LoopInvariant
<1>17. AvlLoad(pairs) = f[N]
  <2>1. N \in 0..N
    BY <1>1
  <2> QED
    BY <1>12, <1>16, <2>1 DEF Same
<1>18. \A n \in 1..N : f[n] = AvlInsert(f[n - 1], pairs[n][1], pairs[n][2])
  BY <1>7, Zenon DEF After
<1> QED
  BY <1>7, <1>17, <1>18 DEF N, X

\* What is loaded is a balanced search tree of the pairs.
LEMMA LoadKeeps ==
  ASSUME NEW pairs \in Seq(KeyedOffsets)
  PROVE  AvlLoad(pairs) \in Sound /\ Filed(AvlLoad(pairs)) = ToSet(pairs)
<1> DEFINE N == Len(pairs)
           Done(n) == {pairs[i] : i \in 1..n}
<1>1. N \in Nat /\ DOMAIN pairs = 1..N
  OBVIOUS
<1>2. PICK f : /\ f[0] = Nil
               /\ \A n \in 0..N : f[n] \in Sound
               /\ \A n \in 1..N : /\ f[n] = AvlInsert(f[n - 1], pairs[n][1], pairs[n][2])
                                  /\ Filed(f[n]) = Filed(f[n - 1]) \cup {pairs[n]}
               /\ AvlLoad(pairs) = f[N]
  BY LoadRuns, Zenon
<1> HIDE DEF N
<1> DEFINE Right == [n \in 0..N |-> {t \in Sound : Filed(t) = Done(n)}]
<1>3. f[0] \in Right[0]
  <2>1. Done(0) = {} /\ 0 \in 0..N
    BY <1>1
  <2> QED
    BY <1>2, <2>1, OfNil
<1>4. ASSUME NEW n \in 1..N, f[n - 1] \in Right[n - 1]
      PROVE  f[n] \in Right[n]
  <2>1. n \in 0..N /\ n - 1 \in 0..N
    BY <1>1
  <2>2. Filed(f[n]) = Done(n - 1) \cup {pairs[n]}
    BY <1>2, <1>4, <2>1
  <2>3. Done(n) = Done(n - 1) \cup {pairs[n]}
    <3>1. \A i \in 1..n : i = n \/ i \in 1..(n - 1)
      BY <1>1
    <3>2. \A i \in 1..(n - 1) : i \in 1..n
      BY <1>1
    <3>3. n \in 1..n
      BY <1>1
    <3> QED
      BY <3>1, <3>2, <3>3
  <2> HIDE DEF Done
  <2> QED
    BY <1>2, <2>1, <2>2, <2>3
<1> HIDE DEF Right
<1>5. \A n \in 0..N : f[n] \in Right[n]
  BY <1>1, <1>3, <1>4, LoopInvariant
<1>6. N \in 0..N
  BY <1>1
<1>7. f[N] \in Sound /\ Filed(f[N]) = Done(N)
  BY <1>5, <1>6 DEF Right
<1>8. Done(N) = ToSet(pairs)
  BY <1>1 DEF ToSet
<1> QED
  BY <1>2, <1>7, <1>8

\* The nodes of a node's subtrees are nodes of the tree.
LEMMA NodesWithin ==
  ASSUME NEW tree \in AllTrees, Search(tree), NEW n \in AllNodes[tree]
  PROVE  AllNodes[n.left] \subseteq AllNodes[tree] /\ n.left \in Trees
<1> DEFINE P == {t \in AllTrees :
                   Search(t) => \A m \in AllNodes[t] :
                                  AllNodes[m.left] \subseteq AllNodes[t] /\ m.left \in Trees}
<1>1. Nil \in P
  BY AllNodesAre, AllTreesAre
<1>2. ASSUME NEW t \in AllTrees, t # Nil, t.left \in P, t.right \in P, Search(t)
      PROVE  \A m \in AllNodes[t] : AllNodes[m.left] \subseteq AllNodes[t] /\ m.left \in Trees
  <2>1. t \in Nodes(AllTrees) /\ t \in Trees
    BY <1>2, AllTreesAre, SearchTreesAreTrees
  <2>2. AllNodes[t] = {t} \cup AllNodes[t.left] \cup AllNodes[t.right]
    BY <2>1, AllNodesAre
  <2>3. Search(t.left) /\ Search(t.right)
    BY <1>2, <2>1, OfNode
  <2>4. t.left \in Trees
    BY <1>2, <2>1, InTrees
  <2> QED
    BY <1>2, <2>2, <2>3, <2>4
<1>3. \A t \in AllTrees : t # Nil /\ t.left \in P /\ t.right \in P => t \in P
  BY <1>2
<1> HIDE DEF P
<1>4. AllTrees \subseteq P
  BY <1>1, <1>3, TreesLayered, TreeInduction DEF AllTrees
<1> QED
  BY <1>4 DEF P

------------------------------------------------------------------------------
(* What the recursions report *)

\* The recursion of AvlHolds.
LEMMA HoldsIs ==
  ASSUME NEW key \in Keys, NEW offset \in Offsets, NEW n \in Trees
  PROVE  /\ n = Nil => ~ AvlHolds(n, key, offset)
         /\ n # Nil =>
              AvlHolds(n, key, offset) = IF key < n.key THEN AvlHolds(n.left, key, offset)
                                         ELSE IF key > n.key THEN AvlHolds(n.right, key, offset)
                                         ELSE offset \in ToSet(n.offsets)
<1> DEFINE After(m, a, b) ==
             IF key < m.key THEN a ELSE IF key > m.key THEN b ELSE offset \in ToSet(m.offsets)
           step == [q \in AllTrees \X BOOLEAN \X BOOLEAN |-> After(q[1], q[2], q[3])]
           held[m \in Trees] ==
             IF m = Nil THEN FALSE
             ELSE IF key < m.key THEN held[m.left]
             ELSE IF key > m.key THEN held[m.right]
             ELSE offset \in ToSet(m.offsets)
<1>1. \A m \in AllTrees, a, b \in BOOLEAN : After(m, a, b) \in BOOLEAN
  <2> SUFFICES ASSUME NEW m \in AllTrees, NEW a \in BOOLEAN, NEW b \in BOOLEAN
               PROVE  After(m, a, b) \in BOOLEAN
    OBVIOUS
  <2>1. CASE key < m.key
    BY <2>1, Zenon
  <2>2. CASE ~ key < m.key /\ key > m.key
    BY <2>2, Zenon
  <2>3. CASE ~ key < m.key /\ ~ key > m.key
    <3>1. (offset \in ToSet(m.offsets)) \in BOOLEAN
      OBVIOUS
    <3> QED
      BY <2>3, <3>1, Zenon
  <2> QED
    BY <2>1, <2>2, <2>3, Zenon
<1> HIDE DEF After
<1>2. \A m \in AllTrees, a, b \in BOOLEAN : step[<<m, a, b>>] = After(m, a, b)
  BY Zenon
<1> HIDE DEF step
<1>3. \A m \in AllTrees, a, b \in BOOLEAN : m # Nil => step[<<m, a, b>>] \in BOOLEAN
  BY <1>1, <1>2, Zenon
<1>4. PICK f : IsFold(f, Trees, Nil, BOOLEAN, FALSE, step)
  BY <1>3, TreeFoldExists
<1>5. ASSUME NEW m \in Trees
      PROVE  f[m] = IF m = Nil THEN FALSE ELSE After(m, f[m.left], f[m.right])
  <2>1. m # Nil => /\ m \in AllTrees /\ f[m.left] \in BOOLEAN /\ f[m.right] \in BOOLEAN
                   /\ f[m] = step[<<m, f[m.left], f[m.right]>>]
    BY <1>4, InTrees, Zenon DEF IsFold
  <2>2. f[Nil] = FALSE
    BY <1>4, InTrees, Zenon DEF IsFold
  <2> QED
    BY <1>2, <2>1, <2>2, Zenon
<1>6. f = [m \in Trees |-> f[m]]
  BY <1>4, Zenon DEF IsFold
<1>7. f = [m \in Trees |->
             IF m = Nil THEN FALSE
             ELSE IF key < m.key THEN f[m.left]
             ELSE IF key > m.key THEN f[m.right]
             ELSE offset \in ToSet(m.offsets)]
  BY <1>5, <1>6, Zenon DEF After
<1>8. held = [m \in Trees |->
             IF m = Nil THEN FALSE
             ELSE IF key < m.key THEN held[m.left]
             ELSE IF key > m.key THEN held[m.right]
             ELSE offset \in ToSet(m.offsets)]
  BY <1>7, Zenon
<1>9. \A t : AvlHolds(t, key, offset) = held[t]
  BY DEF AvlHolds
<1> HIDE DEF held
<1>10. \A m \in Trees : held[m] =
         IF m = Nil THEN FALSE
         ELSE IF key < m.key THEN held[m.left]
         ELSE IF key > m.key THEN held[m.right]
         ELSE offset \in ToSet(m.offsets)
  BY <1>8, Zenon
<1> DEFINE H(t) == AvlHolds(t, key, offset)
<1>11. ASSUME n # Nil
       PROVE  H(n) = IF key < n.key THEN H(n.left)
                     ELSE IF key > n.key THEN H(n.right)
                     ELSE offset \in ToSet(n.offsets)
  BY <1>9, <1>10, <1>11, Zenon
<1>12. n = Nil => ~ H(n)
  BY <1>9, <1>10, Zenon
<1> QED
  BY <1>11, <1>12, Zenon

\* The search for a pair comes to the node that has it.
LEMMA HoldsWhatIsFiled ==
  ASSUME NEW key \in Keys, NEW offset \in Offsets, NEW tree \in AllTrees, Search(tree)
  PROVE  AvlHolds(tree, key, offset) <=> <<key, offset>> \in Filed(tree)
<1> DEFINE H(t) == AvlHolds(t, key, offset)
           pair == <<key, offset>>
           P == {t \in AllTrees : Search(t) => (H(t) <=> pair \in Filed(t))}
<1>1. Nil \in P
  BY InTrees, HoldsIs, OfNil, Zenon
<1>2. ASSUME NEW n \in AllTrees, n # Nil, n.left \in P, n.right \in P, Search(n)
      PROVE  H(n) <=> pair \in Filed(n)
  <2> DEFINE l == n.left
             r == n.right
             at == FiledAt(n.key, n.offsets)
  <2>1. /\ n \in Nodes(AllTrees) /\ n.key \in Keys /\ n.offsets \in Seq(Offsets)
        /\ l \in AllTrees /\ r \in AllTrees
    BY <1>2, Parts
  <2>2. /\ Search(l) /\ Search(r) /\ Fits(n.key, n.offsets, l, r)
        /\ Filed(n) = Filed(l) \cup at \cup Filed(r)
    BY <1>2, <2>1, OfNode
  <2>3. n \in Trees
    BY <1>2, SearchTreesAreTrees
  <2>4. key \in Int /\ n.key \in Int
    BY <2>1, KeysAssumption
  <2>5. (H(l) <=> pair \in Filed(l)) /\ (H(r) <=> pair \in Filed(r))
    BY <1>2, <2>2, Zenon
  <2>6. H(n) = IF key < n.key THEN H(l)
               ELSE IF key > n.key THEN H(r)
               ELSE offset \in ToSet(n.offsets)
    BY <1>2, <2>3, HoldsIs, Zenon
  <2>7. pair \in at <=> key = n.key /\ offset \in ToSet(n.offsets)
    BY DEF FiledAt
  <2>8. /\ pair \in Filed(l) => key < n.key
        /\ pair \in Filed(r) => key > n.key
    <3>1. pair[1] = key
      OBVIOUS
    <3> QED
      BY <2>2, <3>1 DEF Fits
  <2>9. /\ key < n.key => ~ key > n.key /\ key # n.key
        /\ key > n.key => ~ key < n.key /\ key # n.key
        /\ ~ key < n.key /\ ~ key > n.key => key = n.key
    BY <2>4
  <2> HIDE DEF H, P, pair, l, r, at
  <2> QED
    BY <2>2, <2>5, <2>6, <2>7, <2>8, <2>9, Zenon
<1>3. \A n \in AllTrees : n # Nil /\ n.left \in P /\ n.right \in P => n \in P
  BY <1>2
<1> HIDE DEF P
<1>4. AllTrees \subseteq P
  BY <1>1, <1>3, TreesLayered, TreeInduction DEF AllTrees
<1> QED
  BY <1>4 DEF P

\* The inductive invariant.
TreeInv ==
  /\ root \in Sound
  /\ size = Cardinality(Filed(root))

LEMMA SoundHas ==
  ASSUME NEW t \in Sound
  PROVE  /\ t \in AllTrees /\ t \in Trees /\ Search(t) /\ AllTight(t)
         /\ Lists(AvlCollect(t), Filed(t)) /\ AvlCollect(t) \in Seq(KeyedOffsets)
         /\ ToSet(AvlCollect(t)) = Filed(t)
         /\ IsFiniteSet(Filed(t)) /\ Cardinality(Filed(t)) \in Nat
         /\ Cardinality(Filed(t)) = Len(AvlCollect(t))
         /\ NodesIn(t) = AllNodes[t]
<1>1. t \in AllTrees /\ Search(t) /\ AllTight(t)
  BY DEF Sound
<1>2. t \in Trees
  BY <1>1, SearchTreesAreTrees
<1>3. Lists(AvlCollect(t), Filed(t))
  BY <1>1, CollectLists
<1>4. /\ IsFiniteSet(Filed(t)) /\ Cardinality(Filed(t)) \in Nat
      /\ Cardinality(Filed(t)) = Len(AvlCollect(t))
  BY <1>3, ListingLength
<1> QED
  BY <1>1, <1>2, <1>3, <1>4, NodesInAre DEF Lists

LEMMA TreeBegins == InitTree => TreeInv
<1>1. Filed(Nil) = {} /\ Nil \in Sound
  BY OfNil DEF Sound
<1>2. Cardinality({}) = 0
  BY FS_EmptySet
<1> QED
  BY <1>1, <1>2 DEF InitTree, TreeInv

\* What a step does to the tree.
LEMMA TreeSteps ==
  ASSUME TreeInv, [NextTree]_treeVars
  PROVE  /\ root' \in Sound
         /\ \/ \E pair \in Pairs : /\ Filed(root') = Filed(root) \cup {pair}
                                   /\ size' = Cardinality(Filed(root'))
            \/ \E pair \in Pairs : /\ Filed(root') = Filed(root) \ {pair}
                                   /\ size' = Cardinality(Filed(root'))
            \/ Filed(root') = Filed(root) /\ size' = size
<1>1. /\ root \in Sound /\ root \in AllTrees /\ Search(root) /\ AllTight(root)
      /\ ToSet(AvlCollect(root)) = Filed(root) /\ AvlCollect(root) \in Seq(KeyedOffsets)
      /\ IsFiniteSet(Filed(root)) /\ size = Cardinality(Filed(root)) /\ size \in Nat
  BY SoundHas DEF TreeInv
<1>2. ASSUME NEW pair \in Pairs
      PROVE  pair[1] \in Keys /\ pair[2] \in Offsets /\ pair = <<pair[1], pair[2]>>
  <2>1. pair \in Keys \X Offsets
    BY PairsAssumption
  <2> QED
    BY <2>1
<1>3. ASSUME NEW pair \in Pairs, InsertPair(pair)
      PROVE  /\ root' \in Sound /\ Filed(root') = Filed(root) \cup {pair}
             /\ size' = Cardinality(Filed(root'))
  <2>1. root' = AvlInsert(root, pair[1], pair[2])
    BY <1>3 DEF InsertPair
  <2>2. Inserts(root, root', pair)
    BY <1>1, <1>2, <2>1, InsertKeeps
  <2>3. Filed(root') = Filed(root) \cup {pair} /\ root' \in Sound
    BY <2>2 DEF Inserts, Sound
  <2>4. size' = size + IF pair \in Filed(root) THEN 0 ELSE 1
    <3>1. AvlInserted(root, pair[1], pair[2]) <=> pair \notin Filed(root)
      BY <1>1, <1>2, HoldsWhatIsFiled, Zenon DEF AvlInserted
    <3> QED
      BY <1>3, <3>1 DEF InsertPair
  <2>5. Cardinality(Filed(root) \cup {pair}) =
          IF pair \in Filed(root) THEN Cardinality(Filed(root)) ELSE Cardinality(Filed(root)) + 1
    BY <1>1, FS_AddElement
  <2> QED
    BY <1>1, <2>3, <2>4, <2>5
<1>4. ASSUME NEW pair \in Pairs, DeletePair(pair)
      PROVE  /\ root' \in Sound /\ Filed(root') = Filed(root) \ {pair}
             /\ size' = Cardinality(Filed(root'))
  <2>1. root' = AvlDelete(root, pair[1], pair[2])
    BY <1>4 DEF DeletePair
  <2>2. Removes(root, root', {pair})
    BY <1>1, <1>2, <2>1, DeleteKeeps
  <2>3. Filed(root') = Filed(root) \ {pair} /\ root' \in Sound
    BY <2>2 DEF Removes, Sound
  <2>4. size' = size - IF pair \in Filed(root) THEN 1 ELSE 0
    <3>1. AvlDeleted(root, pair[1], pair[2]) <=> pair \in Filed(root)
      BY <1>1, <1>2, HoldsWhatIsFiled, Zenon DEF AvlDeleted
    <3> QED
      BY <1>4, <3>1 DEF DeletePair
  <2>5. Cardinality(Filed(root) \ {pair}) =
          IF pair \in Filed(root) THEN Cardinality(Filed(root)) - 1 ELSE Cardinality(Filed(root))
    BY <1>1, FS_RemoveElement
  <2> QED
    BY <1>1, <2>3, <2>4, <2>5
<1>5. CASE ReloadTree
  <2>1. root' = AvlLoad(AvlCollect(root)) /\ size' = size
    BY <1>5 DEF ReloadTree
  <2> QED
    BY <1>1, <2>1, LoadKeeps
<1>6. CASE root' = root /\ size' = size
  BY <1>1, <1>6
<1>7. \/ \E pair \in Pairs : InsertPair(pair) \/ DeletePair(pair)
      \/ ReloadTree
      \/ root' = root /\ size' = size
  BY DEF NextTree, treeVars, PlainInsert, PlainRemove, PlainReload
<1> QED
  BY <1>3, <1>4, <1>5, <1>6, <1>7

LEMMA TreeKeeps == TreeInv /\ [NextTree]_treeVars => TreeInv'
<1> SUFFICES ASSUME TreeInv, [NextTree]_treeVars
             PROVE  TreeInv'
  OBVIOUS
<1>1. size = Cardinality(Filed(root))
  BY DEF TreeInv
<1> QED
  BY <1>1, TreeSteps DEF TreeInv

LEMMA TreeInvHolds == TreeSpec => []TreeInv
BY TreeBegins, TreeKeeps, PTL DEF TreeSpec

\* In every node the stored height is the real one and the two subtrees differ by one
\* level at most, whatever was inserted, deleted and reloaded: rebalance needs no more
\* than one rotation, single or double, where insert and delete call it.
THEOREM TreeIsBalanced ==
  TreeSpec => []Balanced
<1>1. TreeInv => Balanced
  <2> SUFFICES ASSUME TreeInv, NEW n \in NodesIn(root)
               PROVE  LET lh == NodeHeight(n.left)
                          rh == NodeHeight(n.right)
                      IN  /\ n.height = 1 + IF lh > rh THEN lh ELSE rh
                          /\ lh - rh \in {-1, 0, 1}
    BY DEF Balanced
  <2>1. n \in AllNodes[root] /\ AllTight(root)
    BY SoundHas DEF TreeInv
  <2>2. Tight(n)
    BY <2>1 DEF AllTight
  <2> QED
    BY <2>2 DEF Tight, NodeHeight
<1> QED
  BY <1>1, TreeInvHolds, PTL

\* The walk in order meets the keys in increasing order, each with its offsets, and each
\* offset once: no rotation and no successor leaves a key on the wrong side.
THEOREM WalkIsOrdered ==
  TreeSpec => []Ordered
<1>1. TreeInv => Ordered
  <2> SUFFICES ASSUME TreeInv
               PROVE  Ordered
    OBVIOUS
  <2> DEFINE pairs == AvlCollect(root)
  <2>1. /\ root \in AllTrees /\ Search(root) /\ Lists(pairs, Filed(root))
        /\ ToSet(pairs) = Filed(root) /\ Cardinality(Filed(root)) = Len(pairs)
        /\ NodesIn(root) = AllNodes[root]
    BY SoundHas DEF TreeInv
  <2>2. \A i, j \in DOMAIN pairs : i < j => pairs[i][1] <= pairs[j][1]
    BY <2>1 DEF Lists
  <2>3. ASSUME NEW n \in NodesIn(root)
        PROVE  n.offsets # <<>> /\ \A l \in NodesIn(n.left) : l.key < n.key
    <3>1. n \in AllNodes[root] /\ Fits(n.key, n.offsets, n.left, n.right)
      BY <2>1 DEF Search
    <3>2. n \in Nodes(AllTrees) /\ n.left \in AllTrees
      <4>1. n \in Nodes(AllTrees)
        BY <2>1, <3>1, AllNodesAre DEF NodeSets
      <4> QED
        BY <4>1, NodeIs
    <3>3. AllNodes[n.left] \subseteq AllNodes[root] /\ n.left \in Trees
      BY <2>1, <3>1, NodesWithin
    <3>4. NodesIn(n.left) = AllNodes[n.left]
      BY <3>3, NodesInAre
    <3>5. ASSUME NEW l \in AllNodes[n.left]
          PROVE  l.key < n.key
      <4>1. l \in Nodes(AllTrees) /\ Fits(l.key, l.offsets, l.left, l.right)
        BY <2>1, <3>3, AllNodesAre DEF NodeSets, Search
      <4>2. l.key \in Keys /\ l.offsets \in Seq(Offsets) /\ l.offsets # <<>>
        BY <4>1, NodeIs DEF Fits
      <4>3. PICK e \in FiledAt(l.key, l.offsets) : e[1] = l.key
        BY <4>2, FiledKeys
      <4>4. e \in Filed(n.left)
        BY <4>3 DEF Filed
      <4> QED
        BY <3>1, <4>3, <4>4 DEF Fits
    <3> QED
      BY <3>1, <3>4, <3>5 DEF Fits
  <2> QED
    BY <2>1, <2>2, <2>3 DEF Ordered
<1> QED
  BY <1>1, TreeInvHolds, PTL

\* The balanced tree implements the set of pairs that the calls say, reloads included,
\* and its counter the number of them.
THEOREM TreeIsMultimap ==
  TreeSpec => IsMultimap
<1>1. InitTree => Set!Init
  <2> SUFFICES ASSUME InitTree
               PROVE  Set!Init
    OBVIOUS
  <2>1. TreeInv
    BY TreeBegins
  <2>2. ToSet(AvlCollect(root)) = Filed(root)
    BY <2>1, SoundHas DEF TreeInv
  <2> QED
    BY <2>2, OfNil DEF InitTree, Set!Init
<1>2. TreeInv /\ TreeInv' /\ [NextTree]_treeVars => [Set!Next]_<<ToSet(AvlCollect(root)), size>>
  <2> SUFFICES ASSUME TreeInv, TreeInv', [NextTree]_treeVars
               PROVE  [Set!Next]_<<ToSet(AvlCollect(root)), size>>
    OBVIOUS
  <2>1. ToSet(AvlCollect(root)) = Filed(root) /\ ToSet(AvlCollect(root')) = Filed(root')
    BY SoundHas DEF TreeInv
  <2>2. \A S : Set!Cardinality(S) = Cardinality(S)
    BY DEF Cardinality, Set!Cardinality
  <2>3. ASSUME NEW pair \in Pairs, Filed(root') = Filed(root) \cup {pair},
               size' = Cardinality(Filed(root'))
        PROVE  Set!Next
    <3>1. Set!Insert(pair)
      BY <2>2, <2>1, <2>3 DEF Set!Insert
    <3> QED
      BY <3>1 DEF Set!Next
  <2>4. ASSUME NEW pair \in Pairs, Filed(root') = Filed(root) \ {pair},
               size' = Cardinality(Filed(root'))
        PROVE  Set!Next
    <3>1. Set!Delete(pair)
      BY <2>2, <2>1, <2>4 DEF Set!Delete
    <3> QED
      BY <3>1 DEF Set!Next
  <2>5. CASE Filed(root') = Filed(root) /\ size' = size
    BY <2>1, <2>5
  <2>6. \/ \E pair \in Pairs : /\ Filed(root') = Filed(root) \cup {pair}
                               /\ size' = Cardinality(Filed(root'))
        \/ \E pair \in Pairs : /\ Filed(root') = Filed(root) \ {pair}
                               /\ size' = Cardinality(Filed(root'))
        \/ Filed(root') = Filed(root) /\ size' = size
    BY TreeSteps
  <2> QED
    BY <2>3, <2>4, <2>5, <2>6
<1> QED
  BY <1>1, <1>2, TreeInvHolds, PTL DEF TreeSpec, IsMultimap, Set!Spec

------------------------------------------------------------------------------
(* Ranges *)

\* The loop of Chosen.
LEMMA ChosenRuns ==
  ASSUME NEW s \in Seq(KeyedOffsets), NEW S
  PROVE  \E f : /\ f \in [0..Len(s) -> Seq(Offsets)]
                /\ f[0] = <<>>
                /\ \A n \in 1..Len(s) :
                     f[n] = IF s[n][1] \in S THEN Append(f[n - 1], s[n][2]) ELSE f[n - 1]
                /\ Chosen(s, S) = f[Len(s)]
<1> DEFINE N == Len(s)
           X == Seq(Offsets)
           After(n, t) == IF s[n][1] \in S THEN Append(t, s[n][2]) ELSE t
           step == [q \in (1..N) \X X |-> After(q[1], q[2])]
           chosen[i \in 0..N] ==
             IF i = 0 THEN <<>>
             ELSE IF s[i][1] \in S THEN Append(chosen[i - 1], s[i][2])
             ELSE chosen[i - 1]
<1>1. N \in Nat /\ DOMAIN s = 1..N /\ <<>> \in X
  OBVIOUS
<1>2. ASSUME NEW n \in 1..N, NEW t \in X
      PROVE  After(n, t) \in X
  <2>1. s[n] \in KeyedOffsets
    BY <1>1
  <2>2. s[n][2] \in Offsets
    BY <2>1 DEF KeyedOffsets
  <2> QED
    BY <2>2
<1> HIDE DEF After, N, X
<1>3. step \in [(1..N) \X X -> X] /\ \A n \in 1..N, t \in X : step[<<n, t>>] = After(n, t)
  BY <1>2
<1> HIDE DEF step
<1>4. PICK f : IsLoop(f, N, X, <<>>, step)
  BY <1>1, <1>3, LoopExists
<1>5. /\ f \in [0..N -> X] /\ f[0] = <<>>
      /\ \A n \in 1..N : f[n] = After(n, f[n - 1])
  <2>1. ASSUME NEW n \in 1..N
        PROVE  f[n] = After(n, f[n - 1])
    <3>1. n - 1 \in 0..N
      BY <1>1
    <3>2. f[n - 1] \in X /\ f[n] = step[<<n, f[n - 1]>>]
      BY <1>4, <3>1 DEF IsLoop
    <3> QED
      BY <1>3, <3>2
  <2> QED
    BY <1>4, <2>1 DEF IsLoop
<1>6. ASSUME NEW n \in 0..N
      PROVE  f[n] = IF n = 0 THEN <<>> ELSE After(n, f[n - 1])
  <2>1. n # 0 => n \in 1..N
    BY <1>1
  <2> QED
    BY <1>5, <2>1
<1>7. f = [n \in 0..N |-> f[n]]
  BY <1>5
<1>8. f = [i \in 0..N |->
             IF i = 0 THEN <<>>
             ELSE IF s[i][1] \in S THEN Append(f[i - 1], s[i][2])
             ELSE f[i - 1]]
  BY <1>6, <1>7, Zenon DEF After
<1>9. chosen = [i \in 0..N |->
             IF i = 0 THEN <<>>
             ELSE IF s[i][1] \in S THEN Append(chosen[i - 1], s[i][2])
             ELSE chosen[i - 1]]
  BY <1>8, Zenon
<1>10. Chosen(s, S) = chosen[N]
  BY DEF Chosen, N
<1> HIDE DEF chosen
<1>11. \A n \in 0..N : chosen[n] = IF n = 0 THEN <<>> ELSE After(n, chosen[n - 1])
  BY <1>9, Zenon DEF After
<1> DEFINE Same == [n \in 0..N |-> {f[n]}]
<1>12. chosen[0] \in Same[0]
  BY <1>1, <1>5, <1>11
<1>13. ASSUME NEW n \in 1..N, chosen[n - 1] \in Same[n - 1]
       PROVE  chosen[n] \in Same[n]
  <2>1. n \in 0..N /\ n - 1 \in 0..N /\ n # 0
    BY <1>1
  <2>2. chosen[n - 1] = f[n - 1]
    BY <1>13, <2>1
  <2>3. chosen[n] = f[n]
    BY <1>5, <1>11, <2>1, <2>2
  <2> QED
    BY <2>1, <2>3
<1> HIDE DEF Same
<1>14. \A n \in 0..N : chosen[n] \in Same[n]
  BY <1>1, <1>12, <1>13, LoopInvariant
<1>15. chosen[N] = f[N]
  BY <1>1, <1>14 DEF Same
<1>16. \A n \in 1..N : f[n] = IF s[n][1] \in S THEN Append(f[n - 1], s[n][2]) ELSE f[n - 1]
  BY <1>5 DEF After
<1> QED
  BY <1>5, <1>10, <1>15, <1>16 DEF N, X

LEMMA ChosenBy ==
  ASSUME NEW s \in Seq(KeyedOffsets), NEW S
  PROVE  /\ Chosen(s, S) \in Seq(Offsets)
         /\ (\A e \in ToSet(s) : e[1] \notin S) => Chosen(s, S) = <<>>
<1> DEFINE N == Len(s)
<1>1. N \in Nat /\ DOMAIN s = 1..N
  OBVIOUS
<1>2. PICK f : /\ f \in [0..N -> Seq(Offsets)]
               /\ f[0] = <<>>
               /\ \A n \in 1..N :
                    f[n] = IF s[n][1] \in S THEN Append(f[n - 1], s[n][2]) ELSE f[n - 1]
               /\ Chosen(s, S) = f[N]
  BY ChosenRuns
<1> HIDE DEF N
<1>3. N \in 0..N
  BY <1>1
<1>4. ASSUME \A e \in ToSet(s) : e[1] \notin S
      PROVE  f[N] = <<>>
  <2> DEFINE None == [n \in 0..N |-> {<<>>}]
  <2>1. f[0] \in None[0]
    BY <1>1, <1>2
  <2>2. ASSUME NEW n \in 1..N, f[n - 1] \in None[n - 1]
        PROVE  f[n] \in None[n]
    <3>1. n \in 0..N /\ n - 1 \in 0..N
      BY <1>1
    <3>2. s[n] \in ToSet(s)
      BY <1>1 DEF ToSet
    <3>3. f[n] = f[n - 1]
      BY <1>2, <1>4, <3>2
    <3> QED
      BY <2>2, <3>1, <3>3
  <2> HIDE DEF None
  <2>3. \A n \in 0..N : f[n] \in None[n]
    BY <1>1, <2>1, <2>2, LoopInvariant
  <2> QED
    BY <1>3, <2>3 DEF None
<1> QED
  BY <1>2, <1>3, <1>4

\* Keys that are not in the listing choose nothing.
LEMMA ChosenSame ==
  ASSUME NEW s \in Seq(KeyedOffsets), NEW S, NEW T,
         \A e \in ToSet(s) : e[1] \in S <=> e[1] \in T
  PROVE  Chosen(s, S) = Chosen(s, T)
<1> DEFINE N == Len(s)
<1>1. N \in Nat /\ DOMAIN s = 1..N
  OBVIOUS
<1>2. PICK f : /\ f \in [0..N -> Seq(Offsets)]
               /\ f[0] = <<>>
               /\ \A n \in 1..N :
                    f[n] = IF s[n][1] \in S THEN Append(f[n - 1], s[n][2]) ELSE f[n - 1]
               /\ Chosen(s, S) = f[N]
  BY ChosenRuns
<1>3. PICK g : /\ g \in [0..N -> Seq(Offsets)]
               /\ g[0] = <<>>
               /\ \A n \in 1..N :
                    g[n] = IF s[n][1] \in T THEN Append(g[n - 1], s[n][2]) ELSE g[n - 1]
               /\ Chosen(s, T) = g[N]
  BY ChosenRuns
<1> HIDE DEF N
<1> DEFINE Same == [n \in 0..N |-> {g[n]}]
<1>4. f[0] \in Same[0]
  BY <1>1, <1>2, <1>3
<1>5. ASSUME NEW n \in 1..N, f[n - 1] \in Same[n - 1]
      PROVE  f[n] \in Same[n]
  <2>1. n \in 0..N /\ n - 1 \in 0..N
    BY <1>1
  <2>2. s[n] \in ToSet(s)
    BY <1>1 DEF ToSet
  <2>3. s[n][1] \in S <=> s[n][1] \in T
    BY <2>2
  <2>4. f[n - 1] = g[n - 1]
    BY <1>5, <2>1
  <2>5. f[n] = g[n]
    BY <1>2, <1>3, <2>3, <2>4, Zenon
  <2> QED
    BY <2>1, <2>5
<1> HIDE DEF Same
<1>6. \A n \in 0..N : f[n] \in Same[n]
  BY <1>1, <1>4, <1>5, LoopInvariant
<1> QED
  BY <1>1, <1>2, <1>3, <1>6 DEF Same

\* A choice from two listings, one after the other.
LEMMA ChosenFromBoth ==
  ASSUME NEW a \in Seq(KeyedOffsets), NEW b \in Seq(KeyedOffsets), NEW S
  PROVE  Chosen(a \o b, S) = Chosen(a, S) \o Chosen(b, S)
<1> DEFINE c == a \o b
           M == Len(a)
           N == Len(b)
<1>1. M \in Nat /\ N \in Nat /\ DOMAIN b = 1..N /\ M \in 0..M /\ N \in 0..N
  OBVIOUS
<1>2. /\ c \in Seq(KeyedOffsets) /\ Len(c) = M + N
      /\ \A i \in 1..(M + N) : c[i] = IF i <= M THEN a[i] ELSE b[i - M]
  BY ConcatProperties
<1>3. PICK f : /\ f \in [0..M -> Seq(Offsets)]
               /\ f[0] = <<>>
               /\ \A n \in 1..M :
                    f[n] = IF a[n][1] \in S THEN Append(f[n - 1], a[n][2]) ELSE f[n - 1]
               /\ Chosen(a, S) = f[M]
  BY ChosenRuns
<1>4. PICK g : /\ g \in [0..N -> Seq(Offsets)]
               /\ g[0] = <<>>
               /\ \A n \in 1..N :
                    g[n] = IF b[n][1] \in S THEN Append(g[n - 1], b[n][2]) ELSE g[n - 1]
               /\ Chosen(b, S) = g[N]
  BY ChosenRuns
<1> HIDE DEF c
<1>5. PICK h : /\ h \in [0..(M + N) -> Seq(Offsets)]
               /\ h[0] = <<>>
               /\ \A n \in 1..(M + N) :
                    h[n] = IF c[n][1] \in S THEN Append(h[n - 1], c[n][2]) ELSE h[n - 1]
               /\ Chosen(c, S) = h[M + N]
  <2>1. \E h : /\ h \in [0..Len(c) -> Seq(Offsets)]
               /\ h[0] = <<>>
               /\ \A n \in 1..Len(c) :
                    h[n] = IF c[n][1] \in S THEN Append(h[n - 1], c[n][2]) ELSE h[n - 1]
               /\ Chosen(c, S) = h[Len(c)]
    <3>1. c \in Seq(KeyedOffsets)
      BY <1>2
    <3> QED
      BY <3>1, ChosenRuns, Zenon
  <2> QED
    BY <1>2, <2>1
<1> HIDE DEF M, N
<1> DEFINE First == [n \in 0..M |-> {f[n]}]
<1>6. h[0] \in First[0]
  BY <1>1, <1>3, <1>5
<1>7. ASSUME NEW n \in 1..M, h[n - 1] \in First[n - 1]
      PROVE  h[n] \in First[n]
  <2>1. n \in 0..M /\ n - 1 \in 0..M /\ n \in 1..(M + N) /\ n <= M
    BY <1>1
  <2>2. h[n - 1] = f[n - 1] /\ c[n] = a[n]
    BY <1>2, <1>7, <2>1
  <2>3. h[n] = f[n]
    BY <1>3, <1>5, <2>1, <2>2
  <2> QED
    BY <2>1, <2>3
<1> HIDE DEF First
<1>8. \A n \in 0..M : h[n] \in First[n]
  BY <1>1, <1>6, <1>7, LoopInvariant
<1>9. h[M] = f[M]
  BY <1>1, <1>8 DEF First
<1> DEFINE k == [n \in 0..N |-> h[M + n]]
           Both == [n \in 0..N |-> {f[M] \o g[n]}]
<1>10. f[M] \in Seq(Offsets) /\ \A n \in 0..N : g[n] \in Seq(Offsets)
  BY <1>1, <1>3, <1>4
<1>11. k[0] \in Both[0]
  <2>1. k[0] = f[M] /\ 0 \in 0..N
    BY <1>1, <1>9
  <2>2. f[M] \o <<>> = f[M]
    BY <1>10, ConcatEmptySeq
  <2> QED
    BY <1>4, <2>1, <2>2
<1>12. ASSUME NEW n \in 1..N, k[n - 1] \in Both[n - 1]
       PROVE  k[n] \in Both[n]
  <2>1. /\ n \in 0..N /\ n - 1 \in 0..N /\ M + n \in 1..(M + N) /\ ~ (M + n <= M)
        /\ (M + n) - M = n /\ (M + n) - 1 = M + (n - 1)
    BY <1>1
  <2>2. h[M + (n - 1)] = f[M] \o g[n - 1] /\ c[M + n] = b[n]
    BY <1>2, <1>12, <2>1
  <2>3. h[M + n] = IF b[n][1] \in S THEN Append(f[M] \o g[n - 1], b[n][2]) ELSE f[M] \o g[n - 1]
    BY <1>5, <2>1, <2>2
  <2>4. b[n][2] \in Offsets
    <3>1. b[n] \in KeyedOffsets
      BY <1>1
    <3> QED
      BY <3>1 DEF KeyedOffsets
  <2>5. Append(f[M] \o g[n - 1], b[n][2]) = f[M] \o Append(g[n - 1], b[n][2])
    <3> DEFINE u == f[M]
               v == g[n - 1]
               o == b[n][2]
    <3>1. u \in Seq(Offsets) /\ v \in Seq(Offsets) /\ o \in Offsets
      BY <1>10, <2>1, <2>4
    <3> HIDE DEF u, v, o
    <3>2. Append(u \o v, o) = u \o Append(v, o)
      <4>1. <<o>> \in Seq(Offsets)
        BY <3>1
      <4>2. u \o v \in Seq(Offsets)
        BY <3>1
      <4>3. (u \o v) \o <<o>> = u \o (v \o <<o>>)
        BY <3>1, <4>1, ConcatAssociative
      <4>4. Append(u \o v, o) = (u \o v) \o <<o>>
        BY <3>1, <4>2, AppendIsConcat
      <4>5. Append(v, o) = v \o <<o>>
        BY <3>1, AppendIsConcat
      <4> QED
        BY <4>3, <4>4, <4>5
    <3> QED
      BY <3>2 DEF u, v, o
  <2>6. h[M + n] = f[M] \o g[n]
    BY <1>4, <2>3, <2>5
  <2> QED
    BY <2>1, <2>6
<1> HIDE DEF Both, k
<1>13. \A n \in 0..N : k[n] \in Both[n]
  BY <1>1, <1>11, <1>12, LoopInvariant
<1>14. h[M + N] = f[M] \o g[N]
  BY <1>1, <1>13 DEF k, Both
<1> QED
  BY <1>3, <1>4, <1>5, <1>14 DEF c

\* A node whose key is chosen contributes all its offsets.
LEMMA ChosenFromBlock ==
  ASSUME NEW key \in Keys, NEW offsets \in Seq(Offsets), NEW S
  PROVE  Chosen(Block(key, offsets), S) = IF key \in S THEN offsets ELSE <<>>
<1> DEFINE s == Block(key, offsets)
           N == Len(offsets)
<1>1. /\ N \in Nat /\ s \in Seq(KeyedOffsets) /\ Len(s) = N
      /\ \A i \in 1..N : s[i] = <<key, offsets[i]>>
  BY BlockIs
<1> HIDE DEF s
<1>2. \A i \in 1..N : s[i][1] = key /\ s[i][2] = offsets[i]
  BY <1>1
<1>3. CASE key \notin S
  <2>1. \A e \in ToSet(s) : e[1] \notin S
    BY <1>1, <1>2, <1>3 DEF ToSet
  <2> QED
    BY <1>1, <1>3, <2>1, ChosenBy DEF s
<1>4. CASE key \in S
  <2>1. PICK f : /\ f \in [0..N -> Seq(Offsets)]
                 /\ f[0] = <<>>
                 /\ \A n \in 1..N :
                      f[n] = IF s[n][1] \in S THEN Append(f[n - 1], s[n][2]) ELSE f[n - 1]
                 /\ Chosen(s, S) = f[N]
    <3>1. \E f : /\ f \in [0..Len(s) -> Seq(Offsets)]
                 /\ f[0] = <<>>
                 /\ \A n \in 1..Len(s) :
                      f[n] = IF s[n][1] \in S THEN Append(f[n - 1], s[n][2]) ELSE f[n - 1]
                 /\ Chosen(s, S) = f[Len(s)]
      <4>1. s \in Seq(KeyedOffsets)
        BY <1>1
      <4> QED
        BY <4>1, ChosenRuns, Zenon
    <3> QED
      BY <1>1, <3>1
  <2>2. DOMAIN offsets = 1..N /\ \A i \in 1..N : offsets[i] \in Offsets
    OBVIOUS
  <2> HIDE DEF N
  <2> DEFINE Part == [n \in 0..N |-> {[i \in 1..n |-> offsets[i]]}]
  <2>3. f[0] \in Part[0]
    <3>1. [i \in 1..0 |-> offsets[i]] = <<>>
      OBVIOUS
    <3> QED
      BY <1>1, <2>1, <3>1
  <2>4. ASSUME NEW n \in 1..N, f[n - 1] \in Part[n - 1]
        PROVE  f[n] \in Part[n]
    <3> DEFINE u == [i \in 1..(n - 1) |-> offsets[i]]
               v == [i \in 1..n |-> offsets[i]]
    <3>1. n \in 0..N /\ n - 1 \in 0..N /\ n - 1 \in Nat /\ n \in Nat
      BY <1>1
    <3>2. f[n - 1] = u
      BY <2>4, <3>1
    <3>3. f[n] = Append(u, offsets[n])
      BY <1>2, <1>4, <2>1, <3>2
    <3>4. Append(u, offsets[n]) = v
      <4>1. \A i \in 1..(n - 1) : i \in 1..N
        BY <1>1, <3>1
      <4>2. u \in Seq(Offsets) /\ Len(u) = n - 1
        BY <2>2, <3>1, <4>1
      <4>3. v \in Seq(Offsets) /\ Len(v) = n
        BY <1>1, <2>2, <3>1
      <4> DEFINE w == Append(u, offsets[n])
      <4>4. w \in Seq(Offsets) /\ Len(w) = n
        BY <2>2, <3>1, <4>2
      <4>5. ASSUME NEW i \in 1..n
            PROVE  w[i] = v[i]
        <5>1. i = n \/ i \in 1..(n - 1)
          BY <3>1
        <5>2. v[i] = offsets[i]
          OBVIOUS
        <5>3. i \in 1..(n - 1) => w[i] = u[i] /\ u[i] = offsets[i]
          BY <4>2
        <5>4. w[n] = offsets[n]
          BY <3>1, <4>2
        <5> QED
          BY <5>1, <5>2, <5>3, <5>4
      <4> HIDE DEF u, v, w
      <4> QED
        BY <4>3, <4>4, <4>5, SeqEqual DEF w
    <3> QED
      BY <3>1, <3>3, <3>4
  <2> HIDE DEF Part
  <2>5. \A n \in 0..N : f[n] \in Part[n]
    BY <1>1, <2>3, <2>4, LoopInvariant
  <2>6. N \in 0..N
    BY <1>1
  <2>7. f[N] = [i \in 1..N |-> offsets[i]]
    BY <2>5, <2>6 DEF Part
  <2>8. offsets = [i \in 1..N |-> offsets[i]]
    BY <2>2
  <2> QED
    BY <1>4, <2>1, <2>7, <2>8 DEF s
<1> QED
  BY <1>3, <1>4

\* The recursion of AvlRange.
LEMMA RangeIs ==
  ASSUME NEW min \in Int, NEW max \in Int
  PROVE  /\ AvlRange(Nil, min, max) = <<>>
         /\ \A n \in Trees : n # Nil =>
              AvlRange(n, min, max) =
                (IF n.key >= min THEN AvlRange(n.left, min, max) ELSE <<>>)
                \o (IF n.key \in min..max THEN n.offsets ELSE <<>>)
                \o (IF n.key <= max THEN AvlRange(n.right, min, max) ELSE <<>>)
<1> DEFINE R == Seq(Offsets)
           After(m, a, b) ==
             (IF m.key >= min THEN a ELSE <<>>)
             \o (IF m.key \in min..max THEN m.offsets ELSE <<>>)
             \o (IF m.key <= max THEN b ELSE <<>>)
           step == [q \in AllTrees \X R \X R |-> After(q[1], q[2], q[3])]
           walked[m \in Trees] ==
             IF m = Nil THEN <<>>
             ELSE (IF m.key >= min THEN walked[m.left] ELSE <<>>)
                  \o (IF m.key \in min..max THEN m.offsets ELSE <<>>)
                  \o (IF m.key <= max THEN walked[m.right] ELSE <<>>)
<1>1. <<>> \in R
  OBVIOUS
<1>2. ASSUME NEW m \in AllTrees, NEW a \in R, NEW b \in R, m # Nil
      PROVE  After(m, a, b) \in R
  <2> DEFINE u == IF m.key >= min THEN a ELSE <<>>
             v == IF m.key \in min..max THEN m.offsets ELSE <<>>
             w == IF m.key <= max THEN b ELSE <<>>
  <2>1. m.offsets \in Seq(Offsets)
    BY <1>2, Parts
  <2>2. u \in Seq(Offsets) /\ v \in Seq(Offsets) /\ w \in Seq(Offsets)
    BY <2>1
  <2>3. After(m, a, b) = (u \o v) \o w
    OBVIOUS
  <2> HIDE DEF u, v, w, After
  <2>4. (u \o v) \o w \in Seq(Offsets)
    BY <2>2
  <2> QED
    BY <2>3, <2>4
<1> HIDE DEF R, After
<1>3. \A m \in AllTrees, a, b \in R : step[<<m, a, b>>] = After(m, a, b)
  OBVIOUS
<1> HIDE DEF step
<1>4. \A m \in AllTrees, a, b \in R : m # Nil => step[<<m, a, b>>] \in R
  BY <1>2, <1>3
<1>5. PICK f : IsFold(f, Trees, Nil, R, <<>>, step)
  BY <1>1, <1>4, TreeFoldExists
<1>6. ASSUME NEW m \in Trees
      PROVE  f[m] = IF m = Nil THEN <<>> ELSE After(m, f[m.left], f[m.right])
  <2>1. m # Nil => /\ m \in AllTrees /\ f[m.left] \in R /\ f[m.right] \in R
                   /\ f[m] = step[<<m, f[m.left], f[m.right]>>]
    BY <1>5, InTrees DEF IsFold
  <2>2. f[Nil] = <<>>
    BY <1>5, InTrees DEF IsFold
  <2> QED
    BY <1>3, <2>1, <2>2
<1>7. f = [m \in Trees |-> f[m]]
  BY <1>5 DEF IsFold
<1>8. f = [m \in Trees |->
             IF m = Nil THEN <<>>
             ELSE (IF m.key >= min THEN f[m.left] ELSE <<>>)
                  \o (IF m.key \in min..max THEN m.offsets ELSE <<>>)
                  \o (IF m.key <= max THEN f[m.right] ELSE <<>>)]
  BY <1>6, <1>7, Zenon DEF After
<1>9. walked = [m \in Trees |->
             IF m = Nil THEN <<>>
             ELSE (IF m.key >= min THEN walked[m.left] ELSE <<>>)
                  \o (IF m.key \in min..max THEN m.offsets ELSE <<>>)
                  \o (IF m.key <= max THEN walked[m.right] ELSE <<>>)]
  BY <1>8, Zenon
<1>10. \A t : AvlRange(t, min, max) = walked[t]
  BY DEF AvlRange
<1> HIDE DEF walked
<1>11. \A n \in Trees : walked[n] =
         IF n = Nil THEN <<>> ELSE After(n, walked[n.left], walked[n.right])
  BY <1>9, Zenon DEF After
<1>12. AvlRange(Nil, min, max) = <<>>
  BY <1>10, <1>11, InTrees
<1>13. \A n \in Trees : n # Nil =>
         AvlRange(n, min, max) =
           After(n, AvlRange(n.left, min, max), AvlRange(n.right, min, max))
  BY <1>10, <1>11, InTrees
<1> QED
  BY <1>12, <1>13 DEF After

\* The pruned walk answers what is chosen from the whole one.
LEMMA RangeChooses ==
  ASSUME NEW tree \in AllTrees, Search(tree), NEW min \in Int, NEW max \in Int,
         NEW S, \A k \in Keys : k \in S <=> k \in min..max
  PROVE  AvlRange(tree, min, max) = Chosen(AvlCollect(tree), S)
<1> DEFINE A(t) == AvlRange(t, min, max)
           C(t) == AvlCollect(t)
           P == {t \in AllTrees : Search(t) => A(t) = Chosen(C(t), S)}
<1>1. Nil \in P
  <2>1. A(Nil) = <<>> /\ C(Nil) = <<>>
    BY RangeIs, CollectIs
  <2>2. Chosen(<<>>, S) = <<>>
    <3>1. <<>> \in Seq(KeyedOffsets) /\ \A e \in ToSet(<<>>) : e[1] \notin S
      BY DEF ToSet
    <3> QED
      BY <3>1, ChosenBy
  <2> QED
    BY <2>1, <2>2, OfNil
<1>2. ASSUME NEW n \in AllTrees, n # Nil, n.left \in P, n.right \in P, Search(n)
      PROVE  A(n) = Chosen(C(n), S)
  <2> DEFINE l == n.left
             r == n.right
             s == Block(n.key, n.offsets)
  <2>1. /\ n \in Nodes(AllTrees) /\ n.key \in Keys /\ n.key \in Int
        /\ n.offsets \in Seq(Offsets) /\ l \in AllTrees /\ r \in AllTrees
    BY <1>2, Parts, KeysAssumption
  <2>2. Search(l) /\ Search(r) /\ Fits(n.key, n.offsets, l, r)
    BY <1>2, <2>1, OfNode
  <2>3. n \in Trees
    BY <1>2, SearchTreesAreTrees
  <2>4. A(l) = Chosen(C(l), S) /\ A(r) = Chosen(C(r), S)
    BY <1>2, <2>2
  <2>5. A(n) = (IF n.key >= min THEN A(l) ELSE <<>>)
               \o (IF n.key \in min..max THEN n.offsets ELSE <<>>)
               \o (IF n.key <= max THEN A(r) ELSE <<>>)
    BY <1>2, <2>3, RangeIs
  <2>6. C(n) = (C(l) \o s) \o C(r)
    BY <1>2, <2>3, CollectIs
  <2>7. /\ C(l) \in Seq(KeyedOffsets) /\ ToSet(C(l)) = Filed(l)
        /\ C(r) \in Seq(KeyedOffsets) /\ ToSet(C(r)) = Filed(r)
    BY <2>1, <2>2, CollectLists DEF Lists
  <2>8. s \in Seq(KeyedOffsets)
    BY <2>1, BlockIs
  <2>9. Chosen(s, S) = IF n.key \in min..max THEN n.offsets ELSE <<>>
    BY <2>1, ChosenFromBlock
  <2>10. /\ \A e \in Filed(l) : e[1] < n.key /\ e[1] \in Keys /\ e[1] \in Int
         /\ \A e \in Filed(r) : e[1] > n.key /\ e[1] \in Keys /\ e[1] \in Int
    BY <2>1, <2>2, FiledKeys, KeysAssumption DEF Fits
  <2>11. ~ n.key >= min => Chosen(C(l), S) = <<>>
    <3>1. ~ n.key >= min => \A e \in Filed(l) : e[1] \notin S
      BY <2>1, <2>10
    <3> HIDE DEF C
    <3> QED
      BY <2>7, <3>1, ChosenBy
  <2>12. ~ n.key <= max => Chosen(C(r), S) = <<>>
    <3>1. ~ n.key <= max => \A e \in Filed(r) : e[1] \notin S
      BY <2>1, <2>10
    <3> HIDE DEF C
    <3> QED
      BY <2>7, <3>1, ChosenBy
  <2> HIDE DEF A, C, P, l, r, s
  <2>13. C(l) \o s \in Seq(KeyedOffsets)
    BY <2>7, <2>8
  <2>14. Chosen((C(l) \o s) \o C(r), S) = Chosen(C(l) \o s, S) \o Chosen(C(r), S)
    <3> DEFINE u == C(l) \o s
               v == C(r)
    <3>1. u \in Seq(KeyedOffsets) /\ v \in Seq(KeyedOffsets)
      BY <2>7, <2>13
    <3> HIDE DEF u, v
    <3>2. Chosen(u \o v, S) = Chosen(u, S) \o Chosen(v, S)
      BY <3>1, ChosenFromBoth
    <3> QED
      BY <3>2 DEF u, v
  <2>15. Chosen(C(l) \o s, S) = Chosen(C(l), S) \o Chosen(s, S)
    <3> DEFINE u == C(l)
    <3>1. u \in Seq(KeyedOffsets)
      BY <2>7
    <3> HIDE DEF u
    <3>2. Chosen(u \o s, S) = Chosen(u, S) \o Chosen(s, S)
      BY <2>8, <3>1, ChosenFromBoth
    <3> QED
      BY <3>2 DEF u
  <2>16. (IF n.key >= min THEN A(l) ELSE <<>>) = Chosen(C(l), S)
    BY <2>4, <2>11
  <2>17. (IF n.key <= max THEN A(r) ELSE <<>>) = Chosen(C(r), S)
    BY <2>4, <2>12
  <2>18. A(n) = (Chosen(C(l), S) \o Chosen(s, S)) \o Chosen(C(r), S)
    BY <2>5, <2>9, <2>16, <2>17, Zenon
  <2> QED
    BY <2>6, <2>14, <2>15, <2>18, Zenon
<1>3. \A n \in AllTrees : n # Nil /\ n.left \in P /\ n.right \in P => n \in P
  BY <1>2
<1> HIDE DEF P
<1>4. AllTrees \subseteq P
  BY <1>1, <1>3, TreesLayered, TreeInduction DEF AllTrees
<1> QED
  BY <1>4 DEF P

\* The range queries answer what is filed under the keys in range, in order; gt
\* and lt miss the infinity on their side and the keys that are too near their bound,
\* and answer the bound itself where 1e-15 does not move it.
THEOREM RangesAreExact ==
  TreeSpec => []RangesExact
<1>1. ASSUME TreeInv
      PROVE  RangesExact
  <2> DEFINE pairs == AvlCollect(root)
  <2>1. root \in AllTrees /\ Search(root)
    BY <1>1 DEF TreeInv, Sound
  <2>2. ASSUME NEW min \in Keys \cup {MinKey}, NEW max \in Keys \cup {MaxKey}
        PROVE  AvlRange(root, min, max) = Chosen(pairs, min..max)
    <3>1. min \in Int /\ max \in Int
      BY KeysAssumption
    <3> QED
      BY <2>1, <3>1, RangeChooses
  <2>3. ASSUME NEW k \in Keys
        PROVE  GreaterThan(root, k) =
                 Chosen(pairs, {key \in Keys : /\ key <= MaxKey
                                               /\ IF Above[k] = k THEN key >= k
                                                  ELSE key > k /\ ~ Near(k, key)})
    <3> DEFINE S == {key \in Keys : /\ key <= MaxKey
                                    /\ IF Above[k] = k THEN key >= k
                                       ELSE key > k /\ ~ Near(k, key)}
    <3>1. /\ k \in Int /\ MaxKey \in Int /\ Above[k] \in Int /\ Above[k] >= k
          /\ Below[k] \in Int /\ Below[k] =< k
      BY KeysAssumption
    <3>2. ASSUME NEW key \in Keys
          PROVE  key \in S <=> key \in Above[k]..MaxKey
      <4>1. key \in Int
        BY KeysAssumption
      <4>2. Near(k, key) <=> key # k /\ key >= Below[k] + 1 /\ key <= Above[k] - 1
        BY <3>1, <4>1 DEF Near
      <4>3. key \in Above[k]..MaxKey <=> key <= MaxKey /\ key >= Above[k]
        BY <3>1, <4>1
      <4> QED
        BY <3>1, <4>1, <4>2, <4>3
    <3> HIDE DEF S
    <3>3. AvlRange(root, Above[k], MaxKey) = Chosen(pairs, S)
      BY <2>1, <3>1, <3>2, RangeChooses
    <3> QED
      BY <3>3 DEF GreaterThan, S
  <2>4. ASSUME NEW k \in Keys
        PROVE  LessThan(root, k) =
                 Chosen(pairs, {key \in Keys : /\ key >= MinKey
                                               /\ IF Below[k] = k THEN key <= k
                                                  ELSE key < k /\ ~ Near(k, key)})
    <3> DEFINE S == {key \in Keys : /\ key >= MinKey
                                    /\ IF Below[k] = k THEN key <= k
                                       ELSE key < k /\ ~ Near(k, key)}
    <3>1. /\ k \in Int /\ MinKey \in Int /\ Above[k] \in Int /\ Above[k] >= k
          /\ Below[k] \in Int /\ Below[k] =< k
      BY KeysAssumption
    <3>2. ASSUME NEW key \in Keys
          PROVE  key \in S <=> key \in MinKey..Below[k]
      <4>1. key \in Int
        BY KeysAssumption
      <4>2. Near(k, key) <=> key # k /\ key >= Below[k] + 1 /\ key <= Above[k] - 1
        BY <3>1, <4>1 DEF Near
      <4>3. key \in MinKey..Below[k] <=> key >= MinKey /\ key <= Below[k]
        BY <3>1, <4>1
      <4> QED
        BY <3>1, <4>1, <4>2, <4>3
    <3> HIDE DEF S
    <3>3. AvlRange(root, MinKey, Below[k]) = Chosen(pairs, S)
      BY <2>1, <3>1, <3>2, RangeChooses
    <3> QED
      BY <3>3 DEF LessThan, S
  <2> QED
    BY <2>2, <2>3, <2>4 DEF RangesExact
<1> QED
  BY <1>1, TreeInvHolds, PTL

------------------------------------------------------------------------------
(* What follows what, in a sequence and in a listing *)

\* What is in two sequences, one after the other.
LEMMA ConcatElements ==
  ASSUME NEW X, NEW a \in Seq(X), NEW b \in Seq(X)
  PROVE  /\ a \o b \in Seq(X) /\ Len(a \o b) = Len(a) + Len(b)
         /\ \A i \in 1..Len(a) : i \in 1..Len(a \o b) /\ (a \o b)[i] = a[i]
         /\ \A j \in 1..Len(b) : Len(a) + j \in 1..Len(a \o b) /\ (a \o b)[Len(a) + j] = b[j]
         /\ \A i \in 1..Len(a \o b) : i \in 1..Len(a) \/ \E j \in 1..Len(b) : i = Len(a) + j
         /\ ToSet(a \o b) = ToSet(a) \cup ToSet(b)
<1> DEFINE c == a \o b
           M == Len(a)
           N == Len(b)
<1>1. M \in Nat /\ N \in Nat /\ DOMAIN a = 1..M /\ DOMAIN b = 1..N
  OBVIOUS
<1>2. /\ c \in Seq(X) /\ Len(c) = M + N
      /\ \A i \in 1..(M + N) : c[i] = IF i <= M THEN a[i] ELSE b[i - M]
  BY ConcatProperties
<1>3. DOMAIN c = 1..(M + N)
  BY <1>2
<1> HIDE DEF c, M, N
<1>4. /\ \A i \in 1..M : i \in 1..(M + N) /\ c[i] = a[i]
      /\ \A j \in 1..N : M + j \in 1..(M + N) /\ c[M + j] = b[j]
  BY <1>1, <1>2
<1>5. ASSUME NEW i \in 1..(M + N), i \notin 1..M
      PROVE  \E j \in 1..N : i = M + j
  <2>1. i - M \in 1..N /\ i = M + (i - M)
    BY <1>1, <1>5
  <2> QED
    BY <2>1
<1>6. ASSUME NEW x \in ToSet(c)
      PROVE  x \in ToSet(a) \cup ToSet(b)
  <2>1. PICK i \in 1..(M + N) : x = c[i]
    BY <1>3 DEF ToSet
  <2>2. i \in 1..M \/ \E j \in 1..N : i = M + j
    BY <1>5
  <2> QED
    BY <1>1, <1>4, <2>1, <2>2 DEF ToSet
<1>7. ToSet(a) \subseteq ToSet(c) /\ ToSet(b) \subseteq ToSet(c)
  BY <1>1, <1>3, <1>4 DEF ToSet
<1> QED
  BY <1>2, <1>4, <1>5, <1>6, <1>7 DEF c, M, N

\* A listing by key.
ByKey(s) == \A i, j \in DOMAIN s : i < j => s[i][1] <= s[j][1]

LEMMA KeysAreNumbers == \A e \in KeyedOffsets : e[1] \in Keys /\ e[1] \in Int /\ e[2] \in Offsets
BY KeysAssumption DEF KeyedOffsets

LEMMA JoinedByKey ==
  ASSUME NEW a \in Seq(KeyedOffsets), ByKey(a), NEW b \in Seq(KeyedOffsets), ByKey(b),
         \A e \in ToSet(a) : \A g \in ToSet(b) : e[1] <= g[1]
  PROVE  ByKey(a \o b)
<1> DEFINE c == a \o b
           M == Len(a)
           N == Len(b)
<1>1. /\ M \in Nat /\ N \in Nat /\ DOMAIN a = 1..M /\ DOMAIN b = 1..N
      /\ DOMAIN c = 1..Len(c)
  OBVIOUS
<1>2. /\ \A i \in 1..Len(a) : i \in 1..Len(a \o b) /\ (a \o b)[i] = a[i]
      /\ \A j \in 1..Len(b) : Len(a) + j \in 1..Len(a \o b) /\ (a \o b)[Len(a) + j] = b[j]
      /\ \A i \in 1..Len(a \o b) : i \in 1..Len(a) \/ \E j \in 1..Len(b) : i = Len(a) + j
  <2> HIDE DEF c, M, N
  <2> QED
    BY ConcatElements
<1> HIDE DEF c, M, N
<1>8. /\ \A i \in 1..M : c[i] = a[i]
      /\ \A j \in 1..N : c[M + j] = b[j]
      /\ \A i \in 1..Len(c) : i \in 1..M \/ \E j \in 1..N : i = M + j
  BY <1>2, Zenon DEF c, M, N
<1>3. /\ \A i, j \in 1..M : i < j => a[i][1] <= a[j][1]
      /\ \A i, j \in 1..N : i < j => b[i][1] <= b[j][1]
      /\ \A i \in 1..M, j \in 1..N : a[i][1] <= b[j][1]
  BY <1>1 DEF ByKey, ToSet
<1> SUFFICES ASSUME NEW i \in 1..Len(c), NEW j \in 1..Len(c), i < j
             PROVE  c[i][1] <= c[j][1]
  BY <1>1 DEF ByKey, c
<1>4. CASE i \in 1..M /\ j \in 1..M
  BY <1>8, <1>3, <1>4
<1>5. ASSUME i \in 1..M, NEW k \in 1..N, j = M + k
      PROVE  c[i][1] <= c[j][1]
  BY <1>8, <1>3, <1>5
<1>6. ASSUME NEW h \in 1..N, i = M + h, NEW k \in 1..N, j = M + k
      PROVE  c[i][1] <= c[j][1]
  <2>1. h < k
    BY <1>1, <1>6
  <2> QED
    BY <1>8, <1>3, <1>6, <2>1
<1>7. ~ (j \in 1..M /\ i \notin 1..M)
  BY <1>1
<1> QED
  BY <1>8, <1>4, <1>5, <1>6, <1>7

\* The walk lists by key what is filed in a tree in order.
LEMMA InOrder ==
  ASSUME NEW tree \in AllTrees, Sorted(tree)
  PROVE  /\ tree \in Trees
         /\ AvlCollect(tree) \in Seq(KeyedOffsets)
         /\ ToSet(AvlCollect(tree)) = Filed(tree)
         /\ ByKey(AvlCollect(tree))
<1> DEFINE C(t) == AvlCollect(t)
           P == {t \in AllTrees : Sorted(t) => ToSet(C(t)) = Filed(t) /\ ByKey(C(t))}
<1>1. Nil \in P
  BY CollectIs, OfNil DEF ToSet, ByKey
<1>2. ASSUME NEW n \in AllTrees, n # Nil, n.left \in P, n.right \in P, Sorted(n)
      PROVE  ToSet(C(n)) = Filed(n) /\ ByKey(C(n))
  <2> DEFINE l == n.left
             r == n.right
             s == Block(n.key, n.offsets)
             at == FiledAt(n.key, n.offsets)
  <2>1. /\ n \in Nodes(AllTrees) /\ n.key \in Keys /\ n.key \in Int /\ n.offsets \in Seq(Offsets)
        /\ l \in AllTrees /\ r \in AllTrees
    BY <1>2, Parts, KeysAssumption
  <2>2. /\ Sorted(l) /\ Sorted(r) /\ Apart(n.key, n.offsets, l, r)
        /\ Filed(n) = Filed(l) \cup at \cup Filed(r)
    BY <1>2, <2>1, OfNode
  <2>3. /\ C(l) \in Seq(KeyedOffsets) /\ ToSet(C(l)) = Filed(l) /\ ByKey(C(l))
        /\ C(r) \in Seq(KeyedOffsets) /\ ToSet(C(r)) = Filed(r) /\ ByKey(C(r))
    BY <1>2, <2>2, SortedTreesAreTrees, CollectIs
  <2>4. C(n) = (C(l) \o s) \o C(r)
    BY <1>2, SortedTreesAreTrees, CollectIs
  <2>5. s \in Seq(KeyedOffsets) /\ ToSet(s) = at /\ ByKey(s)
    <3>1. /\ s \in Seq(KeyedOffsets) /\ ToSet(s) = at /\ Len(s) = Len(n.offsets)
          /\ \A i \in 1..Len(n.offsets) : s[i] = <<n.key, n.offsets[i]>>
      BY <2>1, BlockIs
    <3>2. DOMAIN s = 1..Len(n.offsets)
      BY <3>1
    <3> HIDE DEF s
    <3>3. \A i \in DOMAIN s : s[i][1] = n.key
      BY <3>1, <3>2
    <3> QED
      BY <2>1, <3>1, <3>3 DEF ByKey
  <2>6. /\ \A e \in Filed(l) : e[1] < n.key /\ e[1] \in Int
        /\ \A e \in Filed(r) : e[1] > n.key /\ e[1] \in Int
        /\ \A e \in at : e[1] = n.key
    BY <2>1, <2>2, FiledKeys DEF Apart
  <2> HIDE DEF C, P, l, r, s, at
  <2>7. \A e \in Filed(l) : \A g \in at : e[1] <= g[1]
    BY <2>1, <2>6
  <2>8. /\ C(l) \o s \in Seq(KeyedOffsets) /\ ToSet(C(l) \o s) = Filed(l) \cup at
        /\ ByKey(C(l) \o s)
    BY <2>3, <2>5, <2>7, ConcatElements, JoinedByKey
  <2>9. \A e \in Filed(l) \cup at : \A g \in Filed(r) : e[1] <= g[1]
    BY <2>1, <2>6
  <2> DEFINE u == C(l) \o s
             v == C(r)
  <2>10. u \in Seq(KeyedOffsets) /\ v \in Seq(KeyedOffsets) /\ ByKey(u) /\ ByKey(v)
         /\ ToSet(u) = Filed(l) \cup at /\ ToSet(v) = Filed(r)
    BY <2>3, <2>8
  <2> HIDE DEF u, v
  <2>11. ToSet(u \o v) = ToSet(u) \cup ToSet(v) /\ ByKey(u \o v)
    BY <2>9, <2>10, ConcatElements, JoinedByKey
  <2> QED
    BY <2>2, <2>4, <2>10, <2>11 DEF u, v
<1>3. \A n \in AllTrees : n # Nil /\ n.left \in P /\ n.right \in P => n \in P
  BY <1>2
<1> HIDE DEF P
<1>4. AllTrees \subseteq P
  BY <1>1, <1>3, TreesLayered, TreeInduction DEF AllTrees
<1>5. tree \in Trees
  BY SortedTreesAreTrees
<1> QED
  BY <1>4, <1>5, CollectIs DEF P

------------------------------------------------------------------------------
(* A pair more in a listing *)

\* t is s with one more occurrence of a pair, between u and v.
Around(u, v, s, t, pair) ==
  /\ u \in Seq(KeyedOffsets) /\ v \in Seq(KeyedOffsets)
  /\ s = u \o v /\ t = (u \o <<pair>>) \o v

\* t is s with one more occurrence of a pair, somewhere.
More(s, t, pair) == \E u, v : Around(u, v, s, t, pair)

\* The same, behind all pairs with its key.
MoreAt(s, t, pair) ==
  \E u, v : /\ Around(u, v, s, t, pair)
            /\ \A e \in ToSet(u) : e[1] <= pair[1]
            /\ \A e \in ToSet(v) : e[1] > pair[1]

LEMMA MoreHas ==
  ASSUME NEW pair \in KeyedOffsets, NEW s, NEW t, More(s, t, pair)
  PROVE  /\ s \in Seq(KeyedOffsets) /\ t \in Seq(KeyedOffsets)
         /\ ToSet(t) = ToSet(s) \cup {pair}
<1>1. PICK u, v : Around(u, v, s, t, pair)
  BY DEF More
<1> DEFINE one == <<pair>>
<1>2. one \in Seq(KeyedOffsets) /\ ToSet(one) = {pair}
  BY DEF ToSet
<1> HIDE DEF one
<1>3. /\ u \in Seq(KeyedOffsets) /\ v \in Seq(KeyedOffsets) /\ s = u \o v /\ t = (u \o one) \o v
  BY <1>1 DEF Around, one
<1>4. u \o one \in Seq(KeyedOffsets) /\ ToSet(u \o one) = ToSet(u) \cup {pair}
  BY <1>2, <1>3, ConcatElements
<1> DEFINE w == u \o one
<1> HIDE DEF w
<1>5. w \in Seq(KeyedOffsets) /\ ToSet(w) = ToSet(u) \cup {pair} /\ t = w \o v
  BY <1>3, <1>4 DEF w
<1>6. t \in Seq(KeyedOffsets) /\ ToSet(t) = ToSet(w) \cup ToSet(v)
  BY <1>3, <1>5, ConcatElements
<1>7. s \in Seq(KeyedOffsets) /\ ToSet(s) = ToSet(u) \cup ToSet(v)
  BY <1>3, ConcatElements
<1> QED
  BY <1>5, <1>6, <1>7

LEMMA MoreAtIsMore == \A s, t, pair : MoreAt(s, t, pair) => More(s, t, pair)
BY DEF MoreAt, More

\* Three lists in a row.
LEMMA ThreeInARow ==
  ASSUME NEW a \in Seq(KeyedOffsets), NEW b \in Seq(KeyedOffsets), NEW c \in Seq(KeyedOffsets)
  PROVE  (a \o b) \o c = a \o (b \o c)
<1> DEFINE X == KeyedOffsets
<1>1. a \in Seq(X) /\ b \in Seq(X) /\ c \in Seq(X)
  OBVIOUS
<1> HIDE DEF X
<1>2. (a \o b) \o c = a \o (b \o c)
  BY <1>1, ConcatAssociative
<1> QED
  BY <1>2

\* It stays so with more pairs before both, or behind both.
LEMMA AroundMore ==
  ASSUME NEW pair \in KeyedOffsets, NEW u, NEW v, NEW s, NEW t, Around(u, v, s, t, pair),
         NEW a \in Seq(KeyedOffsets)
  PROVE  /\ Around(a \o u, v, a \o s, a \o t, pair)
         /\ Around(u, v \o a, s \o a, t \o a, pair)
<1> DEFINE one == <<pair>>
           w == u \o one
<1>1. one \in Seq(KeyedOffsets)
  OBVIOUS
<1> HIDE DEF one
<1>2. /\ u \in Seq(KeyedOffsets) /\ v \in Seq(KeyedOffsets) /\ s = u \o v /\ t = w \o v
  BY DEF Around, one
<1>3. w \in Seq(KeyedOffsets)
  BY <1>1, <1>2, ConcatProperties
<1>4. a \o w = (a \o u) \o one
  <2>1. u \in Seq(KeyedOffsets)
    BY <1>2
  <2> QED
    BY <1>1, <2>1, ThreeInARow, Zenon
<1>5. a \o u \in Seq(KeyedOffsets) /\ v \o a \in Seq(KeyedOffsets)
  BY <1>2, ConcatProperties
<1> HIDE DEF w
<1>6. \A x \in Seq(KeyedOffsets) :
        a \o (x \o v) = (a \o x) \o v /\ (x \o v) \o a = x \o (v \o a)
  <2> SUFFICES ASSUME NEW x \in Seq(KeyedOffsets)
               PROVE  a \o (x \o v) = (a \o x) \o v /\ (x \o v) \o a = x \o (v \o a)
    OBVIOUS
  <2>1. v \in Seq(KeyedOffsets)
    BY <1>2
  <2>2. (a \o x) \o v = a \o (x \o v)
    BY <2>1, ThreeInARow, Zenon
  <2>3. (x \o v) \o a = x \o (v \o a)
    BY <2>1, ThreeInARow, Zenon
  <2> QED
    BY <2>2, <2>3
<1>7. Around(a \o u, v, a \o s, a \o t, pair)
  BY <1>2, <1>3, <1>4, <1>5, <1>6, Zenon DEF Around, one
<1>8. Around(u, v \o a, s \o a, t \o a, pair)
  BY <1>2, <1>3, <1>5, <1>6, Zenon DEF Around, w, one
<1> QED
  BY <1>7, <1>8

LEMMA MoreBehind ==
  ASSUME NEW pair \in KeyedOffsets, NEW s, NEW t, NEW a \in Seq(KeyedOffsets)
  PROVE  /\ More(s, t, pair) => More(a \o s, a \o t, pair)
         /\ MoreAt(s, t, pair) /\ (\A e \in ToSet(a) : e[1] <= pair[1])
              => MoreAt(a \o s, a \o t, pair)
<1>1. ASSUME NEW u, NEW v, Around(u, v, s, t, pair)
      PROVE  Around(a \o u, v, a \o s, a \o t, pair) /\ ToSet(a \o u) = ToSet(a) \cup ToSet(u)
  <2>1. u \in Seq(KeyedOffsets)
    BY <1>1 DEF Around
  <2>2. ToSet(a \o u) = ToSet(a) \cup ToSet(u)
    BY <2>1, ConcatElements
  <2> QED
    BY <1>1, <2>2, AroundMore
<1>2. ASSUME More(s, t, pair)
      PROVE  More(a \o s, a \o t, pair)
  BY <1>1, <1>2, Zenon DEF More
<1>3. ASSUME MoreAt(s, t, pair), \A e \in ToSet(a) : e[1] <= pair[1]
      PROVE  MoreAt(a \o s, a \o t, pair)
  <2>1. PICK u, v : /\ Around(u, v, s, t, pair)
                    /\ \A e \in ToSet(u) : e[1] <= pair[1]
                    /\ \A e \in ToSet(v) : e[1] > pair[1]
    BY <1>3 DEF MoreAt
  <2> DEFINE w == a \o u
  <2>2. Around(w, v, a \o s, a \o t, pair) /\ ToSet(w) = ToSet(a) \cup ToSet(u)
    BY <1>1, <2>1
  <2> HIDE DEF w
  <2>3. \A e \in ToSet(w) : e[1] <= pair[1]
    BY <1>3, <2>1, <2>2
  <2> QED
    BY <2>1, <2>2, <2>3, Zenon DEF MoreAt
<1> QED
  BY <1>2, <1>3

LEMMA MoreBefore ==
  ASSUME NEW pair \in KeyedOffsets, NEW s, NEW t, NEW a \in Seq(KeyedOffsets)
  PROVE  /\ More(s, t, pair) => More(s \o a, t \o a, pair)
         /\ MoreAt(s, t, pair) /\ (\A e \in ToSet(a) : e[1] > pair[1])
              => MoreAt(s \o a, t \o a, pair)
<1>1. ASSUME NEW u, NEW v, Around(u, v, s, t, pair)
      PROVE  Around(u, v \o a, s \o a, t \o a, pair) /\ ToSet(v \o a) = ToSet(v) \cup ToSet(a)
  <2>1. v \in Seq(KeyedOffsets)
    BY <1>1 DEF Around
  <2>2. ToSet(v \o a) = ToSet(v) \cup ToSet(a)
    BY <2>1, ConcatElements
  <2> QED
    BY <1>1, <2>2, AroundMore
<1>2. ASSUME More(s, t, pair)
      PROVE  More(s \o a, t \o a, pair)
  BY <1>1, <1>2, Zenon DEF More
<1>3. ASSUME MoreAt(s, t, pair), \A e \in ToSet(a) : e[1] > pair[1]
      PROVE  MoreAt(s \o a, t \o a, pair)
  <2>1. PICK u, v : /\ Around(u, v, s, t, pair)
                    /\ \A e \in ToSet(u) : e[1] <= pair[1]
                    /\ \A e \in ToSet(v) : e[1] > pair[1]
    BY <1>3 DEF MoreAt
  <2> DEFINE w == v \o a
  <2>2. Around(u, w, s \o a, t \o a, pair) /\ ToSet(w) = ToSet(v) \cup ToSet(a)
    BY <1>1, <2>1
  <2> HIDE DEF w
  <2>3. \A e \in ToSet(w) : e[1] > pair[1]
    BY <1>3, <2>1, <2>2
  <2> QED
    BY <2>1, <2>2, <2>3, Zenon DEF MoreAt
<1> QED
  BY <1>2, <1>3

\* Behind all pairs it is appended.
LEMMA MoreAtEnd ==
  ASSUME NEW pair \in KeyedOffsets, NEW s, NEW t, MoreAt(s, t, pair),
         \A e \in ToSet(s) : e[1] <= pair[1]
  PROVE  t = Append(s, pair)
<1>1. PICK u, v : /\ Around(u, v, s, t, pair)
                  /\ \A e \in ToSet(u) : e[1] <= pair[1]
                  /\ \A e \in ToSet(v) : e[1] > pair[1]
  BY DEF MoreAt
<1>2. u \in Seq(KeyedOffsets) /\ v \in Seq(KeyedOffsets) /\ s = u \o v /\ t = (u \o <<pair>>) \o v
  BY <1>1 DEF Around
<1>3. ASSUME v # <<>>
      PROVE  FALSE
  <2>1. v[1] \in ToSet(v) /\ v[1] \in KeyedOffsets
    <3>1. 1 \in DOMAIN v
      BY <1>2, <1>3
    <3> QED
      BY <1>2, <3>1 DEF ToSet
  <2>2. ToSet(s) = ToSet(u) \cup ToSet(v)
    BY <1>2, ConcatElements
  <2>3. v[1][1] <= pair[1] /\ v[1][1] > pair[1]
    BY <1>1, <2>1, <2>2
  <2>4. v[1][1] \in Int /\ pair[1] \in Int
    BY <2>1, KeysAreNumbers
  <2> HIDE <1>2
  <2> QED
    BY <2>3, <2>4
<1> DEFINE one == <<pair>>
           w == u \o one
<1>4. w \in Seq(KeyedOffsets)
  <2>1. one \in Seq(KeyedOffsets)
    OBVIOUS
  <2> HIDE DEF one
  <2> QED
    BY <1>2, <2>1, ConcatProperties
<1>5. w = Append(u, pair)
  BY <1>2, AppendIsConcat
<1> HIDE DEF w
<1>6. u \o <<>> = u /\ w \o <<>> = w
  BY <1>2, <1>4, ConcatEmptySeq
<1> QED
  BY <1>2, <1>3, <1>5, <1>6 DEF w

\* The same in a node: in its left subtree, in its offsets, in its right one.
LEMMA MoreInNode ==
  ASSUME NEW pair \in KeyedOffsets, NEW l \in Seq(KeyedOffsets), NEW b \in Seq(KeyedOffsets),
         NEW r \in Seq(KeyedOffsets), NEW t
  PROVE  /\ More(l, t, pair) => More((l \o b) \o r, (t \o b) \o r, pair)
         /\ More(b, t, pair) => More((l \o b) \o r, (l \o t) \o r, pair)
         /\ More(r, t, pair) => More((l \o b) \o r, (l \o b) \o t, pair)
         /\ MoreAt(l, t, pair) /\ (\A e \in ToSet(b) \cup ToSet(r) : e[1] > pair[1])
              => MoreAt((l \o b) \o r, (t \o b) \o r, pair)
         /\ MoreAt(b, t, pair) /\ (\A e \in ToSet(l) : e[1] <= pair[1])
              /\ (\A e \in ToSet(r) : e[1] > pair[1])
              => MoreAt((l \o b) \o r, (l \o t) \o r, pair)
         /\ MoreAt(r, t, pair) /\ (\A e \in ToSet(l) \cup ToSet(b) : e[1] <= pair[1])
              => MoreAt((l \o b) \o r, (l \o b) \o t, pair)
<1> DEFINE lb == l \o b
<1>1. lb \in Seq(KeyedOffsets) /\ ToSet(lb) = ToSet(l) \cup ToSet(b)
  BY ConcatElements
<1>2. /\ More(l, t, pair) => More(lb, t \o b, pair)
      /\ MoreAt(l, t, pair) /\ (\A e \in ToSet(b) : e[1] > pair[1]) => MoreAt(lb, t \o b, pair)
  BY MoreBefore
<1>3. /\ More(b, t, pair) => More(lb, l \o t, pair)
      /\ MoreAt(b, t, pair) /\ (\A e \in ToSet(l) : e[1] <= pair[1]) => MoreAt(lb, l \o t, pair)
  BY MoreBehind
<1> HIDE DEF lb
<1>4. \A w : /\ More(lb, w, pair) => More(lb \o r, w \o r, pair)
             /\ MoreAt(lb, w, pair) /\ (\A e \in ToSet(r) : e[1] > pair[1])
                  => MoreAt(lb \o r, w \o r, pair)
  BY MoreBefore
<1>5. /\ More(r, t, pair) => More(lb \o r, lb \o t, pair)
      /\ MoreAt(r, t, pair) /\ (\A e \in ToSet(lb) : e[1] <= pair[1])
           => MoreAt(lb \o r, lb \o t, pair)
  BY <1>1, MoreBehind
<1> QED
  BY <1>1, <1>2, <1>3, <1>4, <1>5, Zenon DEF lb

LEMMA BlockJoin ==
  ASSUME NEW key \in Keys, NEW a \in Seq(Offsets), NEW b \in Seq(Offsets)
  PROVE  Block(key, a \o b) = Block(key, a) \o Block(key, b)
<1> DEFINE c == a \o b
           s == Block(key, a)
           t == Block(key, b)
           w == Block(key, c)
<1>1. c \in Seq(Offsets) /\ Len(c) = Len(a) + Len(b)
      /\ \A i \in 1..(Len(a) + Len(b)) : c[i] = IF i <= Len(a) THEN a[i] ELSE b[i - Len(a)]
  BY ConcatProperties
<1> HIDE DEF c
<1>2. /\ s \in Seq(KeyedOffsets) /\ Len(s) = Len(a) /\ \A i \in 1..Len(a) : s[i] = <<key, a[i]>>
      /\ t \in Seq(KeyedOffsets) /\ Len(t) = Len(b) /\ \A i \in 1..Len(b) : t[i] = <<key, b[i]>>
      /\ w \in Seq(KeyedOffsets) /\ Len(w) = Len(c) /\ \A i \in 1..Len(c) : w[i] = <<key, c[i]>>
  BY <1>1, BlockIs
<1> HIDE DEF s, t, w
<1>3. /\ s \o t \in Seq(KeyedOffsets) /\ Len(s \o t) = Len(s) + Len(t)
      /\ \A i \in 1..(Len(s) + Len(t)) : (s \o t)[i] = IF i <= Len(s) THEN s[i] ELSE t[i - Len(s)]
  <2>1. s \in Seq(KeyedOffsets) /\ t \in Seq(KeyedOffsets)
    BY <1>2
  <2> QED
    BY <2>1, ConcatProperties
<1>4. Len(a) \in Nat /\ Len(b) \in Nat
  OBVIOUS
<1>5. ASSUME NEW i \in 1..Len(w)
      PROVE  w[i] = (s \o t)[i]
  <2>1. i \in 1..(Len(a) + Len(b)) /\ w[i] = <<key, c[i]>>
    BY <1>1, <1>2
  <2>2. CASE i <= Len(a)
    <3>1. i \in 1..Len(a)
      BY <1>4, <2>1, <2>2
    <3> QED
      BY <1>1, <1>2, <1>3, <2>1, <2>2, <3>1
  <2>3. CASE ~ (i <= Len(a))
    <3>1. i - Len(a) \in 1..Len(b)
      BY <1>4, <2>1, <2>3
    <3> QED
      BY <1>1, <1>2, <1>3, <2>1, <2>3, <3>1
  <2> QED
    BY <2>2, <2>3
<1>6. w = s \o t
  BY <1>1, <1>2, <1>3, <1>5, SeqEqual
<1> QED
  BY <1>6 DEF c, s, t, w

LEMMA BlockOfOne ==
  ASSUME NEW key \in Keys, NEW o \in Offsets
  PROVE  Block(key, <<o>>) = <<<<key, o>>>>
<1>1. Block(key, <<o>>) = [i \in 1..1 |-> <<key, <<o>>[i]>>]
  BY DEF Block
<1>2. \A i \in 1..1 : <<o>>[i] = o
  OBVIOUS
<1>3. [i \in 1..1 |-> <<key, <<o>>[i]>>] = [i \in 1..1 |-> <<key, o>>]
  BY <1>2
<1>4. \A x : [i \in 1..1 |-> x] = <<x>>
  OBVIOUS
<1> QED
  BY <1>1, <1>3, <1>4

\* An offset more.
LEMMA BlockAround ==
  ASSUME NEW key \in Keys, NEW o \in Offsets, NEW a \in Seq(Offsets), NEW b \in Seq(Offsets)
  PROVE  Around(Block(key, a), Block(key, b), Block(key, a \o b), Block(key, (a \o <<o>>) \o b),
                <<key, o>>)
<1> DEFINE one == <<o>>
           s == a \o one
<1>1. one \in Seq(Offsets)
  OBVIOUS
<1>2. Block(key, one) = <<<<key, o>>>>
  BY BlockOfOne
<1> HIDE DEF one
<1>3. s \in Seq(Offsets) /\ Block(key, s) = Block(key, a) \o Block(key, one)
  BY <1>1, BlockJoin, ConcatProperties
<1> HIDE DEF s
<1>4. Block(key, s \o b) = Block(key, s) \o Block(key, b)
  BY <1>3, BlockJoin
<1>5. Block(key, a \o b) = Block(key, a) \o Block(key, b)
  BY BlockJoin
<1>6. Block(key, a) \in Seq(KeyedOffsets) /\ Block(key, b) \in Seq(KeyedOffsets)
  BY BlockIs
<1> QED
  BY <1>2, <1>3, <1>4, <1>5, <1>6, Zenon DEF Around, s, one

LEMMA BlockAppended ==
  ASSUME NEW key \in Keys, NEW o \in Offsets, NEW offsets \in Seq(Offsets)
  PROVE  MoreAt(Block(key, offsets), Block(key, Append(offsets, o)), <<key, o>>)
<1> DEFINE none == <<>>
           one == <<o>>
           w == offsets \o one
<1>1. one \in Seq(Offsets) /\ none \in Seq(Offsets)
  OBVIOUS
<1>2. Append(offsets, o) = w
  BY AppendIsConcat
<1>3. w \in Seq(Offsets)
  <2> HIDE DEF one
  <2> QED
    BY <1>1, ConcatProperties
<1> HIDE DEF w
<1>4. w \o none = w /\ offsets \o none = offsets
  BY <1>3, ConcatEmptySeq
<1>5. Around(Block(key, offsets), Block(key, none), Block(key, offsets), Block(key, w), <<key, o>>)
  <2> HIDE DEF none
  <2>1. Around(Block(key, offsets), Block(key, none), Block(key, offsets \o none),
               Block(key, (offsets \o <<o>>) \o none), <<key, o>>)
    BY <1>1, BlockAround
  <2> QED
    BY <1>4, <2>1 DEF w, one
<1>6. ToSet(Block(key, none)) = {}
  <2>1. ToSet(Block(key, none)) = FiledAt(key, none)
    BY <1>1, BlockIs
  <2>2. ToSet(none) = {}
    BY DEF ToSet
  <2> HIDE DEF none
  <2> QED
    BY <2>1, <2>2 DEF FiledAt
<1>7. \A e \in ToSet(Block(key, offsets)) : e[1] <= key
  <2>1. \A e \in ToSet(Block(key, offsets)) : e[1] = key
    BY BlockIs, FiledKeys
  <2> QED
    BY <2>1, KeysAssumption
<1>8. <<key, o>>[1] = key
  OBVIOUS
<1> DEFINE u == Block(key, offsets)
           v == Block(key, none)
           t == Block(key, w)
           p == <<key, o>>
<1> HIDE DEF u, v, t, p
<1>9. Around(u, v, u, t, p) /\ (\A e \in ToSet(u) : e[1] <= p[1]) /\ (\A e \in ToSet(v) : e[1] > p[1])
  BY <1>5, <1>6, <1>7, <1>8 DEF u, v, t, p
<1> QED
  BY <1>2, <1>9, Zenon DEF MoreAt, u, t, p

\* An offset less: RemoveFirst takes out the first occurrence, or nothing.
LEMMA RemoveFirstIs ==
  ASSUME NEW offsets \in Seq(Offsets), NEW o \in Offsets
  PROVE  /\ o \notin ToSet(offsets) => RemoveFirst(offsets, o) = offsets
         /\ o \in ToSet(offsets) =>
              \E a, b \in Seq(Offsets) :
                RemoveFirst(offsets, o) = a \o b /\ offsets = (a \o <<o>>) \o b
<1> DEFINE N == Len(offsets)
           I == {i \in 1..N : offsets[i] = o}
<1>1. N \in Nat /\ DOMAIN offsets = 1..N
  OBVIOUS
<1>2. CASE o \notin ToSet(offsets)
  BY <1>1, <1>2 DEF RemoveFirst, ToSet
<1>3. CASE o \in ToSet(offsets)
  <2>1. I # {} /\ I \in SUBSET Nat
    BY <1>1, <1>3 DEF ToSet
  <2>2. PICK i \in I : \A j \in I : i <= j
    <3> HIDE DEF I
    <3> QED
      BY <2>1, LeastElement
  <2>3. Min(I) \in I
    <3> HIDE DEF I
    <3> QED
      BY <2>2 DEF Min
  <2> DEFINE m == Min(I)
             a == SubSeq(offsets, 1, m - 1)
             b == SubSeq(offsets, m + 1, N)
             one == <<o>>
             w == a \o one
  <2>4. SelectInSeq(offsets, LAMBDA x : x = o) = m
    BY <2>1 DEF SelectInSeq
  <2>5. RemoveFirst(offsets, o) = a \o b
    BY <2>3, <2>4 DEF RemoveFirst, RemoveAt
  <2>6. m \in 1..N /\ offsets[m] = o
    BY <2>3
  <2> HIDE DEF m, I, N
  <2>7. /\ a \in Seq(Offsets) /\ Len(a) = m - 1 /\ \A j \in 1..(m - 1) : a[j] = offsets[j]
    BY <1>1, <2>6, SubSeqProperties
  <2>8. /\ b \in Seq(Offsets) /\ Len(b) = N - m /\ \A j \in 1..(N - m) : b[j] = offsets[m + j]
    BY <1>1, <2>6, SubSeqProperties
  <2>9. one \in Seq(Offsets) /\ Len(one) = 1 /\ one[1] = o
    OBVIOUS
  <2> HIDE DEF a, b, one
  <2>10. w \in Seq(Offsets) /\ Len(w) = m /\ \A j \in 1..m : w[j] = offsets[j]
    <3>1. /\ w \in Seq(Offsets) /\ Len(w) = (m - 1) + 1
          /\ \A j \in 1..((m - 1) + 1) : w[j] = IF j <= m - 1 THEN a[j] ELSE one[j - (m - 1)]
      <4>1. /\ w \in Seq(Offsets) /\ Len(w) = Len(a) + Len(one)
            /\ \A j \in 1..(Len(a) + Len(one)) :
                 w[j] = IF j <= Len(a) THEN a[j] ELSE one[j - Len(a)]
        <5>1. a \in Seq(Offsets) /\ one \in Seq(Offsets)
          BY <2>7, <2>9
        <5> QED
          BY <5>1, ConcatProperties
      <4> QED
        BY <2>7, <2>9, <4>1, Zenon
    <3> HIDE DEF w
    <3>2. ASSUME NEW j \in 1..m
          PROVE  w[j] = offsets[j]
      <4>1. j \in 1..(m - 1) \/ (j = m /\ ~ (j <= m - 1) /\ j - (m - 1) = 1)
        BY <1>1, <2>6
      <4>2. j \in 1..((m - 1) + 1) /\ (j \in 1..(m - 1) => j <= m - 1)
        BY <1>1, <2>6
      <4> QED
        BY <2>6, <2>7, <2>9, <3>1, <4>1, <4>2
    <3> QED
      BY <1>1, <2>6, <3>1, <3>2
  <2> HIDE DEF w
  <2>11. offsets = w \o b
    <3>1. /\ w \o b \in Seq(Offsets) /\ Len(w \o b) = m + (N - m)
          /\ \A j \in 1..(m + (N - m)) : (w \o b)[j] = IF j <= m THEN w[j] ELSE b[j - m]
      <4>1. /\ w \o b \in Seq(Offsets) /\ Len(w \o b) = Len(w) + Len(b)
            /\ \A j \in 1..(Len(w) + Len(b)) :
                 (w \o b)[j] = IF j <= Len(w) THEN w[j] ELSE b[j - Len(w)]
        <5>1. w \in Seq(Offsets) /\ b \in Seq(Offsets)
          BY <2>8, <2>10
        <5> QED
          BY <5>1, ConcatProperties
      <4> QED
        BY <2>8, <2>10, <4>1, Zenon
    <3>2. m + (N - m) = N /\ Len(offsets) = N
      BY <1>1, <2>6 DEF N
    <3>3. ASSUME NEW j \in 1..N
          PROVE  (w \o b)[j] = offsets[j]
      <4>1. (j <= m /\ j \in 1..m) \/ (~ (j <= m) /\ j - m \in 1..(N - m) /\ m + (j - m) = j)
        BY <1>1, <2>6
      <4> QED
        BY <2>8, <2>10, <3>1, <3>2, <4>1
    <3> QED
      BY <3>1, <3>2, <3>3, SeqEqual
  <2> QED
    BY <1>3, <2>5, <2>7, <2>8, <2>11, Zenon DEF w, one
<1> QED
  BY <1>2, <1>3

LEMMA BlockLess ==
  ASSUME NEW key \in Keys, NEW o \in Offsets, NEW offsets \in Seq(Offsets), o \in ToSet(offsets)
  PROVE  LET less == RemoveFirst(offsets, o)
         IN  less \in Seq(Offsets) /\ More(Block(key, less), Block(key, offsets), <<key, o>>)
<1>1. PICK a, b \in Seq(Offsets) :
        RemoveFirst(offsets, o) = a \o b /\ offsets = (a \o <<o>>) \o b
  BY RemoveFirstIs
<1>2. a \o b \in Seq(Offsets)
  BY ConcatProperties
<1>3. Around(Block(key, a), Block(key, b), Block(key, a \o b), Block(key, (a \o <<o>>) \o b),
             <<key, o>>)
  BY BlockAround
<1> QED
  BY <1>1, <1>2, <1>3, Zenon DEF More

------------------------------------------------------------------------------
(* Insertion into the plain tree *)

\* A tree and its counter.
Planted == [root : AllTrees, size : Int]

\* The recursion of BstInsert, in which the counter goes along.
LEMMA PlainInsertRuns ==
  ASSUME NEW key \in Keys, NEW offset \in Offsets, NEW tree \in Planted, tree.root \in Trees
  PROVE  \E f :
           /\ BstInsert(tree, key, offset) = f[tree.root]
           /\ f[Nil] = [root |-> [key |-> key, offsets |-> <<offset>>, left |-> Nil, right |-> Nil,
                                  height |-> 0],
                        size |-> tree.size + 1]
           /\ \A n \in Trees : f[n] \in Planted
           /\ \A n \in Trees : n # Nil =>
                f[n] = IF key < n.key
                         THEN [root |-> [n EXCEPT !.left = f[n.left].root], size |-> f[n.left].size]
                       ELSE IF key > n.key
                         THEN [root |-> [n EXCEPT !.right = f[n.right].root],
                               size |-> f[n.right].size]
                       ELSE [root |-> [n EXCEPT !.offsets = Append(@, offset)], size |-> tree.size]
<1> DEFINE new == [key |-> key, offsets |-> <<offset>>, left |-> Nil, right |-> Nil, height |-> 0]
           base == [root |-> new, size |-> tree.size + 1]
           After(m, a, b) ==
             IF key < m.key THEN [a EXCEPT !.root = [m EXCEPT !.left = a.root]]
             ELSE IF key > m.key THEN [b EXCEPT !.root = [m EXCEPT !.right = b.root]]
             ELSE [tree EXCEPT !.root = [m EXCEPT !.offsets = Append(@, offset)]]
           step == [q \in AllTrees \X Planted \X Planted |-> After(q[1], q[2], q[3])]
           inserted[m \in Trees] ==
             IF m = Nil THEN base
             ELSE IF key < m.key
               THEN LET t == inserted[m.left] IN [t EXCEPT !.root = [m EXCEPT !.left = t.root]]
             ELSE IF key > m.key
               THEN LET t == inserted[m.right] IN [t EXCEPT !.root = [m EXCEPT !.right = t.root]]
             ELSE [tree EXCEPT !.root = [m EXCEPT !.offsets = Append(@, offset)]]
<1>1. base \in Planted
  <2>1. new \in Nodes(AllTrees)
    BY AllTreesAre DEF Nodes
  <2> HIDE DEF new
  <2> QED
    BY <2>1, AllTreesAre DEF Planted
<1>2. ASSUME NEW m \in AllTrees, NEW a \in Planted, NEW b \in Planted, m # Nil
      PROVE  After(m, a, b) \in Planted
  <2>1. m \in Nodes(AllTrees) /\ m.offsets \in Seq(Offsets)
    BY <1>2, Parts
  <2>2. a.root \in AllTrees /\ b.root \in AllTrees
    BY DEF Planted
  <2>3. [m EXCEPT !.left = a.root] \in AllTrees /\ [m EXCEPT !.right = b.root] \in AllTrees
    BY <2>1, <2>2, WithLeft, WithRight, AllTreesAre
  <2>4. [m EXCEPT !.offsets = Append(@, offset)] \in AllTrees
    <3> DEFINE more == Append(m.offsets, offset)
    <3>1. more \in Seq(Offsets)
      BY <2>1
    <3> HIDE DEF more
    <3>2. [m EXCEPT !.offsets = more] \in Nodes(AllTrees)
      BY <2>1, <3>1 DEF Nodes
    <3> QED
      BY <3>2, AllTreesAre DEF more
  <2>5. \A p \in Planted, r \in AllTrees : [p EXCEPT !.root = r] \in Planted
    BY DEF Planted
  <2> QED
    BY <2>3, <2>4, <2>5
<1> HIDE DEF After
<1>3. \A m \in AllTrees, a, b \in Planted : step[<<m, a, b>>] = After(m, a, b)
  OBVIOUS
<1> HIDE DEF step, base
<1>4. \A m \in AllTrees, a, b \in Planted : m # Nil => step[<<m, a, b>>] \in Planted
  BY <1>2, <1>3
<1>5. PICK f : IsFold(f, Trees, Nil, Planted, base, step)
  BY <1>1, <1>4, TreeFoldExists
<1>6. ASSUME NEW m \in Trees
      PROVE  f[m] = IF m = Nil THEN base ELSE After(m, f[m.left], f[m.right])
  <2>1. m # Nil => /\ m \in AllTrees /\ f[m.left] \in Planted /\ f[m.right] \in Planted
                   /\ f[m] = step[<<m, f[m.left], f[m.right]>>]
    BY <1>5, InTrees DEF IsFold
  <2>2. f[Nil] = base
    BY <1>5, InTrees DEF IsFold
  <2> QED
    BY <1>3, <2>1, <2>2
<1>7. f = [m \in Trees |-> f[m]]
  BY <1>5 DEF IsFold
<1>8. f = [m \in Trees |->
             IF m = Nil THEN base
             ELSE IF key < m.key
               THEN LET t == f[m.left] IN [t EXCEPT !.root = [m EXCEPT !.left = t.root]]
             ELSE IF key > m.key
               THEN LET t == f[m.right] IN [t EXCEPT !.root = [m EXCEPT !.right = t.root]]
             ELSE [tree EXCEPT !.root = [m EXCEPT !.offsets = Append(@, offset)]]]
  BY <1>6, <1>7, Zenon DEF After
<1>9. inserted = [m \in Trees |->
             IF m = Nil THEN base
             ELSE IF key < m.key
               THEN LET t == inserted[m.left] IN [t EXCEPT !.root = [m EXCEPT !.left = t.root]]
             ELSE IF key > m.key
               THEN LET t == inserted[m.right] IN [t EXCEPT !.root = [m EXCEPT !.right = t.root]]
             ELSE [tree EXCEPT !.root = [m EXCEPT !.offsets = Append(@, offset)]]]
  BY <1>8, Zenon DEF base
<1>10. BstInsert(tree, key, offset) = inserted[tree.root]
  BY DEF BstInsert, base, new
<1> HIDE DEF inserted, new
<1>11. \A m \in Trees :
         inserted[m] = IF m = Nil THEN base ELSE After(m, inserted[m.left], inserted[m.right])
  BY <1>9, Zenon DEF After
<1>12. \A m \in Trees : inserted[m] \in Planted
  <2> DEFINE P == {t \in AllTrees : t \in Trees => inserted[t] \in Planted}
  <2>1. Nil \in P
    BY <1>1, <1>11, InTrees
  <2>2. \A n \in AllTrees : n # Nil /\ n.left \in P /\ n.right \in P => n \in P
    BY <1>2, <1>11, InTrees
  <2> HIDE DEF P
  <2>3. AllTrees \subseteq P
    BY <2>1, <2>2, TreesLayered, TreeInduction DEF AllTrees
  <2> QED
    BY <2>3, InTrees DEF P
<1>13. \A p \in Planted : \A r : [p EXCEPT !.root = r] = [root |-> r, size |-> p.size]
  BY DEF Planted
<1>14. ASSUME NEW n \in Trees, n # Nil
       PROVE  inserted[n] =
                IF key < n.key
                  THEN [root |-> [n EXCEPT !.left = inserted[n.left].root],
                        size |-> inserted[n.left].size]
                ELSE IF key > n.key
                  THEN [root |-> [n EXCEPT !.right = inserted[n.right].root],
                        size |-> inserted[n.right].size]
                ELSE [root |-> [n EXCEPT !.offsets = Append(@, offset)], size |-> tree.size]
  <2>1. inserted[n.left] \in Planted /\ inserted[n.right] \in Planted
    BY <1>12, <1>14, InTrees
  <2>2. inserted[n] = After(n, inserted[n.left], inserted[n.right])
    BY <1>11, <1>14
  <2> QED
    BY <1>13, <2>1, <2>2, Zenon DEF After
<1>15. inserted[Nil] = base
  BY <1>11, InTrees
<1> QED
  BY <1>10, <1>12, <1>14, <1>15 DEF base, new

\* What a node over two trees in order has.
LEMMA NodeInOrder ==
  ASSUME NEW n \in Nodes(AllTrees), Sorted(n.left), Sorted(n.right),
         Apart(n.key, n.offsets, n.left, n.right)
  PROVE  LET b == Block(n.key, n.offsets)
             C(t) == AvlCollect(t)
         IN  /\ n \in AllTrees /\ n # Nil /\ Sorted(n) /\ n \in Trees
             /\ C(n) = (C(n.left) \o b) \o C(n.right)
             /\ C(n.left) \in Seq(KeyedOffsets) /\ ToSet(C(n.left)) = Filed(n.left)
             /\ C(n.right) \in Seq(KeyedOffsets) /\ ToSet(C(n.right)) = Filed(n.right)
             /\ b \in Seq(KeyedOffsets) /\ ToSet(b) = FiledAt(n.key, n.offsets)
             /\ Filed(n) = Filed(n.left) \cup FiledAt(n.key, n.offsets) \cup Filed(n.right)
             /\ KeysOf(n) = KeysOf(n.left) \cup {n.key} \cup KeysOf(n.right)
             /\ \A e \in Filed(n.left) : e[1] < n.key /\ e[1] \in Int
             /\ \A e \in Filed(n.right) : e[1] > n.key /\ e[1] \in Int
             /\ \A e \in FiledAt(n.key, n.offsets) : e[1] = n.key
             /\ n.key \in Keys /\ n.key \in Int /\ n.offsets \in Seq(Offsets)
<1> DEFINE b == Block(n.key, n.offsets)
           C(t) == AvlCollect(t)
<1>1. /\ n.key \in Keys /\ n.key \in Int /\ n.offsets \in Seq(Offsets)
      /\ n.left \in AllTrees /\ n.right \in AllTrees
  BY NodeIs, KeysAssumption
<1>2. n \in AllTrees /\ n # Nil /\ Sorted(n)
  BY OfNode, NodeIs, AllTreesAre
<1>3. n \in Trees
  BY <1>2, SortedTreesAreTrees
<1>4. C(n) = (C(n.left) \o b) \o C(n.right)
  BY <1>2, <1>3, CollectIs
<1>5. /\ C(n.left) \in Seq(KeyedOffsets) /\ ToSet(C(n.left)) = Filed(n.left)
      /\ C(n.right) \in Seq(KeyedOffsets) /\ ToSet(C(n.right)) = Filed(n.right)
  BY <1>1, InOrder
<1>6. b \in Seq(KeyedOffsets) /\ ToSet(b) = FiledAt(n.key, n.offsets)
  BY <1>1, BlockIs
<1>7. Filed(n) = Filed(n.left) \cup FiledAt(n.key, n.offsets) \cup Filed(n.right)
  BY OfNode
<1>8. KeysOf(n) = KeysOf(n.left) \cup {n.key} \cup KeysOf(n.right)
  BY <1>2, KeysOfNode
<1>9. /\ \A e \in Filed(n.left) : e[1] < n.key /\ e[1] \in Int
      /\ \A e \in Filed(n.right) : e[1] > n.key /\ e[1] \in Int
      /\ \A e \in FiledAt(n.key, n.offsets) : e[1] = n.key
  BY <1>1, FiledKeys DEF Apart
<1> QED
  BY <1>1, <1>2, <1>3, <1>4, <1>5, <1>6, <1>7, <1>8, <1>9, Zenon

\* What the insertion makes of a tree and its counter: the pair is listed once more, behind
\* those with its key, and a new key is counted.
Grown(t, r, s0, s1, pair) ==
  /\ r \in AllTrees /\ Sorted(r)
  /\ MoreAt(AvlCollect(t), AvlCollect(r), pair)
  /\ s1 = s0 + IF pair[1] \in KeysOf(t) THEN 0 ELSE 1

LEMMA GrownHas ==
  ASSUME NEW t \in AllTrees, Sorted(t), NEW r, NEW s0, NEW s1, NEW pair \in KeyedOffsets,
         Grown(t, r, s0, s1, pair)
  PROVE  Filed(r) = Filed(t) \cup {pair}
<1>1. r \in AllTrees /\ Sorted(r) /\ More(AvlCollect(t), AvlCollect(r), pair)
  BY MoreAtIsMore DEF Grown
<1>2. ToSet(AvlCollect(r)) = ToSet(AvlCollect(t)) \cup {pair}
  BY <1>1, MoreHas
<1> QED
  BY <1>1, <1>2, InOrder

LEMMA PlainInsertKeeps ==
  ASSUME NEW key \in Keys, NEW offset \in Offsets, NEW tree \in Planted, Sorted(tree.root)
  PROVE  LET r == BstInsert(tree, key, offset)
         IN  r \in Planted /\ Grown(tree.root, r.root, tree.size, r.size, <<key, offset>>)
<1> DEFINE pair == <<key, offset>>
           C(t) == AvlCollect(t)
           leaf == [key |-> key, offsets |-> <<offset>>, left |-> Nil, right |-> Nil, height |-> 0]
           one == tree.size + 1
<1>1. tree.root \in AllTrees /\ tree.root \in Trees /\ tree.size \in Int
  BY SortedTreesAreTrees DEF Planted
<1>2. PICK f :
        /\ BstInsert(tree, key, offset) = f[tree.root]
        /\ f[Nil] = [root |-> leaf, size |-> one]
        /\ \A n \in Trees : f[n] \in Planted
        /\ \A n \in Trees : n # Nil =>
             f[n] = IF key < n.key
                      THEN [root |-> [n EXCEPT !.left = f[n.left].root], size |-> f[n.left].size]
                    ELSE IF key > n.key
                      THEN [root |-> [n EXCEPT !.right = f[n.right].root],
                            size |-> f[n.right].size]
                    ELSE [root |-> [n EXCEPT !.offsets = Append(@, offset)], size |-> tree.size]
  BY <1>1, PlainInsertRuns
<1>3. pair \in KeyedOffsets /\ pair[1] = key /\ key \in Int
  BY KeysAssumption DEF KeyedOffsets
<1> DEFINE G(t) == Grown(t, f[t].root, tree.size, f[t].size, pair)
           P == {t \in AllTrees : Sorted(t) => G(t)}
<1> HIDE DEF pair
<1>4. G(Nil)
  <2>1. f[Nil].root = leaf /\ f[Nil].size = one
    BY <1>2
  <2>2. leaf \in Nodes(AllTrees) /\ leaf.key = key /\ leaf.offsets = <<offset>>
        /\ leaf.left = Nil /\ leaf.right = Nil
    BY AllTreesAre DEF Nodes
  <2> HIDE DEF leaf
  <2>3. <<offset>> # <<>>
    OBVIOUS
  <2>4. Apart(leaf.key, leaf.offsets, leaf.left, leaf.right)
    BY <2>2, <2>3, OfNil DEF Apart
  <2>5. /\ leaf \in AllTrees /\ Sorted(leaf)
        /\ C(leaf) = (C(Nil) \o Block(key, <<offset>>)) \o C(Nil)
    BY <2>2, <2>4, OfNil, NodeInOrder, Zenon
  <2>6. Block(key, <<offset>>) = <<pair>> /\ C(Nil) = <<>>
    BY BlockOfOne, CollectIs DEF pair
  <2> DEFINE none == <<>>
  <2>7. none \in Seq(KeyedOffsets) /\ ToSet(none) = {} /\ none = none \o none
    BY DEF ToSet
  <2>8. C(leaf) = (none \o <<pair>>) \o none /\ C(Nil) = none
    BY <2>5, <2>6, Zenon
  <2> HIDE DEF none, C
  <2>9. Around(none, none, C(Nil), C(leaf), pair)
    BY <2>7, <2>8 DEF Around
  <2>10. MoreAt(C(Nil), C(leaf), pair)
    BY <2>7, <2>9 DEF MoreAt
  <2>11. KeysOf(Nil) = {}
    BY OfNil DEF KeysOf
  <2> QED
    BY <1>1, <2>1, <2>5, <2>10, <2>11 DEF Grown, C
<1>5. ASSUME NEW n \in AllTrees, n # Nil, n.left \in P, n.right \in P, Sorted(n)
      PROVE  G(n)
  <2> DEFINE l == n.left
             r == n.right
             b == Block(n.key, n.offsets)
  <2>1. n \in Nodes(AllTrees) /\ l \in AllTrees /\ r \in AllTrees
    BY <1>5, Parts
  <2>2. Sorted(l) /\ Sorted(r) /\ Apart(n.key, n.offsets, l, r)
    BY <1>5, <2>1, OfNode
  <2>3. /\ n \in Trees /\ n.key \in Keys /\ n.key \in Int /\ n.offsets \in Seq(Offsets)
        /\ C(n) = (C(l) \o b) \o C(r)
        /\ C(l) \in Seq(KeyedOffsets) /\ ToSet(C(l)) = Filed(l)
        /\ C(r) \in Seq(KeyedOffsets) /\ ToSet(C(r)) = Filed(r)
        /\ b \in Seq(KeyedOffsets) /\ ToSet(b) = FiledAt(n.key, n.offsets)
        /\ KeysOf(n) = KeysOf(l) \cup {n.key} \cup KeysOf(r)
        /\ \A e \in Filed(l) : e[1] < n.key /\ e[1] \in Int
        /\ \A e \in Filed(r) : e[1] > n.key /\ e[1] \in Int
        /\ \A e \in FiledAt(n.key, n.offsets) : e[1] = n.key
    BY <2>1, <2>2, NodeInOrder, Zenon
  <2>4. G(l) /\ G(r)
    BY <1>5, <2>2
  <2>5. f[n] = IF key < n.key THEN [root |-> [n EXCEPT !.left = f[l].root], size |-> f[l].size]
               ELSE IF key > n.key
                 THEN [root |-> [n EXCEPT !.right = f[r].root], size |-> f[r].size]
               ELSE [root |-> [n EXCEPT !.offsets = Append(@, offset)], size |-> tree.size]
    BY <1>2, <1>5, <2>3, Zenon
  <2>6. /\ key < n.key => key \notin KeysOf(r)
        /\ key > n.key => key \notin KeysOf(l)
    BY <1>3, <2>3 DEF KeysOf
  <2> HIDE DEF P, G, l, r, b, C
  <2>7. CASE key < n.key
    <3> DEFINE u == f[l].root
               m == [n EXCEPT !.left = u]
    <3>1. /\ u \in AllTrees /\ Sorted(u) /\ MoreAt(C(l), C(u), pair)
          /\ f[l].size = tree.size + IF key \in KeysOf(l) THEN 0 ELSE 1
      BY <1>3, <2>4 DEF G, Grown, C
    <3>2. Filed(u) = Filed(l) \cup {pair}
      BY <1>3, <2>1, <2>2, <2>4, GrownHas DEF G
    <3>3. f[n].root = m /\ f[n].size = f[l].size
      BY <2>5, <2>7
    <3> HIDE DEF u
    <3>4. /\ m \in Nodes(AllTrees) /\ m.key = n.key /\ m.offsets = n.offsets
          /\ m.left = u /\ m.right = r
      BY <2>1, <3>1, WithLeft DEF r
    <3> HIDE DEF m
    <3>5. Apart(m.key, m.offsets, m.left, m.right)
      BY <1>3, <2>2, <2>7, <3>2, <3>4 DEF Apart
    <3>6. m \in AllTrees /\ Sorted(m) /\ C(m) = (C(u) \o b) \o C(r)
      BY <2>2, <3>1, <3>4, <3>5, NodeInOrder, Zenon DEF C, b
    <3>7. \A e \in ToSet(b) \cup ToSet(C(r)) : e[1] > pair[1]
      BY <1>3, <2>3, <2>7
    <3>8. MoreAt(C(n), C(m), pair)
      BY <1>3, <2>3, <3>1, <3>6, <3>7, MoreInNode
    <3>9. key \in KeysOf(n) <=> key \in KeysOf(l)
      BY <1>3, <2>3, <2>6, <2>7
    <3> QED
      BY <1>3, <3>1, <3>3, <3>6, <3>8, <3>9 DEF G, Grown, C
  <2>8. CASE key > n.key
    <3> DEFINE u == f[r].root
               m == [n EXCEPT !.right = u]
    <3>1. /\ u \in AllTrees /\ Sorted(u) /\ MoreAt(C(r), C(u), pair)
          /\ f[r].size = tree.size + IF key \in KeysOf(r) THEN 0 ELSE 1
      BY <1>3, <2>4 DEF G, Grown, C
    <3>2. Filed(u) = Filed(r) \cup {pair}
      BY <1>3, <2>1, <2>2, <2>4, GrownHas DEF G
    <3>3. f[n].root = m /\ f[n].size = f[r].size
      BY <1>3, <2>3, <2>5, <2>8
    <3> HIDE DEF u
    <3>4. /\ m \in Nodes(AllTrees) /\ m.key = n.key /\ m.offsets = n.offsets
          /\ m.left = l /\ m.right = u
      BY <2>1, <3>1, WithRight DEF l
    <3> HIDE DEF m
    <3>5. Apart(m.key, m.offsets, m.left, m.right)
      BY <1>3, <2>2, <2>8, <3>2, <3>4 DEF Apart
    <3>6. m \in AllTrees /\ Sorted(m) /\ C(m) = (C(l) \o b) \o C(u)
      BY <2>2, <3>1, <3>4, <3>5, NodeInOrder, Zenon DEF C, b
    <3>7. \A e \in ToSet(C(l)) \cup ToSet(b) : e[1] <= pair[1]
      BY <1>3, <2>3, <2>8
    <3>8. MoreAt(C(n), C(m), pair)
      BY <1>3, <2>3, <3>1, <3>6, <3>7, MoreInNode
    <3>9. key \in KeysOf(n) <=> key \in KeysOf(r)
      BY <1>3, <2>3, <2>6, <2>8
    <3> QED
      BY <1>3, <3>1, <3>3, <3>6, <3>8, <3>9 DEF G, Grown, C
  <2>9. CASE key = n.key
    <3> DEFINE more == Append(n.offsets, offset)
               m == [n EXCEPT !.offsets = more]
    <3>1. f[n].root = m /\ f[n].size = tree.size
      BY <1>3, <2>3, <2>5, <2>9
    <3>2. more \in Seq(Offsets) /\ more # <<>>
      BY <2>3
    <3>3. MoreAt(b, Block(n.key, more), pair)
      BY <2>3, <2>9, BlockAppended DEF b, pair
    <3> HIDE DEF more
    <3>4. /\ m \in Nodes(AllTrees) /\ m.key = n.key /\ m.offsets = more
          /\ m.left = l /\ m.right = r
      BY <2>1, <3>2 DEF Nodes, l, r
    <3> HIDE DEF m
    <3>5. Apart(m.key, m.offsets, m.left, m.right)
      BY <2>2, <3>2, <3>4 DEF Apart
    <3>6. m \in AllTrees /\ Sorted(m) /\ C(m) = (C(l) \o Block(n.key, more)) \o C(r)
      BY <2>2, <3>4, <3>5, NodeInOrder, Zenon DEF C
    <3>7. /\ \A e \in ToSet(C(l)) : e[1] <= pair[1]
          /\ \A e \in ToSet(C(r)) : e[1] > pair[1]
      BY <1>3, <2>3, <2>9
    <3>8. MoreAt(C(n), C(m), pair)
      BY <1>3, <2>3, <3>3, <3>6, <3>7, MoreInNode
    <3>9. key \in KeysOf(n)
      BY <2>3, <2>9
    <3> QED
      BY <1>1, <1>3, <3>1, <3>6, <3>8, <3>9 DEF G, Grown, C
  <2> QED
    BY <1>3, <2>3, <2>7, <2>8, <2>9
<1>6. \A n \in AllTrees : n # Nil /\ n.left \in P /\ n.right \in P => n \in P
  BY <1>5
<1>7. Nil \in P
  BY <1>4, OfNil
<1> HIDE DEF P
<1>8. AllTrees \subseteq P
  BY <1>6, <1>7, TreesLayered, TreeInduction DEF AllTrees
<1>9. G(tree.root)
  BY <1>1, <1>8 DEF P
<1> QED
  BY <1>1, <1>2, <1>9 DEF pair

------------------------------------------------------------------------------
(* Deletion from the plain tree *)

LEMMA PlainDeleteMinIs ==
  ASSUME NEW n \in Trees, n # Nil
  PROVE  BstDeleteMin(n) =
           IF n.left = Nil THEN n.right ELSE [n EXCEPT !.left = BstDeleteMin(n.left)]
<1> DEFINE After(m, a) == IF m.left = Nil THEN m.right ELSE [m EXCEPT !.left = a]
           step == [q \in AllTrees \X AllTrees \X AllTrees |-> After(q[1], q[2])]
           left[m \in Trees \ {Nil}] ==
             IF m.left = Nil THEN m.right ELSE [m EXCEPT !.left = left[@]]
<1>1. ASSUME NEW m \in AllTrees, NEW a \in AllTrees, m # Nil
      PROVE  After(m, a) \in AllTrees
  <2>1. m \in Nodes(AllTrees) /\ m.right \in AllTrees
    BY <1>1, Parts
  <2> QED
    BY <2>1, WithLeft, AllTreesAre
<1> HIDE DEF After
<1>2. \A m \in AllTrees, a, b \in AllTrees : step[<<m, a, b>>] = After(m, a)
  OBVIOUS
<1> HIDE DEF step
<1>3. \A m \in AllTrees, a, b \in AllTrees : m # Nil => step[<<m, a, b>>] \in AllTrees
  BY <1>1, <1>2
<1>4. PICK f : IsFold(f, Trees, Nil, AllTrees, Nil, step)
  BY <1>3, InTrees, TreeFoldExists
<1> DEFINE g == [m \in Trees \ {Nil} |-> f[m]]
<1>5. ASSUME NEW m \in Trees \ {Nil}
      PROVE  g[m] = IF m.left = Nil THEN m.right ELSE [m EXCEPT !.left = g[@]]
  <2>1. /\ m \in AllTrees /\ m.left \in Trees /\ f[m.left] \in AllTrees /\ f[m.right] \in AllTrees
        /\ f[m] = step[<<m, f[m.left], f[m.right]>>]
    BY <1>4, InTrees DEF IsFold
  <2>2. f[m] = After(m, f[m.left])
    BY <1>2, <2>1
  <2>3. m.left # Nil => g[m.left] = f[m.left]
    BY <2>1
  <2>4. g[m] = f[m]
    OBVIOUS
  <2> HIDE DEF g
  <2> QED
    BY <2>2, <2>3, <2>4 DEF After
<1>6. g = [m \in Trees \ {Nil} |-> g[m]]
  OBVIOUS
<1> HIDE DEF g
<1>7. g = [m \in Trees \ {Nil} |->
             IF m.left = Nil THEN m.right ELSE [m EXCEPT !.left = g[@]]]
  BY <1>5, <1>6, Zenon
<1>8. left = [m \in Trees \ {Nil} |->
             IF m.left = Nil THEN m.right ELSE [m EXCEPT !.left = left[@]]]
  BY <1>7, Zenon
<1>9. \A m \in Trees : BstDeleteMin(m) = left[m]
  BY DEF BstDeleteMin
<1> HIDE DEF left
<1>10. left[n] = IF n.left = Nil THEN n.right ELSE [n EXCEPT !.left = left[n.left]]
  BY <1>8
<1> QED
  BY <1>9, <1>10, InTrees

LEMMA PlainLeastTyped ==
  ASSUME NEW tree \in Trees, tree # Nil
  PROVE  BstDeleteMin(tree) \in AllTrees
<1> DEFINE P == {t \in AllTrees : t \in Trees /\ t # Nil => BstDeleteMin(t) \in AllTrees}
<1>1. Nil \in P
  BY AllTreesAre
<1>2. ASSUME NEW n \in AllTrees, n # Nil, n.left \in P, n.right \in P, n \in Trees
      PROVE  BstDeleteMin(n) \in AllTrees
  <2>1. n \in Nodes(AllTrees) /\ n.right \in AllTrees /\ n.left \in Trees
    BY <1>2, Parts, InTrees
  <2>2. CASE n.left = Nil
    BY <1>2, <2>1, <2>2, PlainDeleteMinIs
  <2>3. CASE n.left # Nil
    <3>1. BstDeleteMin(n.left) \in AllTrees
      BY <1>2, <2>1, <2>3
    <3>2. BstDeleteMin(n) = [n EXCEPT !.left = BstDeleteMin(n.left)]
      BY <1>2, <2>3, PlainDeleteMinIs
    <3> QED
      BY <2>1, <3>1, <3>2, WithLeft, AllTreesAre
  <2> QED
    BY <2>2, <2>3
<1>3. \A n \in AllTrees : n # Nil /\ n.left \in P /\ n.right \in P => n \in P
  BY <1>2
<1> HIDE DEF P
<1>4. AllTrees \subseteq P
  BY <1>1, <1>3, TreesLayered, TreeInduction DEF AllTrees
<1> QED
  BY <1>4, InTrees DEF P

LEMMA FourInARow ==
  \A a, b, c, d \in Seq(KeyedOffsets) : ((a \o b) \o c) \o d = a \o ((b \o c) \o d)
<1> SUFFICES ASSUME NEW a \in Seq(KeyedOffsets), NEW b \in Seq(KeyedOffsets),
                    NEW c \in Seq(KeyedOffsets), NEW d \in Seq(KeyedOffsets)
             PROVE  ((a \o b) \o c) \o d = a \o ((b \o c) \o d)
  OBVIOUS
<1> DEFINE bc == b \o c
<1>1. bc \in Seq(KeyedOffsets)
  BY ConcatProperties
<1>2. (a \o b) \o c = a \o bc
  BY ThreeInARow, Zenon
<1> HIDE DEF bc
<1>3. (a \o bc) \o d = a \o (bc \o d)
  BY <1>1, ThreeInARow, Zenon, SMTT(30)
<1> QED
  BY <1>2, <1>3, Zenon DEF bc

\* The least node is listed first, and before it nothing remains of the tree.
FirstOf(t, m, d) ==
  /\ m.key \in Keys /\ m.offsets \in Seq(Offsets) /\ m.offsets # <<>>
  /\ d \in AllTrees /\ Sorted(d)
  /\ AvlCollect(t) = Block(m.key, m.offsets) \o AvlCollect(d)
  /\ Filed(t) = FiledAt(m.key, m.offsets) \cup Filed(d)
  /\ \A e \in Filed(d) : e[1] > m.key

LEMMA PlainLeastKeeps ==
  ASSUME NEW tree \in AllTrees, tree # Nil, Sorted(tree)
  PROVE  FirstOf(tree, BstMin(tree), BstDeleteMin(tree))
<1> DEFINE C(t) == AvlCollect(t)
           G(t) == FirstOf(t, AvlMin(t), BstDeleteMin(t))
           P == {t \in AllTrees : t # Nil /\ Sorted(t) => G(t)}
<1>1. Nil \in P
  BY AllTreesAre
<1>2. ASSUME NEW n \in AllTrees, n # Nil, n.left \in P, n.right \in P, Sorted(n)
      PROVE  G(n)
  <2> DEFINE l == n.left
             r == n.right
             b == Block(n.key, n.offsets)
             at == FiledAt(n.key, n.offsets)
  <2>1. n \in Nodes(AllTrees) /\ l \in AllTrees /\ r \in AllTrees
    BY <1>2, Parts
  <2>2. Sorted(l) /\ Sorted(r) /\ Apart(n.key, n.offsets, l, r)
    BY <1>2, <2>1, OfNode
  <2>3. /\ n \in Trees /\ n.key \in Keys /\ n.key \in Int /\ n.offsets \in Seq(Offsets)
        /\ C(n) = (C(l) \o b) \o C(r)
        /\ C(l) \in Seq(KeyedOffsets) /\ C(r) \in Seq(KeyedOffsets) /\ b \in Seq(KeyedOffsets)
        /\ Filed(n) = Filed(l) \cup at \cup Filed(r)
        /\ \A e \in Filed(l) : e[1] < n.key /\ e[1] \in Int
        /\ \A e \in Filed(r) : e[1] > n.key /\ e[1] \in Int
        /\ \A e \in at : e[1] = n.key
    BY <2>1, <2>2, NodeInOrder, Zenon
  <2>4. n.offsets # <<>>
    BY <2>2 DEF Apart
  <2> HIDE DEF P, l, r, b, at, C
  <2>5. CASE l = Nil
    <3>1. AvlMin(n) = n /\ BstDeleteMin(n) = r
      BY <1>2, <2>3, <2>5, LeastIs, PlainDeleteMinIs DEF l, r
    <3>2. C(l) = <<>> /\ Filed(l) = {}
      BY <2>5, OfNil, CollectIs DEF C
    <3>3. <<>> \o b = b
      BY <2>3, ConcatEmptySeq
    <3>4. C(n) = b \o C(r)
      BY <2>3, <3>2, <3>3
    <3> QED
      BY <2>1, <2>2, <2>3, <2>4, <3>1, <3>2, <3>4 DEF FirstOf, C, at, b
  <2>6. CASE l # Nil
    <3> DEFINE m == AvlMin(l)
               d == BstDeleteMin(l)
               R == [n EXCEPT !.left = d]
               mb == Block(m.key, m.offsets)
               mat == FiledAt(m.key, m.offsets)
    <3>1. FirstOf(l, m, d)
      BY <1>2, <2>1, <2>2, <2>6 DEF P, l
    <3>2. AvlMin(n) = m /\ BstDeleteMin(n) = R
      BY <1>2, <2>3, <2>6, LeastIs, PlainDeleteMinIs DEF l
    <3> HIDE DEF m, d
    <3>3. /\ m.key \in Keys /\ m.key \in Int
          /\ m.offsets \in Seq(Offsets) /\ m.offsets # <<>>
          /\ d \in AllTrees /\ Sorted(d)
          /\ C(l) = mb \o C(d)
          /\ Filed(l) = mat \cup Filed(d)
          /\ \A e \in Filed(d) : e[1] > m.key
      BY <3>1, KeysAssumption DEF FirstOf, C
    <3>4. mb \in Seq(KeyedOffsets) /\ \A e \in mat : e[1] = m.key
      BY <3>3, BlockIs, FiledKeys
    <3>5. m.key < n.key
      <4>1. PICK e \in mat : e[1] = m.key
        BY <3>3, FiledKeys
      <4> QED
        BY <2>3, <3>3, <4>1
    <3>6. /\ R \in Nodes(AllTrees) /\ R.key = n.key /\ R.offsets = n.offsets
          /\ R.left = d /\ R.right = r
      BY <2>1, <3>3, WithLeft DEF r
    <3> HIDE DEF R, mb, mat
    <3>7. Apart(R.key, R.offsets, R.left, R.right)
      BY <2>2, <3>3, <3>6 DEF Apart
    <3>8. /\ R \in AllTrees /\ Sorted(R) /\ C(R) = (C(d) \o b) \o C(r)
          /\ C(d) \in Seq(KeyedOffsets)
          /\ Filed(R) = Filed(d) \cup at \cup Filed(r)
      BY <2>2, <3>3, <3>6, <3>7, NodeInOrder, Zenon DEF C, b, at
    <3>9. C(n) = mb \o C(R)
      <4> DEFINE x == C(d)
                 y == C(r)
      <4>1. x \in Seq(KeyedOffsets) /\ y \in Seq(KeyedOffsets)
        BY <2>3, <3>8
      <4> HIDE DEF x, y
      <4>2. ((mb \o x) \o b) \o y = mb \o ((x \o b) \o y)
        <5>1. mb \in Seq(KeyedOffsets) /\ b \in Seq(KeyedOffsets)
          BY <2>3, <3>4
        <5>2. \A bb, cc, dd \in Seq(KeyedOffsets) : ((mb \o bb) \o cc) \o dd = mb \o ((bb \o cc) \o dd)
          BY <5>1, FourInARow, Zenon
        <5>3. \A cc, dd \in Seq(KeyedOffsets) : ((mb \o x) \o cc) \o dd = mb \o ((x \o cc) \o dd)
          BY <4>1, <5>2, Zenon
        <5>4. \A dd \in Seq(KeyedOffsets) : ((mb \o x) \o b) \o dd = mb \o ((x \o b) \o dd)
          BY <5>1, <5>3, Zenon
        <5> QED
          BY <4>1, <5>4, Zenon
      <4> QED
        BY <2>3, <3>3, <3>8, <4>2, Zenon DEF x, y
    <3>10. \A e \in Filed(R) : e[1] > m.key
      BY <2>3, <3>3, <3>5, <3>8
    <3>11. Filed(n) = mat \cup Filed(R)
      BY <2>3, <3>3, <3>8
    <3> QED
      BY <3>2, <3>3, <3>8, <3>9, <3>10, <3>11 DEF FirstOf, C, mb, mat
  <2> QED
    BY <2>5, <2>6
<1>3. \A n \in AllTrees : n # Nil /\ n.left \in P /\ n.right \in P => n \in P
  BY <1>2
<1> HIDE DEF P
<1>4. AllTrees \subseteq P
  BY <1>1, <1>3, TreesLayered, TreeInduction DEF AllTrees
<1> QED
  BY <1>4 DEF P, BstMin

\* The root goes.
LEMMA UnlinkTyped ==
  ASSUME NEW n \in Trees, n # Nil, NEW s \in Int
  PROVE  Unlink([root |-> n, size |-> s]) \in Planted
<1> DEFINE t == [root |-> n, size |-> s]
<1>1. t.root = n /\ t.size = s
  OBVIOUS
<1>2. n \in Nodes(AllTrees) /\ n.left \in AllTrees /\ n.right \in AllTrees /\ n.right \in Trees
  BY InTrees, Parts
<1>3. \A x \in AllTrees, i \in Int : [root |-> x, size |-> i] \in Planted
  BY DEF Planted
<1> HIDE DEF t
<1>4. CASE n.left = Nil
  <2>1. Unlink(t) = [root |-> n.right, size |-> s - 1]
    BY <1>1, <1>4 DEF Unlink
  <2> QED
    BY <1>2, <1>3, <2>1 DEF t
<1>5. CASE n.left # Nil /\ n.right = Nil
  <2>1. Unlink(t) = [root |-> n.left, size |-> s - 1]
    BY <1>1, <1>5 DEF Unlink
  <2> QED
    BY <1>2, <1>3, <2>1 DEF t
<1>6. CASE n.left # Nil /\ n.right # Nil
  <2> DEFINE m == BstMin(n.right)
             d == BstDeleteMin(n.right)
             u == [n EXCEPT !.key = m.key, !.offsets = m.offsets, !.right = d]
  <2>1. Unlink(t) = [root |-> u, size |-> s - 1 - 1 + 1]
    BY <1>1, <1>6 DEF Unlink
  <2>2. m \in Nodes(AllTrees) /\ d \in AllTrees
    BY <1>2, <1>6, LeastTyped, PlainLeastTyped DEF BstMin
  <2> HIDE DEF m, d
  <2>3. u \in Nodes(AllTrees)
    BY <1>2, <2>2 DEF Nodes
  <2> HIDE DEF u
  <2> QED
    BY <1>3, <2>1, <2>3, AllTreesAre DEF t
<1> QED
  BY <1>4, <1>5, <1>6

\* What takes the place of a node lists what its two subtrees list.
LEMMA UnlinkKeeps ==
  ASSUME NEW n \in Nodes(AllTrees), Sorted(n), NEW s \in Int
  PROVE  LET u == Unlink([root |-> n, size |-> s])
         IN  /\ u.root \in AllTrees /\ Sorted(u.root) /\ u.size = s - 1
             /\ AvlCollect(u.root) = AvlCollect(n.left) \o AvlCollect(n.right)
             /\ Filed(u.root) = Filed(n.left) \cup Filed(n.right)
<1> DEFINE t == [root |-> n, size |-> s]
           u == Unlink(t)
           l == n.left
           r == n.right
           C(x) == AvlCollect(x)
<1>1. t.root = n /\ t.size = s
  OBVIOUS
<1>2. l \in AllTrees /\ r \in AllTrees
  BY NodeIs
<1>3. Sorted(l) /\ Sorted(r) /\ Apart(n.key, n.offsets, l, r)
  BY OfNode
<1>4. C(l) \in Seq(KeyedOffsets) /\ C(r) \in Seq(KeyedOffsets)
  BY <1>2, <1>3, InOrder
<1>5. C(Nil) = <<>> /\ Filed(Nil) = {}
  BY CollectIs, OfNil
<1> HIDE DEF t, u, l, r, C
<1>6. CASE l = Nil
  <2>1. Unlink(t) = [root |-> r, size |-> s - 1]
    BY <1>1, <1>6 DEF Unlink, l, r
  <2>2. C(l) \o C(r) = C(r)
    BY <1>4, <1>5, <1>6, ConcatEmptySeq
  <2>3. u.root = r /\ u.size = s - 1
    BY <2>1 DEF u
  <2> QED
    BY <1>2, <1>3, <1>5, <1>6, <2>2, <2>3 DEF u, t, l, r, C
<1>7. CASE l # Nil /\ r = Nil
  <2>1. Unlink(t) = [root |-> l, size |-> s - 1]
    BY <1>1, <1>7 DEF Unlink, l, r
  <2>2. C(l) \o C(r) = C(l)
    BY <1>4, <1>5, <1>7, ConcatEmptySeq
  <2>3. u.root = l /\ u.size = s - 1
    BY <2>1 DEF u
  <2> QED
    BY <1>2, <1>3, <1>5, <1>7, <2>2, <2>3 DEF u, t, l, r, C
<1>8. CASE l # Nil /\ r # Nil
  <2> DEFINE m == BstMin(r)
             d == BstDeleteMin(r)
             x == [n EXCEPT !.key = m.key, !.offsets = m.offsets, !.right = d]
             mb == Block(m.key, m.offsets)
             mat == FiledAt(m.key, m.offsets)
  <2>1. Unlink(t) = [root |-> x, size |-> s - 1 - 1 + 1]
    BY <1>1, <1>8 DEF Unlink, l, r
  <2>2. FirstOf(r, m, d)
    BY <1>2, <1>3, <1>8, PlainLeastKeeps
  <2>3. u.root = x /\ u.size = s - 1
    BY <2>1 DEF u
  <2> HIDE DEF m, d
  <2>4. /\ m.key \in Keys /\ m.key \in Int /\ m.offsets \in Seq(Offsets) /\ m.offsets # <<>>
        /\ d \in AllTrees /\ Sorted(d)
        /\ C(r) = mb \o C(d)
        /\ Filed(r) = mat \cup Filed(d)
        /\ \A e \in Filed(d) : e[1] > m.key
    BY <2>2, KeysAssumption DEF FirstOf, C
  <2>5. /\ x \in Nodes(AllTrees) /\ x.key = m.key /\ x.offsets = m.offsets
        /\ x.left = l /\ x.right = d
    BY <2>4 DEF Nodes, l
  <2>6. m.key > n.key
    <3>1. PICK e \in mat : e[1] = m.key
      BY <2>4, FiledKeys
    <3> QED
      BY <1>3, <2>4, <3>1 DEF Apart
  <2>7. \A e \in Filed(l) : e[1] < m.key
    <3>1. \A e \in Filed(l) : e[1] < n.key /\ e[1] \in Int
      BY <1>2, <1>3, FiledKeys, KeysAssumption DEF Apart
    <3>2. n.key \in Int
      BY NodeIs, KeysAssumption
    <3> QED
      BY <2>4, <2>6, <3>1, <3>2
  <2>8. mb \in Seq(KeyedOffsets)
    BY <2>4, BlockIs
  <2> HIDE DEF x, mb, mat
  <2>9. Apart(x.key, x.offsets, x.left, x.right)
    BY <2>4, <2>5, <2>7 DEF Apart
  <2>10. /\ x \in AllTrees /\ Sorted(x) /\ C(x) = (C(l) \o mb) \o C(d)
         /\ C(d) \in Seq(KeyedOffsets)
         /\ Filed(x) = Filed(l) \cup mat \cup Filed(d)
    BY <1>3, <2>4, <2>5, <2>9, NodeInOrder, Zenon DEF C, mb, mat
  <2> DEFINE y == C(l)
             z == C(d)
  <2>11. y \in Seq(KeyedOffsets) /\ z \in Seq(KeyedOffsets)
    BY <1>4, <2>10
  <2> HIDE DEF y, z
  <2>12. (y \o mb) \o z = y \o (mb \o z)
    BY <2>8, <2>11, ConcatAssociative
  <2>13. C(x) = C(l) \o C(r)
    BY <2>4, <2>10, <2>12, Zenon DEF y, z
  <2>14. Filed(x) = Filed(l) \cup Filed(r)
    BY <2>4, <2>10
  <2> QED
    BY <2>3, <2>10, <2>13, <2>14 DEF u, t, l, r, C
<1> QED
  BY <1>6, <1>7, <1>8

\* The recursion of BstRemove.
LEMMA PlainRemoveRuns ==
  ASSUME NEW key \in Keys, NEW offset \in Offsets, NEW tree \in Planted, tree.root \in Trees
  PROVE  \E f :
           /\ BstRemove(tree, key, offset) = f[tree.root]
           /\ f[Nil] = [root |-> Nil, size |-> tree.size]
           /\ \A n \in Trees : f[n] \in Planted
           /\ \A n \in Trees : n # Nil =>
                f[n] = IF key < n.key
                         THEN [root |-> [n EXCEPT !.left = f[n.left].root], size |-> f[n.left].size]
                       ELSE IF key > n.key
                         THEN [root |-> [n EXCEPT !.right = f[n.right].root],
                               size |-> f[n.right].size]
                       ELSE IF RemoveFirst(n.offsets, offset) # <<>>
                         THEN [root |-> [n EXCEPT !.offsets = RemoveFirst(n.offsets, offset)],
                               size |-> tree.size]
                         ELSE Unlink([root |-> n, size |-> tree.size])
<1> DEFINE base == [tree EXCEPT !.root = Nil]
           Less(m) == LET offsets == RemoveFirst(m.offsets, offset)
                      IN  IF offsets # <<>>
                            THEN [tree EXCEPT !.root = [m EXCEPT !.offsets = offsets]]
                            ELSE Unlink([tree EXCEPT !.root = m])
           After(m, a, b) ==
             IF key < m.key THEN [a EXCEPT !.root = [m EXCEPT !.left = a.root]]
             ELSE IF key > m.key THEN [b EXCEPT !.root = [m EXCEPT !.right = b.root]]
             ELSE Less(m)
           step == [q \in AllTrees \X Planted \X Planted |->
                      IF q[1] \in Trees THEN After(q[1], q[2], q[3]) ELSE base]
           removed[n \in Trees] ==
             IF n = Nil THEN [tree EXCEPT !.root = Nil]
             ELSE IF key < n.key
               THEN LET t == removed[n.left] IN [t EXCEPT !.root = [n EXCEPT !.left = t.root]]
             ELSE IF key > n.key
               THEN LET t == removed[n.right] IN [t EXCEPT !.root = [n EXCEPT !.right = t.root]]
             ELSE LET offsets == RemoveFirst(n.offsets, offset)
                  IN  IF offsets # <<>>
                        THEN [tree EXCEPT !.root = [n EXCEPT !.offsets = offsets]]
                        ELSE Unlink([tree EXCEPT !.root = n])
<1>1. \A p \in Planted : \A r : [p EXCEPT !.root = r] = [root |-> r, size |-> p.size]
  BY DEF Planted
<1>2. \A r \in AllTrees, s \in Int : [root |-> r, size |-> s] \in Planted
  BY DEF Planted
<1>3. \A p \in Planted : p.root \in AllTrees /\ p.size \in Int
  BY DEF Planted
<1>4. base = [root |-> Nil, size |-> tree.size] /\ base \in Planted
  BY <1>1, <1>2, <1>3, AllTreesAre
<1>5. ASSUME NEW m \in Trees, m # Nil
      PROVE  /\ Less(m) \in Planted
             /\ Less(m) = IF RemoveFirst(m.offsets, offset) # <<>>
                            THEN [root |-> [m EXCEPT !.offsets = RemoveFirst(m.offsets, offset)],
                                  size |-> tree.size]
                            ELSE Unlink([root |-> m, size |-> tree.size])
  <2> DEFINE less == RemoveFirst(m.offsets, offset)
  <2>1. m \in Nodes(AllTrees) /\ m.offsets \in Seq(Offsets)
    BY <1>5, InTrees, Parts
  <2>2. less \in Seq(Offsets)
    BY <2>1, RemovedTyped
  <2>3. Less(m) = IF less # <<>> THEN [tree EXCEPT !.root = [m EXCEPT !.offsets = less]]
                  ELSE Unlink([tree EXCEPT !.root = m])
    OBVIOUS
  <2> HIDE DEF less, Less
  <2>4. Less(m) = IF less # <<>> THEN [root |-> [m EXCEPT !.offsets = less], size |-> tree.size]
                  ELSE Unlink([root |-> m, size |-> tree.size])
    BY <1>1, <2>3, Zenon
  <2>5. [m EXCEPT !.offsets = less] \in AllTrees
    <3>1. [m EXCEPT !.offsets = less] \in Nodes(AllTrees)
      BY <2>1, <2>2 DEF Nodes
    <3> QED
      BY <3>1, AllTreesAre
  <2>6. Unlink([root |-> m, size |-> tree.size]) \in Planted
    BY <1>3, <1>5, UnlinkTyped
  <2>7. [root |-> [m EXCEPT !.offsets = less], size |-> tree.size] \in Planted
    BY <1>2, <1>3, <2>5
  <2> QED
    BY <2>4, <2>6, <2>7, Zenon DEF less
<1> HIDE DEF Less
<1>6. ASSUME NEW m \in Trees, NEW a \in Planted, NEW b \in Planted, m # Nil
      PROVE  After(m, a, b) \in Planted
  <2>1. m \in Nodes(AllTrees)
    BY <1>6, InTrees, Parts
  <2>2. a.root \in AllTrees /\ b.root \in AllTrees
    BY <1>3
  <2>3. [m EXCEPT !.left = a.root] \in AllTrees /\ [m EXCEPT !.right = b.root] \in AllTrees
    BY <2>1, <2>2, WithLeft, WithRight, AllTreesAre
  <2>4. \A p \in Planted, r \in AllTrees : [p EXCEPT !.root = r] \in Planted
    BY DEF Planted
  <2> QED
    BY <1>5, <1>6, <2>3, <2>4
<1> HIDE DEF After
<1>7. \A m \in AllTrees, a, b \in Planted :
        step[<<m, a, b>>] = IF m \in Trees THEN After(m, a, b) ELSE base
  OBVIOUS
<1> HIDE DEF step, base
<1>8. \A m \in AllTrees, a, b \in Planted : m # Nil => step[<<m, a, b>>] \in Planted
  BY <1>4, <1>6, <1>7
<1>9. PICK f : IsFold(f, Trees, Nil, Planted, base, step)
  BY <1>4, <1>8, TreeFoldExists
<1>10. ASSUME NEW m \in Trees
       PROVE  f[m] = IF m = Nil THEN base ELSE After(m, f[m.left], f[m.right])
  <2>1. m # Nil => /\ m \in AllTrees /\ f[m.left] \in Planted /\ f[m.right] \in Planted
                   /\ f[m] = step[<<m, f[m.left], f[m.right]>>]
    BY <1>9, InTrees DEF IsFold
  <2>2. f[Nil] = base
    BY <1>9, InTrees DEF IsFold
  <2> QED
    BY <1>7, <2>1, <2>2
<1>11. f = [m \in Trees |-> f[m]]
  BY <1>9 DEF IsFold
<1>12. f = [n \in Trees |->
             IF n = Nil THEN [tree EXCEPT !.root = Nil]
             ELSE IF key < n.key
               THEN LET t == f[n.left] IN [t EXCEPT !.root = [n EXCEPT !.left = t.root]]
             ELSE IF key > n.key
               THEN LET t == f[n.right] IN [t EXCEPT !.root = [n EXCEPT !.right = t.root]]
             ELSE LET offsets == RemoveFirst(n.offsets, offset)
                  IN  IF offsets # <<>>
                        THEN [tree EXCEPT !.root = [n EXCEPT !.offsets = offsets]]
                        ELSE Unlink([tree EXCEPT !.root = n])]
  BY <1>10, <1>11, Zenon DEF After, Less, base
<1>13. removed = [n \in Trees |->
             IF n = Nil THEN [tree EXCEPT !.root = Nil]
             ELSE IF key < n.key
               THEN LET t == removed[n.left] IN [t EXCEPT !.root = [n EXCEPT !.left = t.root]]
             ELSE IF key > n.key
               THEN LET t == removed[n.right] IN [t EXCEPT !.root = [n EXCEPT !.right = t.root]]
             ELSE LET offsets == RemoveFirst(n.offsets, offset)
                  IN  IF offsets # <<>>
                        THEN [tree EXCEPT !.root = [n EXCEPT !.offsets = offsets]]
                        ELSE Unlink([tree EXCEPT !.root = n])]
  BY <1>12, Zenon
<1>14. BstRemove(tree, key, offset) = removed[tree.root]
  BY DEF BstRemove
<1> HIDE DEF removed
<1>15. \A m \in Trees :
         removed[m] = IF m = Nil THEN base ELSE After(m, removed[m.left], removed[m.right])
  BY <1>13, Zenon DEF After, Less, base
<1>16. \A m \in Trees : removed[m] \in Planted
  <2> DEFINE P == {t \in AllTrees : t \in Trees => removed[t] \in Planted}
  <2>1. Nil \in P
    BY <1>4, <1>15, InTrees
  <2>2. \A n \in AllTrees : n # Nil /\ n.left \in P /\ n.right \in P => n \in P
    BY <1>6, <1>15, InTrees
  <2> HIDE DEF P
  <2>3. AllTrees \subseteq P
    BY <2>1, <2>2, TreesLayered, TreeInduction DEF AllTrees
  <2> QED
    BY <2>3, InTrees DEF P
<1>17. ASSUME NEW n \in Trees, n # Nil
       PROVE  removed[n] =
                IF key < n.key
                  THEN [root |-> [n EXCEPT !.left = removed[n.left].root],
                        size |-> removed[n.left].size]
                ELSE IF key > n.key
                  THEN [root |-> [n EXCEPT !.right = removed[n.right].root],
                        size |-> removed[n.right].size]
                ELSE IF RemoveFirst(n.offsets, offset) # <<>>
                  THEN [root |-> [n EXCEPT !.offsets = RemoveFirst(n.offsets, offset)],
                        size |-> tree.size]
                  ELSE Unlink([root |-> n, size |-> tree.size])
  <2>1. removed[n.left] \in Planted /\ removed[n.right] \in Planted
    BY <1>16, <1>17, InTrees
  <2>2. removed[n] = After(n, removed[n.left], removed[n.right])
    BY <1>15, <1>17
  <2>3. Less(n) = IF RemoveFirst(n.offsets, offset) # <<>>
                    THEN [root |-> [n EXCEPT !.offsets = RemoveFirst(n.offsets, offset)],
                          size |-> tree.size]
                    ELSE Unlink([root |-> n, size |-> tree.size])
    BY <1>5, <1>17
  <2> QED
    BY <1>1, <2>1, <2>2, <2>3, Zenon DEF After
<1>18. removed[Nil] = base
  BY <1>15, InTrees
<1> QED
  BY <1>4, <1>14, <1>16, <1>17, <1>18

\* What the deletion makes of a tree and its counter: the pair is listed once less, if it was
\* there, and a key that has no offset left is no longer counted.
Shrunk(t, r, s0, s1, pair) ==
  /\ r \in AllTrees /\ Sorted(r)
  /\ IF pair \in Filed(t) THEN More(AvlCollect(r), AvlCollect(t), pair)
     ELSE AvlCollect(r) = AvlCollect(t)
  /\ s1 = s0 - IF pair[1] \in KeysOf(t) /\ pair[1] \notin KeysOf(r) THEN 1 ELSE 0

LEMMA ShrunkHas ==
  ASSUME NEW t \in AllTrees, Sorted(t), NEW r, NEW s0, NEW s1, NEW pair \in KeyedOffsets,
         Shrunk(t, r, s0, s1, pair)
  PROVE  Filed(t) = IF pair \in Filed(t) THEN Filed(r) \cup {pair} ELSE Filed(r)
<1>1. r \in AllTrees /\ Sorted(r)
  BY DEF Shrunk
<1>2. ToSet(AvlCollect(r)) = Filed(r) /\ ToSet(AvlCollect(t)) = Filed(t)
  BY <1>1, InOrder
<1>3. CASE pair \in Filed(t)
  <2>1. More(AvlCollect(r), AvlCollect(t), pair)
    BY <1>3 DEF Shrunk
  <2>2. ToSet(AvlCollect(t)) = ToSet(AvlCollect(r)) \cup {pair}
    BY <2>1, MoreHas
  <2> QED
    BY <1>2, <1>3, <2>2
<1>4. CASE pair \notin Filed(t)
  BY <1>2, <1>4 DEF Shrunk
<1> QED
  BY <1>3, <1>4

LEMMA PlainRemoveKeeps ==
  ASSUME NEW key \in Keys, NEW offset \in Offsets, NEW tree \in Planted, Sorted(tree.root)
  PROVE  LET r == BstRemove(tree, key, offset)
         IN  r \in Planted /\ Shrunk(tree.root, r.root, tree.size, r.size, <<key, offset>>)
<1> DEFINE pair == <<key, offset>>
           C(t) == AvlCollect(t)
<1>1. tree.root \in AllTrees /\ tree.root \in Trees /\ tree.size \in Int
  BY SortedTreesAreTrees DEF Planted
<1>2. PICK f :
        /\ BstRemove(tree, key, offset) = f[tree.root]
        /\ f[Nil] = [root |-> Nil, size |-> tree.size]
        /\ \A n \in Trees : f[n] \in Planted
        /\ \A n \in Trees : n # Nil =>
             f[n] = IF key < n.key
                      THEN [root |-> [n EXCEPT !.left = f[n.left].root], size |-> f[n.left].size]
                    ELSE IF key > n.key
                      THEN [root |-> [n EXCEPT !.right = f[n.right].root],
                            size |-> f[n.right].size]
                    ELSE IF RemoveFirst(n.offsets, offset) # <<>>
                      THEN [root |-> [n EXCEPT !.offsets = RemoveFirst(n.offsets, offset)],
                            size |-> tree.size]
                      ELSE Unlink([root |-> n, size |-> tree.size])
  BY <1>1, PlainRemoveRuns
<1>3. pair \in KeyedOffsets /\ pair[1] = key /\ key \in Int
  BY KeysAssumption DEF KeyedOffsets
<1> DEFINE G(t) == Shrunk(t, f[t].root, tree.size, f[t].size, pair)
           P == {t \in AllTrees : Sorted(t) => G(t)}
<1> HIDE DEF pair
<1>4. G(Nil)
  <2>1. f[Nil].root = Nil /\ f[Nil].size = tree.size
    BY <1>2
  <2>2. KeysOf(Nil) = {} /\ pair \notin Filed(Nil) /\ Nil \in AllTrees /\ Sorted(Nil)
    BY OfNil DEF KeysOf
  <2> QED
    BY <1>1, <2>1, <2>2 DEF Shrunk
<1>5. ASSUME NEW n \in AllTrees, n # Nil, n.left \in P, n.right \in P, Sorted(n)
      PROVE  G(n)
  <2> DEFINE l == n.left
             r == n.right
             b == Block(n.key, n.offsets)
             less == RemoveFirst(n.offsets, offset)
  <2>1. n \in Nodes(AllTrees) /\ l \in AllTrees /\ r \in AllTrees
    BY <1>5, Parts
  <2>2. Sorted(l) /\ Sorted(r) /\ Apart(n.key, n.offsets, l, r)
    BY <1>5, <2>1, OfNode
  <2>3. /\ n \in Trees /\ n.key \in Keys /\ n.key \in Int /\ n.offsets \in Seq(Offsets)
        /\ C(n) = (C(l) \o b) \o C(r)
        /\ C(l) \in Seq(KeyedOffsets) /\ C(r) \in Seq(KeyedOffsets) /\ b \in Seq(KeyedOffsets)
        /\ Filed(n) = Filed(l) \cup FiledAt(n.key, n.offsets) \cup Filed(r)
        /\ KeysOf(n) = KeysOf(l) \cup {n.key} \cup KeysOf(r)
        /\ \A e \in Filed(l) : e[1] < n.key /\ e[1] \in Int
        /\ \A e \in Filed(r) : e[1] > n.key /\ e[1] \in Int
        /\ \A e \in FiledAt(n.key, n.offsets) : e[1] = n.key
    BY <2>1, <2>2, NodeInOrder, Zenon
  <2>4. G(l) /\ G(r)
    BY <1>5, <2>2
  <2>5. f[n] = IF key < n.key THEN [root |-> [n EXCEPT !.left = f[l].root], size |-> f[l].size]
               ELSE IF key > n.key
                 THEN [root |-> [n EXCEPT !.right = f[r].root], size |-> f[r].size]
               ELSE IF less # <<>>
                 THEN [root |-> [n EXCEPT !.offsets = less], size |-> tree.size]
               ELSE Unlink([root |-> n, size |-> tree.size])
    BY <1>2, <1>5, <2>3, Zenon
  <2>6. /\ key < n.key => key \notin KeysOf(r) /\ (pair \in Filed(n) <=> pair \in Filed(l))
        /\ key > n.key => key \notin KeysOf(l) /\ (pair \in Filed(n) <=> pair \in Filed(r))
        /\ key = n.key => key \notin KeysOf(l) /\ key \notin KeysOf(r)
    BY <1>3, <2>3 DEF KeysOf
  <2> HIDE DEF P, G, l, r, b, less, C
  <2>7. CASE key < n.key
    <3> DEFINE u == f[l].root
               m == [n EXCEPT !.left = u]
    <3>1. /\ u \in AllTrees /\ Sorted(u)
          /\ IF pair \in Filed(l) THEN More(C(u), C(l), pair) ELSE C(u) = C(l)
          /\ f[l].size = tree.size - IF key \in KeysOf(l) /\ key \notin KeysOf(u) THEN 1 ELSE 0
      BY <1>3, <2>4 DEF G, Shrunk, C
    <3>2. Filed(u) \subseteq Filed(l)
      <4>1. Filed(l) = IF pair \in Filed(l) THEN Filed(u) \cup {pair} ELSE Filed(u)
        BY <1>3, <2>1, <2>2, <2>4, ShrunkHas DEF G
      <4> QED
        BY <4>1
    <3>3. f[n].root = m /\ f[n].size = f[l].size
      BY <2>5, <2>7
    <3> HIDE DEF u
    <3>4. /\ m \in Nodes(AllTrees) /\ m.key = n.key /\ m.offsets = n.offsets
          /\ m.left = u /\ m.right = r
      BY <2>1, <3>1, WithLeft DEF r
    <3> HIDE DEF m
    <3>5. Apart(m.key, m.offsets, m.left, m.right)
      BY <2>2, <3>2, <3>4 DEF Apart
    <3>6. /\ m \in AllTrees /\ Sorted(m) /\ C(m) = (C(u) \o b) \o C(r)
          /\ C(u) \in Seq(KeyedOffsets)
          /\ KeysOf(m) = KeysOf(u) \cup {n.key} \cup KeysOf(r)
      BY <2>2, <3>1, <3>4, <3>5, NodeInOrder, Zenon DEF C, b
    <3>7. pair \in Filed(n) => More(C(m), C(n), pair)
      BY <1>3, <2>3, <2>6, <2>7, <3>1, <3>6, MoreInNode
    <3>8. pair \notin Filed(n) => C(m) = C(n)
      BY <2>3, <2>6, <2>7, <3>1, <3>6
    <3>9. /\ key \in KeysOf(n) <=> key \in KeysOf(l)
          /\ key \in KeysOf(m) <=> key \in KeysOf(u)
      BY <1>3, <2>3, <2>6, <2>7, <3>6
    <3> QED
      BY <1>3, <3>1, <3>3, <3>6, <3>7, <3>8, <3>9 DEF G, Shrunk, C
  <2>8. CASE key > n.key
    <3> DEFINE u == f[r].root
               m == [n EXCEPT !.right = u]
    <3>1. /\ u \in AllTrees /\ Sorted(u)
          /\ IF pair \in Filed(r) THEN More(C(u), C(r), pair) ELSE C(u) = C(r)
          /\ f[r].size = tree.size - IF key \in KeysOf(r) /\ key \notin KeysOf(u) THEN 1 ELSE 0
      BY <1>3, <2>4 DEF G, Shrunk, C
    <3>2. Filed(u) \subseteq Filed(r)
      <4>1. Filed(r) = IF pair \in Filed(r) THEN Filed(u) \cup {pair} ELSE Filed(u)
        BY <1>3, <2>1, <2>2, <2>4, ShrunkHas DEF G
      <4> QED
        BY <4>1
    <3>3. f[n].root = m /\ f[n].size = f[r].size
      BY <1>3, <2>3, <2>5, <2>8
    <3> HIDE DEF u
    <3>4. /\ m \in Nodes(AllTrees) /\ m.key = n.key /\ m.offsets = n.offsets
          /\ m.left = l /\ m.right = u
      BY <2>1, <3>1, WithRight DEF l
    <3> HIDE DEF m
    <3>5. Apart(m.key, m.offsets, m.left, m.right)
      BY <2>2, <3>2, <3>4 DEF Apart
    <3>6. /\ m \in AllTrees /\ Sorted(m) /\ C(m) = (C(l) \o b) \o C(u)
          /\ C(u) \in Seq(KeyedOffsets)
          /\ KeysOf(m) = KeysOf(l) \cup {n.key} \cup KeysOf(u)
      BY <2>2, <3>1, <3>4, <3>5, NodeInOrder, Zenon DEF C, b
    <3>7. pair \in Filed(n) => More(C(m), C(n), pair)
      BY <1>3, <2>3, <2>6, <2>8, <3>1, <3>6, MoreInNode
    <3>8. pair \notin Filed(n) => C(m) = C(n)
      BY <2>3, <2>6, <2>8, <3>1, <3>6
    <3>9. /\ key \in KeysOf(n) <=> key \in KeysOf(r)
          /\ key \in KeysOf(m) <=> key \in KeysOf(u)
      BY <1>3, <2>3, <2>6, <2>8, <3>6
    <3> QED
      BY <1>3, <3>1, <3>3, <3>6, <3>7, <3>8, <3>9 DEF G, Shrunk, C
  <2>9. CASE key = n.key
    <3>1. pair \in Filed(n) <=> offset \in ToSet(n.offsets)
      <4>1. pair \notin Filed(l) /\ pair \notin Filed(r)
        BY <1>3, <2>3, <2>9
      <4>2. pair \in FiledAt(n.key, n.offsets) <=> offset \in ToSet(n.offsets)
        BY <2>9 DEF FiledAt, pair
      <4> QED
        BY <2>3, <4>1, <4>2
    <3>2. offset \in ToSet(n.offsets) => less \in Seq(Offsets) /\ More(Block(n.key, less), b, pair)
      BY <2>3, <2>9, BlockLess DEF less, b, pair
    <3>3. offset \notin ToSet(n.offsets) => less = n.offsets
      BY <2>3, RemoveFirstIs DEF less
    <3>4. key \in KeysOf(n)
      BY <2>3, <2>9
    <3>5. less \in Seq(Offsets)
      BY <2>3, <3>2, <3>3
    <3> DEFINE lb == Block(n.key, less)
    <3>6. lb \in Seq(KeyedOffsets)
      BY <2>3, <3>5, BlockIs
    <3> HIDE DEF lb
    <3>7. offset \in ToSet(n.offsets) => More((C(l) \o lb) \o C(r), C(n), pair)
      BY <1>3, <2>3, <3>2, <3>6, MoreInNode DEF lb
    <3>8. CASE less # <<>>
      <4> DEFINE m == [n EXCEPT !.offsets = less]
      <4>1. f[n].root = m /\ f[n].size = tree.size
        BY <1>3, <2>3, <2>5, <2>9, <3>8
      <4>2. /\ m \in Nodes(AllTrees) /\ m.key = n.key /\ m.offsets = less
            /\ m.left = l /\ m.right = r
        BY <2>1, <3>5 DEF Nodes, l, r
      <4> HIDE DEF m
      <4>3. Apart(m.key, m.offsets, m.left, m.right)
        BY <2>2, <3>8, <4>2 DEF Apart
      <4>4. /\ m \in AllTrees /\ Sorted(m) /\ C(m) = (C(l) \o lb) \o C(r)
            /\ KeysOf(m) = KeysOf(l) \cup {n.key} \cup KeysOf(r)
        BY <2>2, <4>2, <4>3, NodeInOrder, Zenon DEF C, lb
      <4>5. offset \notin ToSet(n.offsets) => C(m) = C(n)
        BY <2>3, <3>3, <4>4 DEF lb, b
      <4>6. key \in KeysOf(m)
        BY <2>9, <4>4
      <4> QED
        BY <1>1, <1>3, <3>1, <3>7, <4>1, <4>4, <4>5, <4>6 DEF G, Shrunk, C
    <3>9. CASE less = <<>>
      <4> DEFINE u == Unlink([root |-> n, size |-> tree.size])
      <4>1. f[n] = u
        BY <1>3, <2>3, <2>5, <2>9, <3>9
      <4>2. /\ u.root \in AllTrees /\ Sorted(u.root) /\ u.size = tree.size - 1
            /\ C(u.root) = C(l) \o C(r)
            /\ Filed(u.root) = Filed(l) \cup Filed(r)
        BY <1>1, <1>5, <2>1, UnlinkKeeps DEF C, l, r
      <4> HIDE DEF u
      <4>3. offset \in ToSet(n.offsets)
        BY <2>2, <3>3, <3>9 DEF Apart
      <4>4. lb = <<>>
        BY <3>9 DEF lb, Block
      <4>5. C(l) \o <<>> = C(l)
        BY <2>3, ConcatEmptySeq
      <4>6. More(C(u.root), C(n), pair)
        BY <3>7, <4>2, <4>3, <4>4, <4>5
      <4>7. key \notin KeysOf(u.root)
        BY <2>6, <2>9, <4>2 DEF KeysOf
      <4> QED
        BY <1>1, <1>3, <3>1, <3>4, <4>1, <4>2, <4>3, <4>6, <4>7 DEF G, Shrunk, C
    <3> QED
      BY <3>8, <3>9
  <2> QED
    BY <1>3, <2>3, <2>7, <2>8, <2>9
<1>6. \A n \in AllTrees : n # Nil /\ n.left \in P /\ n.right \in P => n \in P
  BY <1>5
<1>7. Nil \in P
  BY <1>4, OfNil
<1> HIDE DEF P
<1>8. AllTrees \subseteq P
  BY <1>6, <1>7, TreesLayered, TreeInduction DEF AllTrees
<1>9. G(tree.root)
  BY <1>1, <1>8 DEF P
<1> QED
  BY <1>1, <1>2, <1>9 DEF pair

------------------------------------------------------------------------------
(* The plain tree and its counter *)

\* A tree that is ordered by key and a counter that is right.
PlainSound == {p \in Planted : Sorted(p.root) /\ p.size = Cardinality(KeysOf(p.root))}

LEMMA PlainSoundHas ==
  ASSUME NEW p \in PlainSound
  PROVE  /\ p \in Planted /\ p.root \in AllTrees /\ p.root \in Trees /\ Sorted(p.root)
         /\ p.size \in Nat /\ p.size = Cardinality(KeysOf(p.root)) /\ IsFiniteSet(KeysOf(p.root))
         /\ AvlCollect(p.root) \in Seq(KeyedOffsets) /\ ByKey(AvlCollect(p.root))
         /\ ToSet(AvlCollect(p.root)) = Filed(p.root)
<1>1. p \in Planted /\ p.root \in AllTrees /\ Sorted(p.root) /\ p.size = Cardinality(KeysOf(p.root))
  BY DEF PlainSound, Planted
<1>2. KeysOf(p.root) \subseteq Keys
  BY <1>1, FiledKeys DEF KeysOf
<1>3. IsFiniteSet(KeysOf(p.root)) /\ Cardinality(KeysOf(p.root)) \in Nat
  BY <1>2, KeysAssumption, FS_Subset, FS_CardinalityType
<1> QED
  BY <1>1, <1>3, InOrder

\* Insertion lists the pair once more, behind those with its key.
LEMMA PlainGrows ==
  ASSUME NEW p \in PlainSound, NEW pair \in KeyedOffsets
  PROVE  LET q == BstInsert(p, pair[1], pair[2])
         IN  q \in PlainSound /\ MoreAt(AvlCollect(p.root), AvlCollect(q.root), pair)
<1> DEFINE q == BstInsert(p, pair[1], pair[2])
           k == pair[1]
<1>1. k \in Keys /\ pair[2] \in Offsets /\ pair = <<k, pair[2]>>
  BY DEF KeyedOffsets
<1>2. /\ p \in Planted /\ p.root \in AllTrees /\ Sorted(p.root)
      /\ p.size \in Nat /\ p.size = Cardinality(KeysOf(p.root)) /\ IsFiniteSet(KeysOf(p.root))
  BY PlainSoundHas
<1>3. q \in Planted /\ Grown(p.root, q.root, p.size, q.size, pair)
  BY <1>1, <1>2, PlainInsertKeeps
<1> HIDE DEF q
<1>4. KeysOf(q.root) = KeysOf(p.root) \cup {k}
  BY <1>2, <1>3, GrownHas DEF KeysOf
<1>5. q.size = Cardinality(KeysOf(q.root))
  <2>1. q.size = p.size + IF k \in KeysOf(p.root) THEN 0 ELSE 1
    BY <1>3 DEF Grown
  <2>2. Cardinality(KeysOf(p.root) \cup {k}) =
          IF k \in KeysOf(p.root) THEN p.size ELSE p.size + 1
    BY <1>2, FS_AddElement
  <2> QED
    BY <1>2, <1>4, <2>1, <2>2
<1> QED
  BY <1>3, <1>5 DEF PlainSound, Grown, q

\* Deletion lists it once less, if it is there.
LEMMA PlainShrinks ==
  ASSUME NEW p \in PlainSound, NEW pair \in KeyedOffsets
  PROVE  LET q == BstRemove(p, pair[1], pair[2])
         IN  /\ q \in PlainSound
             /\ IF pair \in Filed(p.root) THEN More(AvlCollect(q.root), AvlCollect(p.root), pair)
                ELSE AvlCollect(q.root) = AvlCollect(p.root)
<1> DEFINE q == BstRemove(p, pair[1], pair[2])
           k == pair[1]
<1>1. k \in Keys /\ pair[2] \in Offsets /\ pair = <<k, pair[2]>>
  BY DEF KeyedOffsets
<1>2. /\ p \in Planted /\ p.root \in AllTrees /\ Sorted(p.root)
      /\ p.size \in Nat /\ p.size = Cardinality(KeysOf(p.root)) /\ IsFiniteSet(KeysOf(p.root))
  BY PlainSoundHas
<1>3. q \in Planted /\ Shrunk(p.root, q.root, p.size, q.size, pair)
  BY <1>1, <1>2, PlainRemoveKeeps
<1> HIDE DEF q
<1>4. Filed(p.root) = IF pair \in Filed(p.root) THEN Filed(q.root) \cup {pair} ELSE Filed(q.root)
  BY <1>2, <1>3, ShrunkHas
<1>5. \/ KeysOf(p.root) = KeysOf(q.root) \cup {k}
      \/ KeysOf(p.root) = KeysOf(q.root)
  BY <1>4 DEF KeysOf
<1>6. q.size = p.size - IF k \in KeysOf(p.root) /\ k \notin KeysOf(q.root) THEN 1 ELSE 0
  BY <1>3 DEF Shrunk
<1>7. q.size = Cardinality(KeysOf(q.root))
  <2>1. CASE k \in KeysOf(p.root) /\ k \notin KeysOf(q.root)
    <3>1. KeysOf(q.root) = KeysOf(p.root) \ {k}
      BY <1>5, <2>1
    <3> QED
      <4> DEFINE T == KeysOf(p.root)
      <4>1. IsFiniteSet(T) /\ Cardinality(T) = p.size /\ k \in T
        BY <1>2, <2>1
      <4> HIDE DEF T
      <4>2. Cardinality(T \ {k}) = p.size - 1
        BY <4>1, FS_RemoveElement
      <4> QED
        BY <1>6, <2>1, <3>1, <4>2 DEF T
  <2>2. CASE ~ (k \in KeysOf(p.root) /\ k \notin KeysOf(q.root))
    <3>1. KeysOf(q.root) = KeysOf(p.root)
      BY <1>5, <2>2
    <3> QED
      BY <1>2, <1>6, <2>2, <3>1
  <2> QED
    BY <2>1, <2>2
<1> QED
  BY <1>3, <1>7 DEF PlainSound, Shrunk, q

\* The first elements of a sequence.
Beginning(s, n) == [i \in 1..n |-> s[i]]

LEMMA BeginningGrows ==
  ASSUME NEW X, NEW s \in Seq(X), NEW n \in 1..Len(s)
  PROVE  /\ Beginning(s, n - 1) \in Seq(X)
         /\ ToSet(Beginning(s, n - 1)) = {s[i] : i \in 1..(n - 1)}
         /\ Beginning(s, n) = Append(Beginning(s, n - 1), s[n])
<1> DEFINE N == Len(s)
           u == Beginning(s, n - 1)
           v == Beginning(s, n)
           w == Append(u, s[n])
<1>1. N \in Nat /\ \A i \in 1..N : s[i] \in X
  OBVIOUS
<1> HIDE DEF N
<1>2. n \in 1..N /\ n - 1 \in Nat /\ n \in Nat /\ (n - 1) + 1 = n
      /\ \A i \in 1..(n - 1) : i \in 1..N
  BY <1>1 DEF N
<1>3. u \in Seq(X) /\ Len(u) = n - 1 /\ \A i \in 1..(n - 1) : u[i] = s[i]
  BY <1>1, <1>2 DEF Beginning
<1>4. v \in Seq(X) /\ Len(v) = n /\ \A i \in 1..n : v[i] = s[i]
  BY <1>1, <1>2 DEF Beginning
<1>5. s[n] \in X
  BY <1>1, <1>2
<1>6. DOMAIN u = 1..(n - 1)
  BY DEF Beginning
<1> HIDE DEF u, v
<1>7. /\ w \in Seq(X) /\ Len(w) = n /\ w[n] = s[n]
      /\ \A i \in 1..(n - 1) : w[i] = u[i]
  BY <1>2, <1>3, <1>5
<1> HIDE DEF w
<1>8. \A i \in 1..n : w[i] = v[i]
  <2>1. \A i \in 1..n : i = n \/ i \in 1..(n - 1)
    BY <1>2
  <2> QED
    BY <1>3, <1>4, <1>7, <2>1
<1>9. v = w
  BY <1>4, <1>7, <1>8, SeqEqual
<1>10. ToSet(u) = {s[i] : i \in 1..(n - 1)}
  BY <1>3, <1>6 DEF ToSet
<1> QED
  BY <1>3, <1>9, <1>10 DEF u, v, w

LEMMA BeginningIs ==
  ASSUME NEW X, NEW s \in Seq(X)
  PROVE  Beginning(s, 0) = <<>> /\ Beginning(s, Len(s)) = s
BY DEF Beginning

\* A listing by key, loaded, is listed as it was.
LEMMA PlainLoadKeeps ==
  ASSUME NEW pairs \in Seq(KeyedOffsets), ByKey(pairs)
  PROVE  BstLoad(pairs) \in PlainSound /\ AvlCollect(BstLoad(pairs).root) = pairs
<1> DEFINE N == Len(pairs)
           X == PlainSound
           After(n, t) == BstInsert(t, pairs[n][1], pairs[n][2])
           step == [q \in (1..N) \X X |-> After(q[1], q[2])]
           loaded[n \in 0..N] ==
             IF n = 0 THEN EmptyTree ELSE BstInsert(loaded[n - 1], pairs[n][1], pairs[n][2])
<1>1. N \in Nat /\ DOMAIN pairs = 1..N /\ \A n \in 1..N : pairs[n] \in KeyedOffsets
  OBVIOUS
<1>2. EmptyTree \in X /\ EmptyTree.root = Nil
  <2>1. EmptyTree.root = Nil /\ EmptyTree.size = 0 /\ EmptyTree \in Planted
    BY AllTreesAre DEF EmptyTree, Planted
  <2>2. KeysOf(Nil) = {} /\ Sorted(Nil)
    BY OfNil DEF KeysOf
  <2>3. Cardinality({}) = 0
    BY FS_EmptySet
  <2> QED
    BY <2>1, <2>2, <2>3 DEF PlainSound
<1>3. ASSUME NEW n \in 1..N, NEW t \in X
      PROVE  After(n, t) \in X /\ MoreAt(AvlCollect(t.root), AvlCollect(After(n, t).root), pairs[n])
  <2>1. pairs[n] \in KeyedOffsets
    BY <1>1
  <2> QED
    BY <2>1, PlainGrows
<1> HIDE DEF After, N, X
<1>4. step \in [(1..N) \X X -> X]
  BY <1>3
<1>5. \A n \in 1..N, t \in X : step[<<n, t>>] = After(n, t)
  OBVIOUS
<1> HIDE DEF step
<1>6. PICK f : IsLoop(f, N, X, EmptyTree, step)
  BY <1>1, <1>2, <1>4, LoopExists
<1>7. ASSUME NEW n \in 0..N
      PROVE  f[n] = IF n = 0 THEN EmptyTree ELSE After(n, f[n - 1])
  <2>1. CASE n = 0
    BY <1>6, <2>1 DEF IsLoop
  <2>2. CASE n # 0
    <3>1. n \in 1..N /\ n - 1 \in 0..N
      BY <1>1, <2>2
    <3>2. f[n] = step[<<n, f[n - 1]>>] /\ f[n - 1] \in X
      BY <1>6, <3>1 DEF IsLoop
    <3> QED
      BY <1>5, <2>2, <3>1, <3>2
  <2> QED
    BY <2>1, <2>2
<1>8. f = [n \in 0..N |-> f[n]]
  BY <1>6 DEF IsLoop
<1>9. f = [n \in 0..N |->
             IF n = 0 THEN EmptyTree ELSE BstInsert(f[n - 1], pairs[n][1], pairs[n][2])]
  BY <1>7, <1>8, Zenon DEF After
<1>10. loaded = [n \in 0..N |->
             IF n = 0 THEN EmptyTree ELSE BstInsert(loaded[n - 1], pairs[n][1], pairs[n][2])]
  BY <1>9, Zenon
<1>11. BstLoad(pairs) = loaded[N]
  BY DEF BstLoad, N
<1> HIDE DEF loaded
<1>12. \A n \in 0..N : loaded[n] = IF n = 0 THEN EmptyTree ELSE After(n, loaded[n - 1])
  BY <1>10, Zenon DEF After
<1> DEFINE Right == [n \in 0..N |-> {t \in X : AvlCollect(t.root) = Beginning(pairs, n)}]
<1>13. loaded[0] \in Right[0]
  <2>1. 0 \in 0..N
    BY <1>1
  <2>2. loaded[0] = EmptyTree
    BY <1>12, <2>1
  <2> QED
    BY <1>2, <2>1, <2>2, CollectIs, BeginningIs
<1>14. ASSUME NEW n \in 1..N, loaded[n - 1] \in Right[n - 1]
       PROVE  loaded[n] \in Right[n]
  <2> DEFINE t == loaded[n - 1]
             p == pairs[n]
  <2>1. n \in 0..N /\ n - 1 \in 0..N /\ n # 0
    BY <1>1
  <2>2. loaded[n] = After(n, t)
    BY <1>12, <2>1
  <2>3. t \in X /\ AvlCollect(t.root) = Beginning(pairs, n - 1)
    BY <1>14, <2>1
  <2>4. loaded[n] \in X /\ MoreAt(Beginning(pairs, n - 1), AvlCollect(loaded[n].root), p)
    BY <1>3, <2>2, <2>3
  <2>5. /\ ToSet(Beginning(pairs, n - 1)) = {pairs[i] : i \in 1..(n - 1)}
        /\ Beginning(pairs, n) = Append(Beginning(pairs, n - 1), p)
    BY BeginningGrows DEF N
  <2>6. \A i \in 1..(n - 1) : pairs[i][1] <= p[1]
    BY <1>1 DEF ByKey
  <2>7. p \in KeyedOffsets
    BY <1>1
  <2> HIDE DEF p, t
  <2>8. AvlCollect(loaded[n].root) = Append(Beginning(pairs, n - 1), p)
    BY <2>4, <2>5, <2>6, <2>7, MoreAtEnd
  <2> QED
    BY <2>1, <2>4, <2>5, <2>8
<1> HIDE DEF Right
<1>15. \A n \in 0..N : loaded[n] \in Right[n]
  BY <1>1, <1>13, <1>14, LoopInvariant
<1>16. N \in 0..N
  BY <1>1
<1>17. loaded[N] \in X /\ AvlCollect(loaded[N].root) = Beginning(pairs, N)
  BY <1>15, <1>16 DEF Right
<1> QED
  BY <1>11, <1>17, BeginningIs DEF X, N

------------------------------------------------------------------------------
(* The bag of the pairs in a listing *)

\* How often x is in a list, and that for everything in it.
Occurrences(s, x) == Cardinality({i \in DOMAIN s : s[i] = x})

CountOfEach(s) == [x \in ToSet(s) |-> Occurrences(s, x)]

LEMMA OccurrencesAre ==
  ASSUME NEW X, NEW s \in Seq(X), NEW x
  PROVE  /\ IsFiniteSet({i \in DOMAIN s : s[i] = x}) /\ Occurrences(s, x) \in Nat
         /\ Occurrences(s, x) = 0 <=> x \notin ToSet(s)
<1> DEFINE I == {i \in DOMAIN s : s[i] = x}
           N == Len(s)
<1>1. N \in Nat /\ DOMAIN s = 1..N
  OBVIOUS
<1>2. IsFiniteSet(1..N)
  BY <1>1, FS_Interval
<1>3. IsFiniteSet(I)
  <2>1. I \subseteq 1..N
    BY <1>1
  <2> QED
    BY <1>2, <2>1, FS_Subset
<1>4. I = {} <=> x \notin ToSet(s)
  BY DEF ToSet
<1> HIDE DEF I
<1>5. Cardinality(I) \in Nat /\ (Cardinality(I) = 0 <=> I = {})
  BY <1>3, FS_CardinalityType, FS_EmptySet
<1> QED
  BY <1>3, <1>4, <1>5 DEF Occurrences, I

\* A pair more is one occurrence more of it and as many of every other.
LEMMA MoreCounts ==
  ASSUME NEW pair \in KeyedOffsets, NEW s, NEW t, More(s, t, pair), NEW x
  PROVE  Occurrences(t, x) = Occurrences(s, x) + IF x = pair THEN 1 ELSE 0
<1>1. PICK u, v : Around(u, v, s, t, pair)
  BY DEF More
<1> DEFINE one == <<pair>>
           w == u \o one
           M == Len(u)
           N == Len(v)
<1>2. one \in Seq(KeyedOffsets) /\ Len(one) = 1 /\ one[1] = pair
  OBVIOUS
<1>3. u \in Seq(KeyedOffsets) /\ v \in Seq(KeyedOffsets) /\ M \in Nat /\ N \in Nat
  BY <1>1 DEF Around
<1>4. s = u \o v /\ t = w \o v
  BY <1>1 DEF Around
<1> HIDE DEF one
<1>5. /\ w \in Seq(KeyedOffsets) /\ Len(w) = M + Len(one)
      /\ \A i \in 1..(M + Len(one)) : w[i] = IF i <= M THEN u[i] ELSE one[i - M]
  BY <1>2, <1>3, ConcatProperties
<1> HIDE DEF w
<1>6. /\ s \in Seq(KeyedOffsets) /\ Len(s) = M + N
      /\ \A i \in 1..(M + N) : s[i] = IF i <= M THEN u[i] ELSE v[i - M]
  BY <1>3, <1>4, ConcatProperties
<1>7. /\ t \in Seq(KeyedOffsets) /\ Len(t) = Len(w) + N
      /\ \A i \in 1..(Len(w) + N) : t[i] = IF i <= Len(w) THEN w[i] ELSE v[i - Len(w)]
  <2>1. w \in Seq(KeyedOffsets) /\ v \in Seq(KeyedOffsets)
    BY <1>3, <1>5
  <2>2. /\ w \o v \in Seq(KeyedOffsets) /\ Len(w \o v) = Len(w) + Len(v)
        /\ \A i \in 1..(Len(w) + Len(v)) :
             (w \o v)[i] = IF i <= Len(w) THEN w[i] ELSE v[i - Len(w)]
    BY <2>1, ConcatProperties
  <2>3. t = w \o v
    BY <1>4
  <2> HIDE DEF N
  <2>4. N = Len(v)
    BY DEF N
  <2> QED
    BY <2>2, <2>3, <2>4, Zenon
<1>8. /\ Len(w) = M + 1 /\ DOMAIN t = 1..((M + 1) + N)
      /\ \A i \in 1..(M + 1) : w[i] = IF i <= M THEN u[i] ELSE one[i - M]
      /\ \A i \in 1..((M + 1) + N) : t[i] = IF i <= M + 1 THEN w[i] ELSE v[i - (M + 1)]
  <2>1. Len(w) = M + 1
    BY <1>2, <1>5
  <2>2. DOMAIN t = 1..Len(t)
    BY <1>7
  <2> QED
    BY <1>2, <1>5, <1>7, <2>1, <2>2, Zenon
<1>9. DOMAIN s = 1..(M + N)
  BY <1>6
<1> HIDE DEF M, N
<1> DEFINE up(i) == IF i <= M THEN i ELSE i + 1
           I == {i \in 1..(M + N) : s[i] = x}
           J == {i \in 1..((M + 1) + N) : t[i] = x /\ i # M + 1}
           g == [i \in I |-> up(i)]
<1>10. ASSUME NEW i \in 1..(M + N)
       PROVE  up(i) \in 1..((M + 1) + N) /\ up(i) # M + 1 /\ t[up(i)] = s[i]
  <2>1. CASE i <= M
    <3>1. i \in 1..(M + 1) /\ i \in 1..((M + 1) + N) /\ i <= M + 1 /\ i # M + 1
      BY <1>3, <2>1
    <3> QED
      BY <1>6, <1>8, <2>1, <3>1
  <2>2. CASE ~ (i <= M)
    <3>1. /\ i + 1 \in 1..((M + 1) + N) /\ ~ (i + 1 <= M + 1) /\ i + 1 # M + 1
          /\ (i + 1) - (M + 1) = i - M
      BY <1>3, <2>2
    <3> QED
      BY <1>6, <1>8, <2>2, <3>1
  <2> QED
    BY <2>1, <2>2
<1>11. ASSUME NEW j \in 1..((M + 1) + N), j # M + 1
       PROVE  \E i \in 1..(M + N) : up(i) = j
  <2>1. CASE j <= M
    <3>1. j \in 1..(M + N) /\ up(j) = j
      BY <1>3, <2>1
    <3> QED
      BY <3>1
  <2>2. CASE ~ (j <= M)
    <3>1. j - 1 \in 1..(M + N) /\ up(j - 1) = j
      BY <1>3, <1>11, <2>2
    <3> QED
      BY <3>1
  <2> QED
    BY <2>1, <2>2
<1>12. t[M + 1] = pair
  <2>1. /\ M + 1 \in 1..(M + 1) /\ M + 1 \in 1..((M + 1) + N) /\ M + 1 <= M + 1
        /\ ~ (M + 1 <= M) /\ (M + 1) - M = 1
    BY <1>3
  <2> QED
    BY <1>2, <1>8, <2>1
<1>13. \A i, j \in 1..(M + N) : up(i) = up(j) => i = j
  BY <1>3
<1> HIDE DEF up
<1>14. g \in Bijection(I, J)
  <2>1. g \in [I -> J]
    BY <1>10
  <2>2. IsInjective(g)
    BY <1>13 DEF IsInjective
  <2>3. \A j \in J : \E i \in I : g[i] = j
    <3> SUFFICES ASSUME NEW j \in J
                 PROVE  \E i \in I : g[i] = j
      OBVIOUS
    <3>1. PICK i \in 1..(M + N) : up(i) = j
      BY <1>11
    <3>2. i \in I
      BY <1>10, <3>1
    <3> QED
      BY <3>1, <3>2
  <2> HIDE DEF g, I, J
  <2> QED
    BY <2>1, <2>2, <2>3 DEF Bijection, Injection, Surjection
<1>15. IsFiniteSet(I) /\ Cardinality(I) = Occurrences(s, x)
  BY <1>6, <1>9, OccurrencesAre DEF Occurrences
<1> DEFINE K == {i \in 1..((M + 1) + N) : t[i] = x}
<1>16. Cardinality(K) = Occurrences(t, x)
  BY <1>8 DEF Occurrences
<1>17. K = IF x = pair THEN J \cup {M + 1} ELSE J
  <2>1. M + 1 \in 1..((M + 1) + N)
    BY <1>3
  <2> QED
    BY <1>12, <2>1
<1>18. M + 1 \notin J
  OBVIOUS
<1> HIDE DEF I, J, K, g
<1>19. ExistsBijection(I, J)
  BY <1>14 DEF ExistsBijection
<1>20. IsFiniteSet(J) /\ Cardinality(J) = Occurrences(s, x)
  BY <1>15, <1>19, FS_Bijection
<1>21. Cardinality(J \cup {M + 1}) = Cardinality(J) + 1
  BY <1>18, <1>20, FS_AddElement
<1>22. Occurrences(s, x) \in Nat
  BY <1>6, OccurrencesAre
<1> QED
  BY <1>16, <1>17, <1>20, <1>21, <1>22

\* It is the bag with the pair added, and the other the bag with it removed.
LEMMA MoreInBag ==
  ASSUME NEW pair \in KeyedOffsets, NEW s, NEW t, More(s, t, pair)
  PROVE  /\ CountOfEach(t) = Bag!BagAdd(CountOfEach(s), pair)
         /\ CountOfEach(s) = Bag!BagRemove(CountOfEach(t), pair)
<1>1. /\ s \in Seq(KeyedOffsets) /\ t \in Seq(KeyedOffsets)
      /\ ToSet(t) = ToSet(s) \cup {pair}
  BY MoreHas
<1>2. \A x : Occurrences(t, x) = Occurrences(s, x) + IF x = pair THEN 1 ELSE 0
  BY MoreCounts
<1>3. \A x : Occurrences(s, x) \in Nat /\ (Occurrences(s, x) = 0 <=> x \notin ToSet(s))
  BY <1>1, OccurrencesAre
<1> DEFINE a == CountOfEach(s)
           b == CountOfEach(t)
<1>4. /\ DOMAIN a = ToSet(s) /\ DOMAIN b = ToSet(s) \cup {pair}
      /\ \A x \in ToSet(s) : a[x] = Occurrences(s, x)
      /\ \A x \in ToSet(s) \cup {pair} : b[x] = Occurrences(t, x)
      /\ a = [x \in DOMAIN a |-> a[x]] /\ b = [x \in DOMAIN b |-> b[x]]
  BY <1>1 DEF CountOfEach
<1> HIDE DEF a, b
<1>5. CASE pair \in ToSet(s)
  <2>1. DOMAIN b = DOMAIN a
    BY <1>4, <1>5
  <2>2. \A x \in DOMAIN a : b[x] = IF x = pair THEN a[x] + 1 ELSE a[x]
    BY <1>2, <1>3, <1>4, <1>5
  <2>3. \A x \in DOMAIN b : a[x] = IF x = pair THEN b[x] - 1 ELSE b[x]
    BY <1>2, <1>3, <1>4, <1>5
  <2>4. b[pair] # 1
    BY <1>2, <1>3, <1>4, <1>5
  <2>5. b = [e \in DOMAIN a |-> IF e = pair THEN a[e] + 1 ELSE a[e]]
    BY <1>4, <2>1, <2>2
  <2>6. a = [e \in DOMAIN b |-> IF e = pair THEN b[e] - 1 ELSE b[e]]
    BY <1>4, <2>1, <2>3
  <2>7. pair \in DOMAIN a /\ pair \in DOMAIN b
    BY <1>4, <1>5
  <2> QED
    BY <2>4, <2>5, <2>6, <2>7 DEF Bag!BagAdd, Bag!BagRemove, a, b
<1>6. CASE pair \notin ToSet(s)
  <2>1. DOMAIN b = DOMAIN a \cup {pair} /\ DOMAIN b \ {pair} = DOMAIN a
    BY <1>4, <1>6
  <2>2. \A x \in DOMAIN b : b[x] = IF x = pair THEN 1 ELSE a[x]
    BY <1>2, <1>3, <1>4, <1>6
  <2>3. \A x \in DOMAIN a : a[x] = b[x]
    BY <1>2, <1>3, <1>4, <1>6
  <2>4. b[pair] = 1 /\ pair \in DOMAIN b /\ pair \notin DOMAIN a
    BY <1>4, <1>6, <2>2
  <2>5. b = [e \in DOMAIN a \cup {pair} |-> IF e = pair THEN 1 ELSE a[e]]
    BY <1>4, <2>1, <2>2
  <2>6. a = [e \in DOMAIN b \ {pair} |-> b[e]]
    BY <1>4, <2>1, <2>3
  <2> QED
    BY <2>4, <2>5, <2>6 DEF Bag!BagAdd, Bag!BagRemove, a, b
<1> QED
  BY <1>5, <1>6

\* What the specification of the bag counts is the number of the keys.
LEMMA KeysInBag ==
  ASSUME NEW p \in PlainSound
  PROVE  Bag!Count(CountOfEach(AvlCollect(p.root))) = p.size
<1> DEFINE b == CountOfEach(AvlCollect(p.root))
<1>1. DOMAIN b = Filed(p.root)
  BY PlainSoundHas DEF CountOfEach
<1>2. {e[1] : e \in DOMAIN b} = KeysOf(p.root)
  BY <1>1 DEF KeysOf
<1>3. \A S : Bag!Cardinality(S) = Cardinality(S)
  BY DEF Cardinality, Bag!Cardinality
<1>4. p.size = Cardinality(KeysOf(p.root))
  BY DEF PlainSound
<1> HIDE DEF b
<1>5. Bag!Count(b) = Cardinality({e[1] : e \in DOMAIN b})
  BY DEF Bag!Count, Bag!Cardinality, Cardinality
<1>6. Bag!Count(b) = p.size
  BY <1>2, <1>3, <1>4, <1>5, Zenon
<1> QED
  BY <1>6 DEF b

\* The inductive invariant of the plain tree.
PlainInv == bst \in PlainSound

\* What a step does to the plain tree.
LEMMA PlainSteps ==
  ASSUME PlainInv, [NextTree]_treeVars
  PROVE  /\ PlainInv'
         /\ \/ \E pair \in Pairs : More(AvlCollect(bst.root), AvlCollect(bst'.root), pair)
            \/ \E pair \in Pairs : More(AvlCollect(bst'.root), AvlCollect(bst.root), pair)
            \/ AvlCollect(bst'.root) = AvlCollect(bst.root)
<1>1. /\ bst \in PlainSound /\ AvlCollect(bst.root) \in Seq(KeyedOffsets)
      /\ ByKey(AvlCollect(bst.root))
  BY PlainSoundHas DEF PlainInv
<1>2. ASSUME NEW pair \in PlainPairs
      PROVE  pair \in Pairs /\ pair \in KeyedOffsets
  BY PairsAssumption DEF KeyedOffsets
<1>3. ASSUME NEW pair \in PlainPairs, PlainInsert(pair)
      PROVE  bst' \in PlainSound /\ More(AvlCollect(bst.root), AvlCollect(bst'.root), pair)
  <2>1. bst' = BstInsert(bst, pair[1], pair[2])
    BY <1>3 DEF PlainInsert
  <2>2. bst' \in PlainSound /\ MoreAt(AvlCollect(bst.root), AvlCollect(bst'.root), pair)
    BY <1>1, <1>2, <2>1, PlainGrows
  <2> QED
    BY <2>2, MoreAtIsMore
<1>4. ASSUME NEW pair \in PlainPairs, PlainRemove(pair)
      PROVE  /\ bst' \in PlainSound
             /\ \/ More(AvlCollect(bst'.root), AvlCollect(bst.root), pair)
                \/ AvlCollect(bst'.root) = AvlCollect(bst.root)
  <2>1. bst' = BstRemove(bst, pair[1], pair[2])
    BY <1>4 DEF PlainRemove
  <2> QED
    BY <1>1, <1>2, <2>1, PlainShrinks
<1>5. CASE PlainReload
  <2>1. bst' = BstLoad(AvlCollect(bst.root))
    BY <1>5 DEF PlainReload, BstCollect
  <2>2. bst' \in PlainSound /\ AvlCollect(bst'.root) = AvlCollect(bst.root)
    BY <1>1, <2>1, PlainLoadKeeps
  <2> QED
    BY <2>2 DEF PlainInv
<1>6. CASE bst' = bst
  BY <1>1, <1>6 DEF PlainInv
<1>7. \/ \E pair \in PlainPairs : PlainInsert(pair) \/ PlainRemove(pair)
      \/ PlainReload
      \/ bst' = bst
  BY DEF NextTree, treeVars, InsertPair, DeletePair, ReloadTree
<1> QED
  BY <1>2, <1>3, <1>4, <1>5, <1>6, <1>7 DEF PlainInv

LEMMA PlainBegins == InitTree => PlainInv
<1>1. InitTree => bst.root = Nil /\ bst.size = 0 /\ bst \in Planted
  BY AllTreesAre DEF InitTree, EmptyTree, Planted
<1>2. KeysOf(Nil) = {} /\ Sorted(Nil)
  BY OfNil DEF KeysOf
<1>3. Cardinality({}) = 0
  BY FS_EmptySet
<1> QED
  BY <1>1, <1>2, <1>3 DEF PlainInv, PlainSound

LEMMA PlainInvHolds == TreeSpec => []PlainInv
<1>1. PlainInv /\ [NextTree]_treeVars => PlainInv'
  BY PlainSteps
<1> QED
  BY <1>1, PlainBegins, PTL DEF TreeSpec

\* The plain tree holds each pair as often as it was inserted and not deleted, and
\* its counter the number of its keys, whatever the recursion of Insert and Remove
\* did to it on the way, through every reload.
THEOREM PlainTreeIsBag ==
  TreeSpec => IsBag
<1> DEFINE c == AvlCollect(bst.root)
<1>1. Copies = CountOfEach(c)
  BY DEF Copies, BstCollect, CountOfEach, Occurrences
<1>2. InitTree => Bag!Init
  <2> SUFFICES ASSUME InitTree
               PROVE  Bag!Init
    OBVIOUS
  <2>1. bst.root = Nil /\ bst.size = 0
    BY DEF InitTree, EmptyTree
  <2>2. c = <<>>
    BY <2>1, CollectIs
  <2>3. ToSet(<<>>) = {}
    BY DEF ToSet
  <2>4. Copies = [x \in {} |-> Occurrences(<<>>, x)]
    BY <1>1, <2>2, <2>3 DEF CountOfEach
  <2>5. [x \in {} |-> Occurrences(<<>>, x)] = [x \in {} |-> 0]
    OBVIOUS
  <2> QED
    BY <2>1, <2>4, <2>5, Zenon DEF Bag!Init
<1>3. PlainInv /\ PlainInv' /\ [NextTree]_treeVars => [Bag!Next]_<<Copies, bst.size>>
  <2> SUFFICES ASSUME PlainInv, PlainInv', [NextTree]_treeVars
               PROVE  [Bag!Next]_<<Copies, bst.size>>
    OBVIOUS
  <2> HIDE DEF c
  <2>1. bst \in PlainSound /\ bst' \in PlainSound
    BY DEF PlainInv
  <2>2. Bag!Count(CountOfEach(c')) = bst'.size /\ Bag!Count(CountOfEach(c)) = bst.size
    BY <2>1, KeysInBag DEF c
  <2>3. Copies = CountOfEach(c) /\ Copies' = CountOfEach(c')
    BY <1>1 DEF c, Copies, BstCollect, CountOfEach, Occurrences
  <2>4. ASSUME NEW pair \in Pairs, pair \in KeyedOffsets, More(c, c', pair)
        PROVE  Bag!Next
    <3>1. CountOfEach(c') = Bag!BagAdd(CountOfEach(c), pair)
      BY <2>4, MoreInBag
    <3>2. Bag!Insert(pair)
      BY <2>2, <2>3, <3>1, Zenon DEF Bag!Insert
    <3> QED
      BY <3>2 DEF Bag!Next
  <2>5. ASSUME NEW pair \in Pairs, pair \in KeyedOffsets, More(c', c, pair)
        PROVE  Bag!Next
    <3>1. CountOfEach(c') = Bag!BagRemove(CountOfEach(c), pair)
      BY <2>5, MoreInBag
    <3>2. Bag!Remove(pair)
      BY <2>2, <2>3, <3>1, Zenon DEF Bag!Remove
    <3> QED
      BY <3>2 DEF Bag!Next
  <2>6. CASE c' = c
    BY <2>2, <2>3, <2>6, Zenon
  <2>7. \A pair \in Pairs : pair \in KeyedOffsets
    BY PairsAssumption DEF KeyedOffsets
  <2>8. \/ \E pair \in Pairs : More(c, c', pair)
        \/ \E pair \in Pairs : More(c', c, pair)
        \/ c' = c
    BY PlainSteps DEF c
  <2> QED
    BY <2>4, <2>5, <2>6, <2>7, <2>8
<1> QED
  BY <1>2, <1>3, PlainInvHolds, PTL DEF TreeSpec, IsBag, Bag!Spec

------------------------------------------------------------------------------
(* What the balanced tree lists *)

LEMMA ListOfNode ==
  ASSUME NEW n \in AllTrees, n # Nil, Search(n)
  PROVE  LET b == Block(n.key, n.offsets)
             C(t) == AvlCollect(t)
         IN  /\ C(n) = (C(n.left) \o b) \o C(n.right)
             /\ Search(n.left) /\ Search(n.right) /\ Fits(n.key, n.offsets, n.left, n.right)
             /\ C(n.left) \in Seq(KeyedOffsets) /\ ToSet(C(n.left)) = Filed(n.left)
             /\ C(n.right) \in Seq(KeyedOffsets) /\ ToSet(C(n.right)) = Filed(n.right)
             /\ b \in Seq(KeyedOffsets) /\ ToSet(b) = FiledAt(n.key, n.offsets)
<1> DEFINE b == Block(n.key, n.offsets)
           C(t) == AvlCollect(t)
<1>1. /\ n \in Nodes(AllTrees) /\ n.left \in AllTrees /\ n.right \in AllTrees
      /\ n.key \in Keys /\ n.offsets \in Seq(Offsets)
  BY Parts
<1>2. Search(n.left) /\ Search(n.right) /\ Fits(n.key, n.offsets, n.left, n.right)
  BY <1>1, OfNode
<1>3. C(n) = (C(n.left) \o b) \o C(n.right)
  BY SearchTreesAreTrees, CollectIs
<1>4. /\ C(n.left) \in Seq(KeyedOffsets) /\ ToSet(C(n.left)) = Filed(n.left)
      /\ C(n.right) \in Seq(KeyedOffsets) /\ ToSet(C(n.right)) = Filed(n.right)
  BY <1>1, <1>2, CollectLists DEF Lists
<1>5. b \in Seq(KeyedOffsets) /\ ToSet(b) = FiledAt(n.key, n.offsets)
  BY <1>1, BlockIs
<1> QED
  BY <1>2, <1>3, <1>4, <1>5

LEMMA ListOfMade ==
  ASSUME NEW key \in Keys, NEW offsets \in Seq(Offsets),
         NEW left \in AllTrees, NEW right \in AllTrees, Search(Made(key, offsets, left, right))
  PROVE  /\ AvlCollect(Made(key, offsets, left, right)) =
              (AvlCollect(left) \o Block(key, offsets)) \o AvlCollect(right)
         /\ Search(left) /\ Search(right)
         /\ AvlCollect(left) \in Seq(KeyedOffsets) /\ AvlCollect(right) \in Seq(KeyedOffsets)
         /\ Block(key, offsets) \in Seq(KeyedOffsets)
<1> DEFINE m == Made(key, offsets, left, right)
<1>1. /\ m \in AllTrees /\ m # Nil /\ m.key = key /\ m.offsets = offsets
      /\ m.left = left /\ m.right = right
  BY MadeIs
<1> HIDE DEF m
<1>2. Search(m)
  BY DEF m
<1>3. /\ AvlCollect(m) = (AvlCollect(m.left) \o Block(m.key, m.offsets)) \o AvlCollect(m.right)
      /\ Search(m.left) /\ Search(m.right)
      /\ AvlCollect(m.left) \in Seq(KeyedOffsets) /\ AvlCollect(m.right) \in Seq(KeyedOffsets)
      /\ Block(m.key, m.offsets) \in Seq(KeyedOffsets)
  BY <1>1, <1>2, ListOfNode, Zenon
<1> QED
  BY <1>1, <1>3, Zenon DEF m

\* The sequences of a rotation, and of a double one.
TurnedOnce(p, y, c, z) == ((p \o y) \o c) \o z = p \o ((y \o c) \o z)

TurnedTwice(p, x, b, y, c, z) ==
  /\ ((p \o ((x \o b) \o y)) \o c) \o z = ((p \o x) \o b) \o ((y \o c) \o z)
  /\ p \o ((((x \o b) \o y) \o c) \o z) = ((p \o x) \o b) \o ((y \o c) \o z)

LEMMA Turned ==
  ASSUME NEW p \in Seq(KeyedOffsets), NEW x \in Seq(KeyedOffsets), NEW b \in Seq(KeyedOffsets),
         NEW y \in Seq(KeyedOffsets), NEW c \in Seq(KeyedOffsets), NEW z \in Seq(KeyedOffsets)
  PROVE  TurnedOnce(p, y, c, z) /\ TurnedTwice(p, x, b, y, c, z)
<1> DEFINE S == Seq(KeyedOffsets)
           J(s, t) == s \o t
<1>1. \A s, t \in S : J(s, t) \in S
  BY ConcatProperties
<1>2. ASSUME NEW s \in S, NEW t \in S, NEW u \in S
      PROVE  J(J(s, t), u) = J(s, J(t, u))
  <2>1. s \in Seq(KeyedOffsets) /\ t \in Seq(KeyedOffsets) /\ u \in Seq(KeyedOffsets)
    OBVIOUS
  <2>2. \A q \in Seq(KeyedOffsets) : \A r \in Seq(KeyedOffsets) : (s \o q) \o r = s \o (q \o r)
    BY <2>1, ThreeInARow, Zenon
  <2>3. \A r \in Seq(KeyedOffsets) : (s \o t) \o r = s \o (t \o r)
    BY <2>1, <2>2, Zenon
  <2> QED
    BY <2>1, <2>3, Zenon
<1>3. p \in S /\ x \in S /\ b \in S /\ y \in S /\ c \in S /\ z \in S
  OBVIOUS
<1> HIDE DEF S, J
<1>4. J(J(J(p, y), c), z) = J(p, J(J(y, c), z))
  BY <1>1, <1>2, <1>3
<1>5. J(J(J(p, J(J(x, b), y)), c), z) = J(J(J(p, x), b), J(J(y, c), z))
  <2>1. J(p, J(J(x, b), y)) = J(J(J(p, x), b), y)
    BY <1>1, <1>2, <1>3
  <2>2. \A q \in S : J(J(J(q, y), c), z) = J(q, J(J(y, c), z))
    BY <1>1, <1>2, <1>3
  <2> QED
    BY <1>1, <1>3, <2>1, <2>2
<1>6. J(p, J(J(J(J(x, b), y), c), z)) = J(J(J(p, x), b), J(J(y, c), z))
  BY <1>1, <1>2, <1>3, SMTT(30)
<1> QED
  BY <1>4, <1>5, <1>6, Zenon DEF J, TurnedOnce, TurnedTwice

\* A rotation lists the same pairs in the same order.
LEMMA RebalanceLists ==
  ASSUME NEW n \in Nodes(AllTrees), Search(n.left), Search(n.right),
         Fits(n.key, n.offsets, n.left, n.right)
  PROVE  AvlCollect(Rebalance(n)) =
           (AvlCollect(n.left) \o Block(n.key, n.offsets)) \o AvlCollect(n.right)
<1> DEFINE l == n.left
           r == n.right
           k == n.key
           o == n.offsets
           C(t) == AvlCollect(t)
           all == (C(l) \o Block(k, o)) \o C(r)
<1>1. k \in Keys /\ o \in Seq(Offsets) /\ l \in AllTrees /\ r \in AllTrees
  BY NodeIs
<1>2. /\ C(l) \in Seq(KeyedOffsets) /\ C(r) \in Seq(KeyedOffsets)
      /\ Block(k, o) \in Seq(KeyedOffsets)
  BY <1>1, CollectLists, BlockIs DEF Lists
<1>3. ASSUME NEW t \in AllTrees, t # Nil, Search(t)
      PROVE  /\ t.key \in Keys /\ t.offsets \in Seq(Offsets)
             /\ t.left \in AllTrees /\ t.right \in AllTrees
             /\ C(t) = (C(t.left) \o Block(t.key, t.offsets)) \o C(t.right)
             /\ Search(t.left) /\ Search(t.right)
             /\ C(t.left) \in Seq(KeyedOffsets) /\ C(t.right) \in Seq(KeyedOffsets)
             /\ Block(t.key, t.offsets) \in Seq(KeyedOffsets)
  BY <1>3, Parts, ListOfNode
<1>4. CASE l # Nil /\ Rebalance(n) = RotatedRight(n)
  <2> DEFINE u == Made(k, o, l.right, r)
             R == Made(l.key, l.offsets, l.left, u)
  <2>1. RotatedRight(n) = R /\ Search(R)
    BY <1>4, RightKeeps DEF RotatedRight
  <2>2. u \in AllTrees
    BY <1>1, <1>3, <1>4, MadeIs
  <2> HIDE DEF C
  <2>3. C(l) = (C(l.left) \o Block(l.key, l.offsets)) \o C(l.right)
    BY <1>1, <1>3, <1>4
  <2>4. /\ C(l.left) \in Seq(KeyedOffsets) /\ C(l.right) \in Seq(KeyedOffsets)
        /\ Block(l.key, l.offsets) \in Seq(KeyedOffsets)
        /\ l.key \in Keys /\ l.offsets \in Seq(Offsets) /\ l.left \in AllTrees /\ l.right \in AllTrees
    BY <1>1, <1>3, <1>4
  <2> HIDE DEF u
  <2>5. C(R) = (C(l.left) \o Block(l.key, l.offsets)) \o C(u) /\ Search(u)
    BY <2>1, <2>2, <2>4, ListOfMade DEF C
  <2>6. C(u) = (C(l.right) \o Block(k, o)) \o C(r)
    BY <1>1, <2>4, <2>5, ListOfMade DEF C, u
  <2> DEFINE p == C(l.left) \o Block(l.key, l.offsets)
             y == C(l.right)
             c == Block(k, o)
             z == C(r)
  <2>7. p \in Seq(KeyedOffsets)
    BY <2>4, ConcatProperties
  <2>8. y \in Seq(KeyedOffsets) /\ c \in Seq(KeyedOffsets) /\ z \in Seq(KeyedOffsets)
    BY <1>2, <2>4 DEF C
  <2>9. all = ((p \o y) \o c) \o z
    BY <2>3, Zenon
  <2>10. C(R) = p \o ((y \o c) \o z)
    BY <2>5, <2>6, Zenon
  <2> HIDE DEF p, y, c, z
  <2>11. TurnedOnce(p, y, c, z)
    BY <2>7, <2>8, Turned
  <2> QED
    BY <1>4, <2>1, <2>9, <2>10, <2>11, Zenon DEF C, TurnedOnce
<1>5. CASE r # Nil /\ Rebalance(n) = RotatedLeft(n)
  <2> DEFINE u == Made(k, o, l, r.left)
             R == Made(r.key, r.offsets, u, r.right)
  <2>1. RotatedLeft(n) = R /\ Search(R)
    BY <1>5, LeftKeeps DEF RotatedLeft
  <2>2. u \in AllTrees
    BY <1>1, <1>3, <1>5, MadeIs
  <2> HIDE DEF C
  <2>3. C(r) = (C(r.left) \o Block(r.key, r.offsets)) \o C(r.right)
    BY <1>1, <1>3, <1>5
  <2>4. /\ C(r.left) \in Seq(KeyedOffsets) /\ C(r.right) \in Seq(KeyedOffsets)
        /\ Block(r.key, r.offsets) \in Seq(KeyedOffsets)
        /\ r.key \in Keys /\ r.offsets \in Seq(Offsets) /\ r.left \in AllTrees /\ r.right \in AllTrees
    BY <1>1, <1>3, <1>5
  <2> HIDE DEF u
  <2>5. C(R) = (C(u) \o Block(r.key, r.offsets)) \o C(r.right) /\ Search(u)
    BY <2>1, <2>2, <2>4, ListOfMade DEF C
  <2>6. C(u) = (C(l) \o Block(k, o)) \o C(r.left)
    BY <1>1, <2>4, <2>5, ListOfMade, SMTT(30) DEF C, u
  <2> DEFINE p == C(l) \o Block(k, o)
             y == C(r.left)
             c == Block(r.key, r.offsets)
             z == C(r.right)
  <2>7. p \in Seq(KeyedOffsets)
    BY <1>2, ConcatProperties DEF C
  <2>8. y \in Seq(KeyedOffsets) /\ c \in Seq(KeyedOffsets) /\ z \in Seq(KeyedOffsets)
    BY <2>4
  <2>9. all = p \o ((y \o c) \o z)
    BY <2>3, Zenon
  <2>10. C(R) = ((p \o y) \o c) \o z
    BY <2>5, <2>6, Zenon
  <2> HIDE DEF p, y, c, z
  <2>11. TurnedOnce(p, y, c, z)
    BY <2>7, <2>8, Turned
  <2> QED
    BY <1>5, <2>1, <2>9, <2>10, <2>11, Zenon DEF C, TurnedOnce
<1>6. CASE l # Nil /\ l.right # Nil /\ Rebalance(n) = RotatedLeftRight(n)
  <2> DEFINE s == l.right
             u == Made(l.key, l.offsets, l.left, s.left)
             v == Made(k, o, s.right, r)
             R == Made(s.key, s.offsets, u, v)
  <2>1. RotatedLeftRight(n) = R /\ Search(R)
    BY <1>6, DoubleKeeps DEF RotatedLeftRight
  <2> HIDE DEF C
  <2>2. /\ C(l) = (C(l.left) \o Block(l.key, l.offsets)) \o C(s) /\ Search(s) /\ s \in AllTrees
        /\ C(l.left) \in Seq(KeyedOffsets) /\ Block(l.key, l.offsets) \in Seq(KeyedOffsets)
        /\ l.key \in Keys /\ l.offsets \in Seq(Offsets) /\ l.left \in AllTrees
    BY <1>1, <1>3, <1>6
  <2>3. /\ C(s) = (C(s.left) \o Block(s.key, s.offsets)) \o C(s.right)
        /\ C(s.left) \in Seq(KeyedOffsets) /\ C(s.right) \in Seq(KeyedOffsets)
        /\ Block(s.key, s.offsets) \in Seq(KeyedOffsets)
        /\ s.key \in Keys /\ s.offsets \in Seq(Offsets) /\ s.left \in AllTrees /\ s.right \in AllTrees
    BY <1>3, <1>6, <2>2
  <2> HIDE DEF s
  <2>4. u \in AllTrees /\ v \in AllTrees
    BY <1>1, <2>2, <2>3, MadeIs
  <2> HIDE DEF u, v
  <2>5. C(R) = (C(u) \o Block(s.key, s.offsets)) \o C(v) /\ Search(u) /\ Search(v)
    BY <2>1, <2>3, <2>4, ListOfMade DEF C
  <2>6. C(u) = (C(l.left) \o Block(l.key, l.offsets)) \o C(s.left)
    BY <2>2, <2>3, <2>5, ListOfMade DEF C, u
  <2>7. C(v) = (C(s.right) \o Block(k, o)) \o C(r)
    BY <1>1, <2>3, <2>5, ListOfMade DEF C, v
  <2> DEFINE p == C(l.left) \o Block(l.key, l.offsets)
             x == C(s.left)
             b == Block(s.key, s.offsets)
             y == C(s.right)
             c == Block(k, o)
             z == C(r)
  <2>8. p \in Seq(KeyedOffsets)
    BY <2>2, ConcatProperties
  <2>9. /\ x \in Seq(KeyedOffsets) /\ b \in Seq(KeyedOffsets) /\ y \in Seq(KeyedOffsets)
        /\ c \in Seq(KeyedOffsets) /\ z \in Seq(KeyedOffsets)
    BY <1>2, <2>3 DEF C
  <2>10. all = ((p \o ((x \o b) \o y)) \o c) \o z
    BY <2>2, <2>3, Zenon
  <2>11. C(R) = ((p \o x) \o b) \o ((y \o c) \o z)
    BY <2>5, <2>6, <2>7, Zenon
  <2> HIDE DEF p, x, b, y, c, z
  <2>12. TurnedTwice(p, x, b, y, c, z)
    BY <2>8, <2>9, Turned
  <2> QED
    BY <1>6, <2>1, <2>10, <2>11, <2>12, Zenon DEF C, TurnedTwice
<1>7. CASE r # Nil /\ r.left # Nil /\ Rebalance(n) = RotatedRightLeft(n)
  <2> DEFINE s == r.left
             u == Made(k, o, l, s.left)
             v == Made(r.key, r.offsets, s.right, r.right)
             R == Made(s.key, s.offsets, u, v)
  <2>1. RotatedRightLeft(n) = R /\ Search(R)
    BY <1>7, DoubleKeeps DEF RotatedRightLeft
  <2> HIDE DEF C
  <2>2. /\ C(r) = (C(s) \o Block(r.key, r.offsets)) \o C(r.right) /\ Search(s) /\ s \in AllTrees
        /\ C(r.right) \in Seq(KeyedOffsets) /\ Block(r.key, r.offsets) \in Seq(KeyedOffsets)
        /\ r.key \in Keys /\ r.offsets \in Seq(Offsets) /\ r.right \in AllTrees
    BY <1>1, <1>3, <1>7
  <2>3. /\ C(s) = (C(s.left) \o Block(s.key, s.offsets)) \o C(s.right)
        /\ C(s.left) \in Seq(KeyedOffsets) /\ C(s.right) \in Seq(KeyedOffsets)
        /\ Block(s.key, s.offsets) \in Seq(KeyedOffsets)
        /\ s.key \in Keys /\ s.offsets \in Seq(Offsets) /\ s.left \in AllTrees /\ s.right \in AllTrees
    BY <1>3, <1>7, <2>2
  <2> HIDE DEF s
  <2>4. u \in AllTrees /\ v \in AllTrees
    BY <1>1, <2>2, <2>3, MadeIs
  <2> HIDE DEF u, v
  <2>5. C(R) = (C(u) \o Block(s.key, s.offsets)) \o C(v) /\ Search(u) /\ Search(v)
    BY <2>1, <2>3, <2>4, ListOfMade DEF C
  <2>6. C(u) = (C(l) \o Block(k, o)) \o C(s.left)
    BY <1>1, <2>3, <2>5, ListOfMade DEF C, u
  <2>7. C(v) = (C(s.right) \o Block(r.key, r.offsets)) \o C(r.right)
    BY <2>2, <2>3, <2>5, ListOfMade DEF C, v
  <2> DEFINE p == C(l) \o Block(k, o)
             x == C(s.left)
             b == Block(s.key, s.offsets)
             y == C(s.right)
             c == Block(r.key, r.offsets)
             z == C(r.right)
  <2>8. p \in Seq(KeyedOffsets)
    BY <1>2, ConcatProperties DEF C
  <2>9. /\ x \in Seq(KeyedOffsets) /\ b \in Seq(KeyedOffsets) /\ y \in Seq(KeyedOffsets)
        /\ c \in Seq(KeyedOffsets) /\ z \in Seq(KeyedOffsets)
    BY <2>2, <2>3
  <2>10. all = p \o ((((x \o b) \o y) \o c) \o z)
    BY <2>2, <2>3, Zenon
  <2>11. C(R) = ((p \o x) \o b) \o ((y \o c) \o z)
    BY <2>5, <2>6, <2>7, Zenon
  <2> HIDE DEF p, x, b, y, c, z
  <2>12. TurnedTwice(p, x, b, y, c, z)
    BY <2>8, <2>9, Turned
  <2> QED
    BY <1>7, <2>1, <2>10, <2>11, <2>12, Zenon DEF C, TurnedTwice
<1>8. CASE Rebalance(n) = Made(k, o, l, r)
  <2>1. Search(Made(k, o, l, r))
    BY <1>1, MadeIs
  <2> QED
    BY <1>1, <1>8, <2>1, ListOfMade
<1> QED
  BY <1>4, <1>5, <1>6, <1>7, <1>8, RebalanceIs

\* A pair in a tree that holds nothing else.
LEMMA MoreThanNone ==
  ASSUME NEW pair \in KeyedOffsets
  PROVE  MoreAt(<<>>, <<pair>>, pair)
<1> DEFINE none == <<>>
           one == <<pair>>
<1>1. none \in Seq(KeyedOffsets) /\ ToSet(none) = {} /\ none = none \o none
  BY DEF ToSet
<1>2. one = (none \o one) \o none
  OBVIOUS
<1> HIDE DEF none, one
<1>3. Around(none, none, none, one, pair)
  BY <1>1, <1>2, Zenon DEF Around, one
<1>4. MoreAt(none, one, pair)
  BY <1>1, <1>3 DEF MoreAt
<1> QED
  BY <1>4 DEF none, one

\* A pair that is not filed is listed behind those with its key.
LEMMA InsertLists ==
  ASSUME NEW key \in Keys, NEW offset \in Offsets, NEW tree \in AllTrees,
         Search(tree), AllTight(tree), <<key, offset>> \notin Filed(tree)
  PROVE  MoreAt(AvlCollect(tree), AvlCollect(AvlInsert(tree, key, offset)), <<key, offset>>)
<1> DEFINE I(t) == AvlInsert(t, key, offset)
           C(t) == AvlCollect(t)
           pair == <<key, offset>>
           G(t) == MoreAt(C(t), C(I(t)), pair)
           P == {t \in AllTrees : Search(t) /\ AllTight(t) /\ pair \notin Filed(t) => G(t)}
<1>1. pair \in KeyedOffsets /\ pair[1] = key /\ key \in Int
  BY KeysAssumption DEF KeyedOffsets
<1>2. ASSUME NEW t \in AllTrees, Search(t), AllTight(t)
      PROVE  Inserts(t, I(t), pair)
  BY <1>2, InsertKeeps
<1>3. Nil \in P
  <2> DEFINE one == <<offset>>
             leaf == Made(key, one, Nil, Nil)
  <2>1. I(Nil) = leaf
    BY InTrees, InsertIs DEF Made, Highest, Nil
  <2>2. one \in Seq(Offsets) /\ Nil \in AllTrees
    BY AllTreesAre
  <2>3. Block(key, one) = <<pair>>
    BY BlockOfOne
  <2> HIDE DEF one
  <2>4. Search(leaf)
    BY <1>2, <2>1, <2>2, OfNil DEF Inserts
  <2>5. C(leaf) = (C(Nil) \o Block(key, one)) \o C(Nil)
    BY <2>2, <2>4, ListOfMade
  <2>6. C(Nil) = <<>>
    BY CollectIs
  <2> HIDE DEF leaf, C, pair
  <2>7. C(leaf) = (<<>> \o <<pair>>) \o <<>>
    BY <2>3, <2>5, <2>6, Zenon
  <2>8. C(leaf) = <<pair>>
    <3>1. (<<>> \o <<pair>>) \o <<>> = <<pair>>
      OBVIOUS
    <3> QED
      BY <2>7, <3>1, Zenon
  <2>9. MoreAt(C(Nil), C(leaf), pair)
    BY <1>1, <2>6, <2>8, MoreThanNone
  <2> QED
    BY <2>1, <2>2, <2>9 DEF C
<1>4. ASSUME NEW n \in AllTrees, n # Nil, n.left \in P, n.right \in P, Search(n), AllTight(n),
             pair \notin Filed(n)
      PROVE  G(n)
  <2> DEFINE l == n.left
             r == n.right
             b == Block(n.key, n.offsets)
  <2>1. /\ n \in Nodes(AllTrees) /\ n.key \in Keys /\ n.offsets \in Seq(Offsets)
        /\ l \in AllTrees /\ r \in AllTrees /\ n.key \in Int
    BY <1>4, Parts, KeysAssumption
  <2>2. /\ Search(l) /\ Search(r) /\ AllTight(l) /\ AllTight(r) /\ Fits(n.key, n.offsets, l, r)
        /\ Filed(n) = Filed(l) \cup FiledAt(n.key, n.offsets) \cup Filed(r)
    BY <1>4, <2>1, OfNode
  <2>3. /\ C(n) = (C(l) \o b) \o C(r)
        /\ C(l) \in Seq(KeyedOffsets) /\ ToSet(C(l)) = Filed(l)
        /\ C(r) \in Seq(KeyedOffsets) /\ ToSet(C(r)) = Filed(r)
        /\ b \in Seq(KeyedOffsets) /\ ToSet(b) = FiledAt(n.key, n.offsets)
    BY <1>4, ListOfNode
  <2>4. /\ \A e \in Filed(l) : e[1] < n.key /\ e[1] \in Int
        /\ \A e \in Filed(r) : e[1] > n.key /\ e[1] \in Int
        /\ \A e \in FiledAt(n.key, n.offsets) : e[1] = n.key
    BY <2>1, <2>2, FiledKeys, KeysAssumption DEF Fits
  <2>5. n \in Trees
    BY <1>4, SearchTreesAreTrees
  <2>6. I(n) = IF key < n.key THEN Rebalance([n EXCEPT !.left = I(l)])
               ELSE IF key > n.key THEN Rebalance([n EXCEPT !.right = I(r)])
               ELSE IF offset \in ToSet(n.offsets) THEN n
               ELSE [n EXCEPT !.offsets = Append(n.offsets, offset)]
    BY <1>4, <2>5, InsertIs
  <2>7. G(l) /\ G(r)
    BY <1>4, <2>2
  <2>8. Inserts(l, I(l), pair) /\ Inserts(r, I(r), pair)
    BY <1>2, <2>1, <2>2
  <2> HIDE DEF I, C, P, l, r, b
  <2>9. CASE key < n.key
    <3> DEFINE u == I(l)
               m == [n EXCEPT !.left = u]
    <3>1. u \in AllTrees /\ Search(u) /\ Filed(u) = Filed(l) \cup {pair}
      BY <2>8 DEF Inserts
    <3>2. I(n) = Rebalance(m)
      BY <2>6, <2>9
    <3> HIDE DEF u
    <3>3. /\ m \in Nodes(AllTrees) /\ m.key = n.key /\ m.offsets = n.offsets
          /\ m.left = u /\ m.right = r
      BY <2>1, <3>1, WithLeft DEF r
    <3> HIDE DEF m
    <3>4. Fits(m.key, m.offsets, m.left, m.right)
      BY <1>1, <2>2, <2>9, <3>1, <3>3 DEF Fits
    <3>5. C(Rebalance(m)) = (C(u) \o b) \o C(r)
      <4>1. Search(m.left) /\ Search(m.right)
        BY <2>2, <3>1, <3>3
      <4>2. AvlCollect(Rebalance(m)) =
              (AvlCollect(m.left) \o Block(m.key, m.offsets)) \o AvlCollect(m.right)
        BY <3>3, <3>4, <4>1, RebalanceLists
      <4> QED
        BY <3>3, <4>2, Zenon DEF C, b
    <3>6. \A e \in ToSet(b) \cup ToSet(C(r)) : e[1] > pair[1]
      BY <1>1, <2>1, <2>3, <2>4, <2>9
    <3>7. MoreAt(C(l), C(u), pair)
      BY <2>7 DEF u
    <3> QED
      BY <1>1, <2>3, <3>2, <3>5, <3>6, <3>7, MoreInNode
  <2>10. CASE key > n.key
    <3> DEFINE u == I(r)
               m == [n EXCEPT !.right = u]
    <3>1. u \in AllTrees /\ Search(u) /\ Filed(u) = Filed(r) \cup {pair}
      BY <2>8 DEF Inserts
    <3>2. I(n) = Rebalance(m)
      BY <1>1, <2>1, <2>6, <2>10
    <3> HIDE DEF u
    <3>3. /\ m \in Nodes(AllTrees) /\ m.key = n.key /\ m.offsets = n.offsets
          /\ m.left = l /\ m.right = u
      BY <2>1, <3>1, WithRight DEF l
    <3> HIDE DEF m
    <3>4. Fits(m.key, m.offsets, m.left, m.right)
      BY <1>1, <2>2, <2>10, <3>1, <3>3 DEF Fits
    <3>5. C(Rebalance(m)) = (C(l) \o b) \o C(u)
      <4>1. Search(m.left) /\ Search(m.right)
        BY <2>2, <3>1, <3>3
      <4>2. AvlCollect(Rebalance(m)) =
              (AvlCollect(m.left) \o Block(m.key, m.offsets)) \o AvlCollect(m.right)
        BY <3>3, <3>4, <4>1, RebalanceLists
      <4> QED
        BY <3>3, <4>2, Zenon DEF C, b
    <3>6. \A e \in ToSet(C(l)) \cup ToSet(b) : e[1] <= pair[1]
      BY <1>1, <2>1, <2>3, <2>4, <2>10
    <3>7. MoreAt(C(r), C(u), pair)
      BY <2>7 DEF u
    <3> QED
      BY <1>1, <2>3, <3>2, <3>5, <3>6, <3>7, MoreInNode
  <2>11. CASE key = n.key
    <3> DEFINE more == Append(n.offsets, offset)
               m == [n EXCEPT !.offsets = more]
    <3>1. offset \notin ToSet(n.offsets)
      BY <1>4, <2>2, <2>11 DEF FiledAt
    <3>2. I(n) = m
      BY <1>1, <2>1, <2>6, <2>11, <3>1
    <3>3. /\ more \in Seq(Offsets) /\ more # <<>> /\ IsInjective(more)
      BY <2>1, <2>2, <3>1, AppendedIs DEF Fits
    <3>4. MoreAt(b, Block(n.key, more), pair)
      BY <2>1, <2>11, BlockAppended DEF b
    <3> HIDE DEF more
    <3>5. /\ m \in Nodes(AllTrees) /\ m.key = n.key /\ m.offsets = more
          /\ m.left = l /\ m.right = r
      BY <2>1, <3>3 DEF Nodes, l, r
    <3>6. m \in AllTrees /\ Search(m)
      BY <1>4, <3>3, OffsetsReplaced
    <3> HIDE DEF m
    <3>7. m # Nil
      BY <3>5, NodeIs
    <3>8. C(m) = (C(l) \o Block(n.key, more)) \o C(r)
      <4>1. AvlCollect(m) = (AvlCollect(m.left) \o Block(m.key, m.offsets)) \o AvlCollect(m.right)
        BY <3>6, <3>7, ListOfNode
      <4> QED
        BY <3>5, <4>1, Zenon DEF C
    <3>9. /\ \A e \in ToSet(C(l)) : e[1] <= pair[1]
          /\ \A e \in ToSet(C(r)) : e[1] > pair[1]
      BY <1>1, <2>3, <2>4, <2>11
    <3> QED
      BY <1>1, <2>3, <3>2, <3>4, <3>8, <3>9, MoreInNode
  <2> QED
    BY <1>1, <2>1, <2>9, <2>10, <2>11
<1>5. \A n \in AllTrees : n # Nil /\ n.left \in P /\ n.right \in P => n \in P
  BY <1>4
<1> HIDE DEF P
<1>6. AllTrees \subseteq P
  BY <1>3, <1>5, TreesLayered, TreeInduction DEF AllTrees
<1> QED
  BY <1>6 DEF P

\* Pairs that are listed by key, none twice, are listed so again when they are loaded.
LEMMA LoadLists ==
  ASSUME NEW pairs \in Seq(KeyedOffsets), ByKey(pairs), IsInjective(pairs)
  PROVE  AvlCollect(AvlLoad(pairs)) = pairs
<1> DEFINE N == Len(pairs)
<1>1. /\ N \in Nat /\ DOMAIN pairs = 1..N /\ \A n \in 1..N : pairs[n] \in KeyedOffsets
      /\ \A i, j \in 1..N : pairs[i] = pairs[j] => i = j
  BY DEF IsInjective
<1>2. PICK f : /\ f[0] = Nil
               /\ \A n \in 0..N : f[n] \in Sound
               /\ \A n \in 1..N : /\ f[n] = AvlInsert(f[n - 1], pairs[n][1], pairs[n][2])
                                  /\ Filed(f[n]) = Filed(f[n - 1]) \cup {pairs[n]}
               /\ AvlLoad(pairs) = f[N]
  BY LoadRuns, Zenon
<1> HIDE DEF N
<1> DEFINE Right == [n \in 0..N |-> {t \in Sound : AvlCollect(t) = Beginning(pairs, n)}]
<1>3. f[0] \in Right[0]
  <2>1. 0 \in 0..N
    BY <1>1
  <2> QED
    BY <1>2, <2>1, CollectIs, BeginningIs
<1>4. ASSUME NEW n \in 1..N, f[n - 1] \in Right[n - 1]
      PROVE  f[n] \in Right[n]
  <2> DEFINE t == f[n - 1]
             p == pairs[n]
  <2>1. n \in 0..N /\ n - 1 \in 0..N
    BY <1>1
  <2>2. /\ t \in AllTrees /\ Search(t) /\ AllTight(t) /\ AvlCollect(t) = Beginning(pairs, n - 1)
    BY <1>4, <2>1 DEF Sound
  <2>3. ToSet(AvlCollect(t)) = Filed(t)
    BY <2>2, CollectLists DEF Lists
  <2>4. /\ ToSet(Beginning(pairs, n - 1)) = {pairs[i] : i \in 1..(n - 1)}
        /\ Beginning(pairs, n) = Append(Beginning(pairs, n - 1), p)
    BY BeginningGrows DEF N
  <2>5. p \notin Filed(t)
    <3>1. \A i \in 1..(n - 1) : i \in 1..N /\ i # n
      BY <1>1
    <3> QED
      BY <1>1, <2>2, <2>3, <2>4, <3>1
  <2>6. \A i \in 1..(n - 1) : pairs[i][1] <= p[1]
    BY <1>1 DEF ByKey
  <2>7. p \in KeyedOffsets
    BY <1>1
  <2>8. f[n] = AvlInsert(t, p[1], p[2])
    BY <1>2
  <2> HIDE DEF p, t
  <2>9. p[1] \in Keys /\ p[2] \in Offsets /\ p = <<p[1], p[2]>>
    BY <2>7 DEF KeyedOffsets
  <2>10. MoreAt(Beginning(pairs, n - 1), AvlCollect(f[n]), p)
    <3>1. <<p[1], p[2]>> \notin Filed(t)
      BY <2>5, <2>9
    <3>2. MoreAt(AvlCollect(t), AvlCollect(AvlInsert(t, p[1], p[2])), <<p[1], p[2]>>)
      BY <2>2, <2>9, <3>1, InsertLists
    <3> QED
      BY <2>2, <2>8, <2>9, <3>2, Zenon
  <2>11. AvlCollect(f[n]) = Append(Beginning(pairs, n - 1), p)
    BY <2>4, <2>6, <2>7, <2>10, MoreAtEnd
  <2> QED
    BY <1>2, <2>1, <2>4, <2>11
<1> HIDE DEF Right
<1>5. \A n \in 0..N : f[n] \in Right[n]
  BY <1>1, <1>3, <1>4, LoopInvariant
<1>6. N \in 0..N
  BY <1>1
<1>7. AvlCollect(f[N]) = Beginning(pairs, N)
  BY <1>5, <1>6 DEF Right
<1> QED
  BY <1>2, <1>7, BeginningIs DEF N

------------------------------------------------------------------------------
(* The two trees answer alike *)

\* What the walk of BstRange adds up at a node.
Walked(n, lo, hi, il, ih) ==
  (IF AtOrAbove(n.key, lo, il) THEN BstRange(n.left, lo, hi, il, ih) ELSE <<>>)
  \o (IF AtOrAbove(n.key, lo, il) /\ AtOrBelow(n.key, hi, ih) THEN n.offsets ELSE <<>>)
  \o (IF AtOrBelow(n.key, hi, ih) THEN BstRange(n.right, lo, hi, il, ih) ELSE <<>>)

\* The recursion of BstRange.
LEMMA PlainRangeIs ==
  ASSUME NEW lo \in Int, NEW hi \in Int, NEW il \in BOOLEAN, NEW ih \in BOOLEAN
  PROVE  /\ BstRange(Nil, lo, hi, il, ih) = <<>>
         /\ \A n \in Trees : n # Nil =>
              BstRange(n, lo, hi, il, ih) = Walked(n, lo, hi, il, ih)
<1> DEFINE R == Seq(Offsets)
           U(m) == AtOrAbove(m.key, lo, il)
           D(m) == AtOrBelow(m.key, hi, ih)
           After(m, a, b) ==
             (IF U(m) THEN a ELSE <<>>)
             \o (IF U(m) /\ D(m) THEN m.offsets ELSE <<>>)
             \o (IF D(m) THEN b ELSE <<>>)
           step == [q \in AllTrees \X R \X R |-> After(q[1], q[2], q[3])]
           walked[m \in Trees] ==
             IF m = Nil THEN <<>>
             ELSE LET above == AtOrAbove(m.key, lo, il)
                      below == AtOrBelow(m.key, hi, ih)
                  IN  (IF above THEN walked[m.left] ELSE <<>>)
                      \o (IF above /\ below THEN m.offsets ELSE <<>>)
                      \o (IF below THEN walked[m.right] ELSE <<>>)
<1>1. <<>> \in R
  OBVIOUS
<1>2. ASSUME NEW m \in AllTrees, NEW a \in R, NEW b \in R, m # Nil
      PROVE  After(m, a, b) \in R
  <2> HIDE DEF U, D
  <2> DEFINE u == IF U(m) THEN a ELSE <<>>
             v == IF U(m) /\ D(m) THEN m.offsets ELSE <<>>
             w == IF D(m) THEN b ELSE <<>>
  <2>1. m.offsets \in Seq(Offsets)
    BY <1>2, Parts
  <2>2. u \in Seq(Offsets) /\ v \in Seq(Offsets) /\ w \in Seq(Offsets)
    BY <2>1
  <2>3. After(m, a, b) = (u \o v) \o w
    OBVIOUS
  <2> HIDE DEF u, v, w, After
  <2>4. (u \o v) \o w \in Seq(Offsets)
    BY <2>2
  <2> QED
    BY <2>3, <2>4
<1> HIDE DEF R, After, U, D
<1>3. \A m \in AllTrees, a, b \in R : step[<<m, a, b>>] = After(m, a, b)
  OBVIOUS
<1> HIDE DEF step
<1>4. \A m \in AllTrees, a, b \in R : m # Nil => step[<<m, a, b>>] \in R
  BY <1>2, <1>3
<1>5. PICK f : IsFold(f, Trees, Nil, R, <<>>, step)
  BY <1>1, <1>4, TreeFoldExists
<1>6. ASSUME NEW m \in Trees
      PROVE  f[m] = IF m = Nil THEN <<>> ELSE After(m, f[m.left], f[m.right])
  <2>1. m # Nil => /\ m \in AllTrees /\ f[m.left] \in R /\ f[m.right] \in R
                   /\ f[m] = step[<<m, f[m.left], f[m.right]>>]
    BY <1>5, InTrees DEF IsFold
  <2>2. f[Nil] = <<>>
    BY <1>5, InTrees DEF IsFold
  <2> QED
    BY <1>3, <2>1, <2>2
<1>7. f = [m \in Trees |-> f[m]]
  BY <1>5 DEF IsFold
<1>8. f = [m \in Trees |->
             IF m = Nil THEN <<>>
             ELSE LET above == AtOrAbove(m.key, lo, il)
                      below == AtOrBelow(m.key, hi, ih)
                  IN  (IF above THEN f[m.left] ELSE <<>>)
                      \o (IF above /\ below THEN m.offsets ELSE <<>>)
                      \o (IF below THEN f[m.right] ELSE <<>>)]
  BY <1>6, <1>7, Zenon DEF After, U, D
<1>9. walked = [m \in Trees |->
             IF m = Nil THEN <<>>
             ELSE LET above == AtOrAbove(m.key, lo, il)
                      below == AtOrBelow(m.key, hi, ih)
                  IN  (IF above THEN walked[m.left] ELSE <<>>)
                      \o (IF above /\ below THEN m.offsets ELSE <<>>)
                      \o (IF below THEN walked[m.right] ELSE <<>>)]
  BY <1>8, Zenon
<1>10. \A t : BstRange(t, lo, hi, il, ih) = walked[t]
  BY DEF BstRange
<1> HIDE DEF walked
<1>11. \A n \in Trees : walked[n] =
         IF n = Nil THEN <<>> ELSE After(n, walked[n.left], walked[n.right])
  BY <1>9, Zenon DEF After, U, D
<1>12. BstRange(Nil, lo, hi, il, ih) = <<>>
  BY <1>10, <1>11, InTrees
<1>13. \A n \in Trees : n # Nil =>
         BstRange(n, lo, hi, il, ih) =
           After(n, BstRange(n.left, lo, hi, il, ih), BstRange(n.right, lo, hi, il, ih))
  BY <1>10, <1>11, InTrees
<1> QED
  BY <1>12, <1>13, Zenon DEF Walked, After, U, D

\* Its walk answers what is chosen from the whole one.
LEMMA PlainRangeChooses ==
  ASSUME NEW tree \in AllTrees, Sorted(tree), NEW lo \in Int, NEW hi \in Int,
         NEW il \in BOOLEAN, NEW ih \in BOOLEAN,
         NEW S, \A k \in Keys : k \in S <=> AtOrAbove(k, lo, il) /\ AtOrBelow(k, hi, ih)
  PROVE  BstRange(tree, lo, hi, il, ih) = Chosen(AvlCollect(tree), S)
<1> DEFINE A(t) == BstRange(t, lo, hi, il, ih)
           C(t) == AvlCollect(t)
           U(n) == AtOrAbove(n.key, lo, il)
           D(n) == AtOrBelow(n.key, hi, ih)
           P == {t \in AllTrees : Sorted(t) => A(t) = Chosen(C(t), S)}
<1>1. Nil \in P
  <2>1. A(Nil) = <<>> /\ C(Nil) = <<>>
    BY PlainRangeIs, CollectIs
  <2>2. Chosen(<<>>, S) = <<>>
    <3>1. <<>> \in Seq(KeyedOffsets) /\ \A e \in ToSet(<<>>) : e[1] \notin S
      BY DEF ToSet
    <3> QED
      BY <3>1, ChosenBy
  <2> QED
    BY <2>1, <2>2, OfNil
<1>2. ASSUME NEW n \in AllTrees, n # Nil, n.left \in P, n.right \in P, Sorted(n)
      PROVE  A(n) = Chosen(C(n), S)
  <2> DEFINE l == n.left
             r == n.right
             s == Block(n.key, n.offsets)
  <2>1. /\ n \in Nodes(AllTrees) /\ l \in AllTrees /\ r \in AllTrees
    BY <1>2, Parts
  <2>2. Sorted(l) /\ Sorted(r) /\ Apart(n.key, n.offsets, l, r)
    BY <1>2, <2>1, OfNode
  <2>3. /\ n \in Trees /\ n.key \in Keys /\ n.key \in Int /\ n.offsets \in Seq(Offsets)
        /\ C(n) = (C(l) \o s) \o C(r)
        /\ C(l) \in Seq(KeyedOffsets) /\ ToSet(C(l)) = Filed(l)
        /\ C(r) \in Seq(KeyedOffsets) /\ ToSet(C(r)) = Filed(r)
        /\ s \in Seq(KeyedOffsets)
        /\ \A e \in Filed(l) : e[1] < n.key /\ e[1] \in Int
        /\ \A e \in Filed(r) : e[1] > n.key /\ e[1] \in Int
    BY <2>1, <2>2, NodeInOrder, Zenon
  <2>4. A(l) = Chosen(C(l), S) /\ A(r) = Chosen(C(r), S)
    BY <1>2, <2>2
  <2>5. A(n) = (IF U(n) THEN A(l) ELSE <<>>)
               \o (IF U(n) /\ D(n) THEN n.offsets ELSE <<>>)
               \o (IF D(n) THEN A(r) ELSE <<>>)
    <3>1. n \in Trees
      BY <2>3
    <3>2. A(n) = Walked(n, lo, hi, il, ih)
      BY <1>2, <3>1, PlainRangeIs
    <3> QED
      BY <3>2, Zenon DEF Walked
  <2>6. Chosen(s, S) = IF n.key \in S THEN n.offsets ELSE <<>>
    BY <2>3, ChosenFromBlock
  <2>7. n.key \in S <=> U(n) /\ D(n)
    BY <2>3
  <2>8. \A e \in Filed(l) \cup Filed(r) : e[1] \in Keys
    BY <2>1, FiledKeys
  <2>9. ~ U(n) => \A e \in Filed(l) : e[1] \notin S
    BY <2>3, <2>8 DEF AtOrAbove
  <2>10. ~ D(n) => \A e \in Filed(r) : e[1] \notin S
    BY <2>3, <2>8 DEF AtOrBelow
  <2> HIDE DEF A, C, P, l, r, s, U, D
  <2>11. ~ U(n) => Chosen(C(l), S) = <<>>
    BY <2>3, <2>9, ChosenBy
  <2>12. ~ D(n) => Chosen(C(r), S) = <<>>
    BY <2>3, <2>10, ChosenBy
  <2>13. Chosen((C(l) \o s) \o C(r), S) = (Chosen(C(l), S) \o Chosen(s, S)) \o Chosen(C(r), S)
    <3> DEFINE u == C(l)
               v == C(r)
               w == u \o s
    <3>1. u \in Seq(KeyedOffsets) /\ v \in Seq(KeyedOffsets) /\ s \in Seq(KeyedOffsets)
      BY <2>3
    <3> HIDE DEF u, v
    <3>2. w \in Seq(KeyedOffsets)
      BY <3>1, ConcatProperties
    <3>3. Chosen(w, S) = Chosen(u, S) \o Chosen(s, S)
      BY <3>1, ChosenFromBoth
    <3> HIDE DEF w
    <3>4. Chosen(w \o v, S) = Chosen(w, S) \o Chosen(v, S)
      BY <3>1, <3>2, ChosenFromBoth, SMTT(30)
    <3> QED
      BY <3>3, <3>4, Zenon DEF u, v, w
  <2>14. (IF U(n) THEN A(l) ELSE <<>>) = Chosen(C(l), S)
    BY <2>4, <2>11
  <2>15. (IF D(n) THEN A(r) ELSE <<>>) = Chosen(C(r), S)
    BY <2>4, <2>12
  <2>16. (IF U(n) /\ D(n) THEN n.offsets ELSE <<>>) = Chosen(s, S)
    BY <2>6, <2>7
  <2>17. A(n) = (Chosen(C(l), S) \o Chosen(s, S)) \o Chosen(C(r), S)
    BY <2>5, <2>14, <2>15, <2>16, Zenon
  <2> QED
    BY <2>3, <2>13, <2>17, Zenon
<1>3. \A n \in AllTrees : n # Nil /\ n.left \in P /\ n.right \in P => n \in P
  BY <1>2
<1> HIDE DEF P
<1>4. AllTrees \subseteq P
  BY <1>1, <1>3, TreesLayered, TreeInduction DEF AllTrees
<1> QED
  BY <1>4 DEF P

\* The bounds of the two walks take the same of some keys.
SameBounds(keys, min, max, lo, hi, il, ih) ==
  /\ min \in Int /\ max \in Int /\ lo \in Int /\ hi \in Int /\ il \in BOOLEAN /\ ih \in BOOLEAN
  /\ \A k \in keys : k \in min..max <=> AtOrAbove(k, lo, il) /\ AtOrBelow(k, hi, ih)

\* The keys of a tree.
ListedKeys(t) == {e[1] : e \in ToSet(AvlCollect(t))}

\* Over trees that list the same pairs they answer alike then.
Twins(t, p) ==
  /\ t \in AllTrees /\ Search(t) /\ p \in AllTrees /\ Sorted(p)
  /\ AvlCollect(t) = AvlCollect(p)

LEMMA SameRange ==
  \A t, p, min, max, lo, hi, il, ih :
    Twins(t, p) /\ SameBounds(ListedKeys(t), min, max, lo, hi, il, ih) =>
      AvlRange(t, min, max) = BstRange(p, lo, hi, il, ih)
<1> SUFFICES ASSUME NEW t, NEW p, Twins(t, p), NEW min, NEW max, NEW lo, NEW hi, NEW il, NEW ih,
                    SameBounds(ListedKeys(t), min, max, lo, hi, il, ih)
             PROVE  AvlRange(t, min, max) = BstRange(p, lo, hi, il, ih)
  OBVIOUS
<1>0. /\ t \in AllTrees /\ Search(t) /\ p \in AllTrees /\ Sorted(p)
      /\ AvlCollect(t) = AvlCollect(p)
  BY DEF Twins
<1> DEFINE S == min..max
           T == {k \in Keys : AtOrAbove(k, lo, il) /\ AtOrBelow(k, hi, ih)}
<1>1. /\ min \in Int /\ max \in Int /\ lo \in Int /\ hi \in Int /\ il \in BOOLEAN /\ ih \in BOOLEAN
      /\ \A k \in ListedKeys(t) : k \in S <=> AtOrAbove(k, lo, il) /\ AtOrBelow(k, hi, ih)
  BY DEF SameBounds
<1>2. AvlRange(t, min, max) = Chosen(AvlCollect(t), S)
  BY <1>0, <1>1, RangeChooses
<1>3. \A k \in Keys : k \in T <=> AtOrAbove(k, lo, il) /\ AtOrBelow(k, hi, ih)
  OBVIOUS
<1>4. AvlCollect(t) \in Seq(KeyedOffsets) /\ ToSet(AvlCollect(t)) = Filed(t)
  BY <1>0, CollectLists DEF Lists
<1>5. \A e \in ToSet(AvlCollect(t)) : e[1] \in Keys /\ e[1] \in ListedKeys(t)
  BY <1>0, <1>4, FiledKeys DEF ListedKeys
<1> HIDE DEF S, T
<1>6. BstRange(p, lo, hi, il, ih) = Chosen(AvlCollect(p), T)
  BY <1>0, <1>1, <1>3, PlainRangeChooses
<1>7. \A e \in ToSet(AvlCollect(t)) : e[1] \in S <=> e[1] \in T
  BY <1>1, <1>3, <1>5
<1>8. Chosen(AvlCollect(t), S) = Chosen(AvlCollect(t), T)
  BY <1>4, <1>7, ChosenSame
<1> QED
  BY <1>0, <1>2, <1>6, <1>8

\* A balanced tree and a plain one answer range queries with the same offsets.
ClearOf(k) == Above[k] # k /\ Below[k] # k /\ \A key \in Keys : ~ Near(k, key)
NoneAboveIn(t) == \A key \in ListedKeys(t) : key <= MaxKey
NoneBelowIn(t) == \A key \in ListedKeys(t) : key >= MinKey

AnswerAlike(t, p) ==
  /\ \A k \in Keys :
       /\ NoneAboveIn(t) => AvlRange(t, k, MaxKey) = BstQuery(p, "gte", k)
       /\ NoneBelowIn(t) => AvlRange(t, MinKey, k) = BstQuery(p, "lte", k)
       /\ NoneAboveIn(t) /\ ClearOf(k) => GreaterThan(t, k) = BstQuery(p, "gt", k)
       /\ NoneBelowIn(t) /\ ClearOf(k) => LessThan(t, k) = BstQuery(p, "lt", k)
  /\ \A min, max \in Keys :
       AvlRange(t, min, max) = BstQuery(p, "between", <<min, max>>)

\* The replacement of the plain tree by the balanced one changes no answer but those
\* of one-sided queries towards an infinity that is filed, and of gt and lt at a bound
\* that 1e-15 does not move or that has a key nearer than that: over whatever the calls filed in either, the other one, loaded with the same
\* pairs, answers every range query with the same offsets in the same order.
THEOREM AnswersAgree ==
  TreeSpec => []SameAnswers
<1>1. ASSUME NEW t, NEW p, Twins(t, p)
      PROVE  AnswerAlike(t, p)
  <2>1. /\ MinKey \in Int /\ MaxKey \in Int /\ Infinity \in Int /\ -Infinity \in Int
        /\ \A k \in Keys : /\ k \in Int /\ k >= -Infinity /\ k <= Infinity
                           /\ Above[k] \in Int /\ Above[k] >= k
                           /\ Below[k] \in Int /\ Below[k] <= k
    BY KeysAssumption, InfinityAssumption
  <2> DEFINE yes == TRUE
             no == FALSE
             low == -Infinity
  <2> HIDE DEF yes, no, low
  <2> DEFINE L == ListedKeys(t)
  <2>2. L \subseteq Keys
    <3>1. ToSet(AvlCollect(t)) = Filed(t)
      BY <1>1, CollectLists DEF Lists, Twins
    <3> QED
      BY <1>1, <3>1, FiledKeys DEF ListedKeys, Twins
  <2> HIDE DEF L
  <2>3. ASSUME NEW k \in Keys, NoneAboveIn(t)
        PROVE  /\ AvlRange(t, k, MaxKey) = BstQuery(p, "gte", k)
               /\ ClearOf(k) => GreaterThan(t, k) = BstQuery(p, "gt", k)
    <3>1. \A key \in L : key \in Keys /\ key <= MaxKey
      BY <2>2, <2>3 DEF NoneAboveIn, L
    <3>2. SameBounds(L, k, MaxKey, k, Infinity, yes, yes)
      BY <2>1, <3>1 DEF yes, no, low, SameBounds, AtOrAbove, AtOrBelow
    <3>3. AvlRange(t, k, MaxKey) = BstRange(p, k, Infinity, yes, yes)
      BY <1>1, <3>2, SameRange DEF L
    <3>4. ASSUME ClearOf(k)
          PROVE  GreaterThan(t, k) = BstQuery(p, "gt", k)
      <4>1. Above[k] # k /\ \A key \in Keys : key # k => ~ (key >= Below[k] + 1 /\ key <= Above[k] - 1)
        BY <2>1, <3>4 DEF Near, ClearOf
      <4>2. SameBounds(L, Above[k], MaxKey, k, Infinity, no, yes)
        BY <2>1, <3>1, <4>1 DEF yes, no, low, SameBounds, AtOrAbove, AtOrBelow
      <4>3. AvlRange(t, Above[k], MaxKey) = BstRange(p, k, Infinity, no, yes)
        BY <1>1, <4>2, SameRange DEF L
      <4> QED
        BY <4>3 DEF yes, no, low, BstQuery, GreaterThan
    <3> QED
      BY <3>3, <3>4 DEF yes, no, low, BstQuery
  <2>4. ASSUME NEW k \in Keys, NoneBelowIn(t)
        PROVE  /\ AvlRange(t, MinKey, k) = BstQuery(p, "lte", k)
               /\ ClearOf(k) => LessThan(t, k) = BstQuery(p, "lt", k)
    <3>1. \A key \in L : key \in Keys /\ key >= MinKey
      BY <2>2, <2>4 DEF NoneBelowIn, L
    <3>2. SameBounds(L, MinKey, k, low, k, yes, yes)
      BY <2>1, <3>1 DEF yes, no, low, SameBounds, AtOrAbove, AtOrBelow
    <3>3. AvlRange(t, MinKey, k) = BstRange(p, low, k, yes, yes)
      BY <1>1, <3>2, SameRange DEF L
    <3>4. ASSUME ClearOf(k)
          PROVE  LessThan(t, k) = BstQuery(p, "lt", k)
      <4>1. Below[k] # k /\ \A key \in Keys : key # k => ~ (key >= Below[k] + 1 /\ key <= Above[k] - 1)
        BY <2>1, <3>4 DEF Near, ClearOf
      <4>2. SameBounds(L, MinKey, Below[k], low, k, yes, no)
        BY <2>1, <3>1, <4>1 DEF yes, no, low, SameBounds, AtOrAbove, AtOrBelow
      <4>3. AvlRange(t, MinKey, Below[k]) = BstRange(p, low, k, yes, no)
        BY <1>1, <4>2, SameRange DEF L
      <4> QED
        BY <4>3 DEF yes, no, low, BstQuery, LessThan
    <3> QED
      BY <3>3, <3>4 DEF yes, no, low, BstQuery
  <2>5. ASSUME NEW min \in Keys, NEW max \in Keys
        PROVE  AvlRange(t, min, max) = BstQuery(p, "between", <<min, max>>)
    <3>1. SameBounds(L, min, max, min, max, yes, yes)
      BY <2>1, <2>2 DEF yes, no, low, SameBounds, AtOrAbove, AtOrBelow
    <3>2. AvlRange(t, min, max) = BstRange(p, min, max, yes, yes)
      BY <1>1, <3>1, SameRange DEF L
    <3> QED
      BY <3>2 DEF yes, no, low, BstQuery
  <2> QED
    BY <2>3, <2>4, <2>5, Zenon DEF AnswerAlike
<1>2. ASSUME TreeInv, PlainInv
      PROVE  SameAnswers
  <2> DEFINE pairs == IF kind = "balanced" THEN AvlCollect(root) ELSE BstCollect(bst.root)
             balanced == IF kind = "balanced" THEN root ELSE AvlLoad(pairs)
             plain == IF kind = "plain" THEN bst.root ELSE BstLoad(pairs).root
  <2>1. /\ root \in AllTrees /\ Search(root) /\ Sorted(root)
        /\ AvlCollect(root) \in Seq(KeyedOffsets) /\ ByKey(AvlCollect(root))
    BY <1>2, SearchIsSorted, InOrder DEF TreeInv, Sound
  <2>2. /\ bst.root \in AllTrees /\ Sorted(bst.root)
        /\ AvlCollect(bst.root) \in Seq(KeyedOffsets) /\ ByKey(AvlCollect(bst.root))
    BY <1>2, PlainSoundHas DEF PlainInv
  <2>3. pairs \in Seq(KeyedOffsets) /\ ByKey(pairs)
    BY <2>1, <2>2 DEF BstCollect
  <2>0. IsInjective(pairs) /\ AvlCollect(balanced) = pairs /\ AnswerAlike(balanced, plain)
          => SameAnswers
    BY DEF SameAnswers, AnswerAlike, ClearOf, NoneAboveIn, NoneBelowIn, ListedKeys
  <2> SUFFICES ASSUME IsInjective(pairs)
               PROVE  AnswerAlike(balanced, plain) /\ AvlCollect(balanced) = pairs
    BY <2>0 DEF SameAnswers
  <2>4. balanced \in AllTrees /\ Search(balanced) /\ AvlCollect(balanced) = pairs
    <3>1. CASE kind = "balanced"
      BY <2>1, <3>1
    <3>2. CASE kind # "balanced"
      <4> HIDE DEF pairs
      <4>1. AvlLoad(pairs) \in Sound /\ AvlCollect(AvlLoad(pairs)) = pairs
        BY <2>3, LoadKeeps, LoadLists
      <4> QED
        BY <3>2, <4>1 DEF Sound
    <3> QED
      BY <3>1, <3>2
  <2>5. plain \in AllTrees /\ Sorted(plain) /\ AvlCollect(plain) = pairs
    <3>1. CASE kind = "plain"
      BY <2>2, <3>1 DEF BstCollect
    <3>2. CASE kind # "plain"
      <4> HIDE DEF pairs
      <4>1. BstLoad(pairs) \in PlainSound /\ AvlCollect(BstLoad(pairs).root) = pairs
        BY <2>3, PlainLoadKeeps
      <4> QED
        BY <3>2, <4>1, PlainSoundHas
    <3> QED
      BY <3>1, <3>2
  <2> HIDE DEF balanced, plain, pairs
  <2>6. Twins(balanced, plain)
    BY <2>4, <2>5 DEF Twins
  <2> QED
    BY <1>1, <2>4, <2>6
<1> QED
  BY <1>2, TreeInvHolds, PlainInvHolds, PTL
==============================================================================
