------------------------------ MODULE RangeTree ------------------------------
(***************************************************************************)
(* One field of the range index over any sequence of insertions, deletions *)
(* and restarts, in the balanced tree the database uses or in the plain    *)
(* tree of phase 5a, which has the same interface and which the tests      *)
(* still compare it with.                                                  *)
(***************************************************************************)
EXTENDS BST

CONSTANTS
  Pairs,      \* the (key, offset) pairs that may be filed
  PlainPairs, \* those of them for the plain tree, which takes more shapes
  Repeatable  \* those that may be filed twice in it

ASSUME PairsAssumption ==
  /\ Pairs \subseteq Keys \X Offsets
  /\ PlainPairs \subseteq Pairs /\ Repeatable \subseteq PlainPairs

VARIABLES
  kind, \* which of the two the index is made of
  root, \* AVLTree.root
  size, \* AVLTree.size
  bst   \* the BST: root and size

treeVars == <<kind, root, size, bst>>

\* How often each pair is in the plain tree.
Copies ==
  LET pairs == BstCollect(bst.root)
  IN  [p \in ToSet(pairs) |-> Cardinality({i \in DOMAIN pairs : pairs[i] = p})]

InitTree ==
  /\ kind \in {"balanced", "plain"}
  /\ root = Nil /\ size = 0
  /\ bst = EmptyTree

InsertPair(pair) ==
  /\ kind = "balanced"
  /\ root' = AvlInsert(root, pair[1], pair[2])
  /\ size' = size + IF AvlInserted(root, pair[1], pair[2]) THEN 1 ELSE 0
  /\ UNCHANGED <<kind, bst>>

DeletePair(pair) ==
  /\ kind = "balanced"
  /\ root' = AvlDelete(root, pair[1], pair[2])
  /\ size' = size - IF AvlDeleted(root, pair[1], pair[2]) THEN 1 ELSE 0
  /\ UNCHANGED <<kind, bst>>

\* The index is saved and loaded again: the same pairs, another shape.
ReloadTree ==
  /\ kind = "balanced"
  /\ root' = AvlLoad(AvlCollect(root))
  /\ UNCHANGED <<kind, size, bst>>

\* Bounded: a pair is in the plain tree twice at most.
PlainInsert(pair) ==
  /\ kind = "plain"
  /\ LET copies == Copies
     IN  pair \in DOMAIN copies => pair \in Repeatable /\ copies[pair] = 1
  /\ bst' = BstInsert(bst, pair[1], pair[2])
  /\ UNCHANGED <<kind, root, size>>

PlainRemove(pair) ==
  /\ kind = "plain"
  /\ bst' = BstRemove(bst, pair[1], pair[2])
  /\ UNCHANGED <<kind, root, size>>

PlainReload ==
  /\ kind = "plain"
  /\ bst' = BstLoad(BstCollect(bst.root))
  /\ UNCHANGED <<kind, root, size>>

NextTree ==
  \/ \E pair \in Pairs : InsertPair(pair) \/ DeletePair(pair)
  \/ ReloadTree
  \/ \E pair \in PlainPairs : PlainInsert(pair) \/ PlainRemove(pair)
  \/ PlainReload

TreeSpec == InitTree /\ [][NextTree]_treeVars

----------------------------------------------------------------------------
(* Properties *)

NodesIn(tree) ==
  LET nodes[n \in Trees] ==
        IF n = Nil THEN {} ELSE {n} \cup nodes[n.left] \cup nodes[n.right]
  IN  nodes[tree]

\* In every node the stored height is the real one and the two subtrees differ
\* by one level at most: the guarantee the range index gives over the plain
\* search tree it replaced, kept by rotations on the way back of an insertion, a
\* deletion and the removal of a successor.
Balanced ==
  \A n \in NodesIn(root) :
    LET lh == NodeHeight(n.left)
        rh == NodeHeight(n.right)
    IN  /\ n.height = 1 + IF lh > rh THEN lh ELSE rh
        /\ lh - rh \in {-1, 0, 1}

\* The walk in order meets the keys in strictly increasing order, each with at
\* least one offset and none twice: no rotation or successor swap leaves a key on
\* the wrong side, or a node behind that nothing is filed under.
Ordered ==
  LET pairs == AvlCollect(root)
  IN  /\ \A i, j \in DOMAIN pairs : i < j => pairs[i][1] <= pairs[j][1]
      /\ Len(pairs) = Cardinality(ToSet(pairs))
      /\ \A n \in NodesIn(root) :
           n.offsets # <<>> /\ \A l \in NodesIn(n.left) : l.key < n.key

\* The offsets that are listed under the keys of a set, in order.
Chosen(pairs, keys) ==
  LET chosen[i \in 0..Len(pairs)] ==
        IF i = 0 THEN <<>>
        ELSE IF pairs[i][1] \in keys THEN Append(chosen[i - 1], pairs[i][2])
        ELSE chosen[i - 1]
  IN  chosen[Len(pairs)]

\* The pruned walk of Range leaves out nothing that is in range and adds nothing
\* that is not, in the order of the keys, gte and lte being ranges up to the largest
\* and down to the smallest finite key.  gt and lt, which stop there, too, and move
\* their bound by 1e-15 instead of excluding it, are off in three ways only: they
\* leave out the infinity, they leave out the keys nearer to the bound than that,
\* and they answer the key of the bound itself where it is too large to move.
RangesExact ==
  LET pairs == AvlCollect(root)
  IN  /\ \A min \in Keys \cup {MinKey}, max \in Keys \cup {MaxKey} :
           AvlRange(root, min, max) = Chosen(pairs, min..max)
      /\ \A k \in Keys :
           /\ GreaterThan(root, k) =
                Chosen(pairs, {key \in Keys :
                                 /\ key <= MaxKey
                                 /\ IF Above[k] = k THEN key >= k
                                    ELSE key > k /\ ~ Near(k, key)})
           /\ LessThan(root, k) =
                Chosen(pairs, {key \in Keys :
                                 /\ key >= MinKey
                                 /\ IF Below[k] = k THEN key <= k
                                    ELSE key < k /\ ~ Near(k, key)})

\* The two trees answer every query alike when the same pairs are filed in the
\* other one, but for a one-sided query towards an infinity that is filed, which the
\* plain tree answers and the balanced one does not, and for gt and lt at a bound
\* that 1e-15 does not move or that has a key nearer than that: the replacement,
\* rotations, rounding and all, changes no other answer.
SameAnswers ==
  LET pairs == IF kind = "balanced" THEN AvlCollect(root) ELSE BstCollect(bst.root)
      balanced == IF kind = "balanced" THEN root ELSE AvlLoad(pairs)
      plain == IF kind = "plain" THEN bst.root ELSE BstLoad(pairs).root
      Clear(k) == Above[k] # k /\ Below[k] # k /\ \A key \in Keys : ~ Near(k, key)
      filed == {pair[1] : pair \in ToSet(pairs)}
      NoneAbove == \A key \in filed : key <= MaxKey
      NoneBelow == \A key \in filed : key >= MinKey
  IN  IsInjective(pairs) =>
        /\ \A k \in Keys :
             /\ NoneAbove => AvlRange(balanced, k, MaxKey) = BstQuery(plain, "gte", k)
             /\ NoneBelow => AvlRange(balanced, MinKey, k) = BstQuery(plain, "lte", k)
             /\ NoneAbove /\ Clear(k) => GreaterThan(balanced, k) = BstQuery(plain, "gt", k)
             /\ NoneBelow /\ Clear(k) => LessThan(balanced, k) = BstQuery(plain, "lt", k)
        /\ \A min, max \in Keys :
             AvlRange(balanced, min, max) = BstQuery(plain, "between", <<min, max>>)

\* Through rotations, successor swaps and reloads, the tree is the set of pairs
\* the calls say, and its size is their number.
Set == INSTANCE Multimap WITH pairs <- ToSet(AvlCollect(root))

IsMultimap == Set!Spec

\* Through successor swaps and reloads, the plain tree is the bag of pairs the
\* calls say, and the counter that its recursion carries along, decremented and
\* corrected on the way, is the number of its keys.
Bag == INSTANCE KeyedBag WITH bag <- Copies, keys <- bst.size

IsBag == Bag!Spec
==============================================================================
