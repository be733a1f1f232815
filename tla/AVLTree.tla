------------------------------- MODULE AVLTree -------------------------------
(***************************************************************************)
(* engine/avl.go: the self-balancing tree of the range index.  A node has  *)
(* a key, the offsets filed under it, two children and the height it was   *)
(* last given: heights are stored, not computed, and go stale unless every *)
(* rotation refreshes those it moves.                                      *)
(*                                                                         *)
(* Keys are integers that keep the order of the float64 keys.  What 1e-15  *)
(* does to a key is given by two constants, as a float64 absorbs it or not *)
(* depending on its size: Above[k] is the first key not below k+1e-15,     *)
(* Below[k] the last one not above k-1e-15.  The keys beyond MinKey and    *)
(* MaxKey, the finite ones of largest size, are the two infinities.        *)
(***************************************************************************)
EXTENDS Integers, Sequences, FiniteSets, SequencesExt

CONSTANTS
  Keys,
  Offsets,  \* what is filed under a key: the place of a record in the log
  Above,
  Below,
  MinKey,   \* math64MinFloat
  MaxKey    \* math64MaxFloat

ASSUME KeysAssumption ==
  /\ Keys \subseteq Int /\ IsFiniteSet(Keys) /\ MinKey \in Int /\ MaxKey \in Int
  /\ \A k \in Keys : /\ Above[k] \in Int /\ Above[k] >= k
                     /\ Below[k] \in Int /\ Below[k] =< k

\* The empty tree, nil in the code, whose height nodeHeight takes for 0.
Nil == [height |-> 0]

Nodes(trees) ==
  [key : Keys, offsets : Seq(Offsets), left : trees, right : trees, height : Nat]

\* The trees of so many levels at most.  A tree has a node for each of its keys,
\* so that it has no more levels than there are keys.
TreesOf[depth \in Nat] ==
  {Nil} \cup IF depth = 0 THEN {} ELSE Nodes(TreesOf[depth - 1])

Trees == TreesOf[Cardinality(Keys)]

\* Two keys that are less than 1e-15 apart, in the range where that moves a key.
Near(k, key) == key \in (Below[k] + 1)..(Above[k] - 1) \ {k}

NodeHeight(n) == n.height

BalanceFactor(n) == IF n = Nil THEN 0 ELSE NodeHeight(n.left) - NodeHeight(n.right)

UpdateHeight(n) ==
  LET lh == NodeHeight(n.left)
      rh == NodeHeight(n.right)
  IN  [n EXCEPT !.height = 1 + IF lh > rh THEN lh ELSE rh]

RotateRight(y) ==
  LET x == y.left
  IN  UpdateHeight([x EXCEPT !.right = UpdateHeight([y EXCEPT !.left = x.right])])

\* (A mutant of RotateLeft: the inner subtree is dropped.)
RotateLeftDropping(x) ==
  LET y == x.right
  IN  UpdateHeight([y EXCEPT !.left = UpdateHeight([x EXCEPT !.right = Nil])])

RotateLeft(x) ==
  LET y == x.right
  IN  UpdateHeight([y EXCEPT !.left = UpdateHeight([x EXCEPT !.right = y.left])])

\* (A mutant of Rebalance: a child that leans the other way is not turned first.)
RebalanceSingle(n) ==
  LET m == UpdateHeight(n)
      bf == BalanceFactor(m)
  IN  IF bf > 1 THEN RotateRight(m) ELSE IF bf < -1 THEN RotateLeft(m) ELSE m

Rebalance(n) ==
  LET m == UpdateHeight(n)
      bf == BalanceFactor(m)
  IN  CASE bf > 1 /\ BalanceFactor(m.left) >= 0 -> RotateRight(m)
        [] bf > 1 /\ BalanceFactor(m.left) < 0 ->
             RotateRight([m EXCEPT !.left = RotateLeft(@)])
        [] bf < -1 /\ BalanceFactor(m.right) <= 0 -> RotateLeft(m)
        [] bf < -1 /\ BalanceFactor(m.right) > 0 ->
             RotateLeft([m EXCEPT !.right = RotateRight(@)])
        [] OTHER -> m

AvlInsert(root, key, offset) ==
  LET inserted[n \in Trees] ==
        IF n = Nil
          THEN [key |-> key, offsets |-> <<offset>>, left |-> Nil, right |-> Nil, height |-> 1]
        ELSE IF key < n.key THEN Rebalance([n EXCEPT !.left = inserted[@]])
        ELSE IF key > n.key THEN Rebalance([n EXCEPT !.right = inserted[@]])
        ELSE IF offset \in ToSet(n.offsets) THEN n
        ELSE [n EXCEPT !.offsets = Append(@, offset)]
  IN  inserted[root]

\* What the recursions of both report back: whether they came to a node of the key
\* that lists the offset.
AvlHolds(root, key, offset) ==
  LET held[n \in Trees] ==
        IF n = Nil THEN FALSE
        ELSE IF key < n.key THEN held[n.left]
        ELSE IF key > n.key THEN held[n.right]
        ELSE offset \in ToSet(n.offsets)
  IN  held[root]

AvlInserted(root, key, offset) == ~ AvlHolds(root, key, offset)
AvlDeleted(root, key, offset) == AvlHolds(root, key, offset)

AvlMin(root) ==
  LET least[n \in Trees \ {Nil}] == IF n.left = Nil THEN n ELSE least[n.left]
  IN  least[root]

AvlDeleteMin(root) ==
  LET left[n \in Trees \ {Nil}] ==
        IF n.left = Nil THEN n.right ELSE Rebalance([n EXCEPT !.left = left[@]])
  IN  left[root]

\* A node whose last offset went: its only child takes its place, or the least
\* node of its right subtree does.

\* (A mutant of Unlinked: the successor stays where it was, too.)
UnlinkedTwice(n) ==
  IF n.left = Nil THEN n.right
  ELSE IF n.right = Nil THEN n.left
  ELSE LET succ == AvlMin(n.right)
       IN  Rebalance([n EXCEPT !.key = succ.key, !.offsets = succ.offsets])

Unlinked(n) ==
  IF n.left = Nil THEN n.right
  ELSE IF n.right = Nil THEN n.left
  ELSE LET succ == AvlMin(n.right)
       IN  Rebalance([n EXCEPT !.key = succ.key, !.offsets = succ.offsets,
                               !.right = AvlDeleteMin(@)])

AvlDelete(root, key, offset) ==
  LET deleted[n \in Trees] ==
        IF n = Nil THEN Nil
        ELSE IF key < n.key THEN Rebalance([n EXCEPT !.left = deleted[@]])
        ELSE IF key > n.key THEN Rebalance([n EXCEPT !.right = deleted[@]])
        ELSE IF RemoveFirst(n.offsets, offset) # <<>>
          THEN [n EXCEPT !.offsets = RemoveFirst(@, offset)]
          ELSE Unlinked(n)
  IN  deleted[root]

\* The in-order walk, which leaves out the subtrees that cannot hold a key in
\* range.
AvlRange(root, min, max) ==
  LET walked[n \in Trees] ==
        IF n = Nil THEN <<>>
        ELSE (IF n.key >= min THEN walked[n.left] ELSE <<>>)
             \o (IF n.key \in min..max THEN n.offsets ELSE <<>>)
             \o (IF n.key <= max THEN walked[n.right] ELSE <<>>)
  IN  walked[root]

\* (A mutant of GreaterThan: the bound is not moved.)
GreaterOrEqual(n, min) == AvlRange(n, min, MaxKey)

\* Both leave out the infinity on their side.
GreaterThan(n, min) == AvlRange(n, Above[min], MaxKey)
LessThan(n, max) == AvlRange(n, MinKey, Below[max])

\* The (key, offset) pairs in order, as index.json lists them.
AvlCollect(root) ==
  LET walked[n \in Trees] ==
        IF n = Nil THEN <<>>
        ELSE walked[n.left]
             \o [i \in DOMAIN n.offsets |-> <<n.key, n.offsets[i]>>]
             \o walked[n.right]
  IN  walked[root]

\* loadIndex, and a rebuild: the pairs filed one by one in a new tree.
AvlLoad(pairs) ==
  LET loaded[n \in 0..Len(pairs)] ==
        IF n = 0 THEN Nil ELSE AvlInsert(loaded[n - 1], pairs[n][1], pairs[n][2])
  IN  loaded[Len(pairs)]
==============================================================================
