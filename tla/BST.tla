--------------------------------- MODULE BST ---------------------------------
(***************************************************************************)
(* engine/bst.go: the plain search tree of phase 5a, with the counter of   *)
(* its keys, which the recursion carries along, and the exact bounds of    *)
(* its range queries.  Keys, offsets and nil are those of the other tree;  *)
(* a node is one of its nodes, too, with the height left at 0, as this     *)
(* tree stores none.  Infinity stands beyond every key.                    *)
(***************************************************************************)
EXTENDS AVLTree

CONSTANT Infinity

ASSUME InfinityAssumption == Infinity \in Int /\ \A k \in Keys : k \in -Infinity..Infinity

EmptyTree == [root |-> Nil, size |-> 0]

\* Insert and its recursion: from a subtree to what it and the counter become.  An
\* offset that is filed again is appended again.
BstInsert(tree, key, offset) ==
  LET new == [key |-> key, offsets |-> <<offset>>, left |-> Nil, right |-> Nil, height |-> 0]
      inserted[n \in Trees] ==
        IF n = Nil THEN [root |-> new, size |-> tree.size + 1]
        ELSE IF key < n.key
          THEN LET t == inserted[n.left] IN [t EXCEPT !.root = [n EXCEPT !.left = t.root]]
        ELSE IF key > n.key
          THEN LET t == inserted[n.right] IN [t EXCEPT !.root = [n EXCEPT !.right = t.root]]
        ELSE [tree EXCEPT !.root = [n EXCEPT !.offsets = Append(@, offset)]]
  IN  inserted[tree.root]

BstMin(root) == AvlMin(root)

\* (A mutant of BstDeleteMin: what hangs under the least node is lost.)
BstCutMin(root) ==
  LET left[n \in Trees \ {Nil}] ==
        IF n.left = Nil THEN Nil ELSE [n EXCEPT !.left = left[@]]
  IN  left[root]

BstDeleteMin(root) ==
  LET left[n \in Trees \ {Nil}] ==
        IF n.left = Nil THEN n.right ELSE [n EXCEPT !.left = left[@]]
  IN  left[root]

\* The root has no offsets left and goes: its only child takes its place, or the
\* least node of its right subtree does, which the counter is corrected for.

\* (A mutant of Unlink: the counter is decremented for the successor, too.)
UnlinkTwice(tree) ==
  LET n == tree.root
      one == tree.size - 1
  IN  IF n.left = Nil THEN [root |-> n.right, size |-> one]
      ELSE IF n.right = Nil THEN [root |-> n.left, size |-> one]
      ELSE LET succ == BstMin(n.right)
           IN  [root |-> [n EXCEPT !.key = succ.key, !.offsets = succ.offsets,
                                   !.right = BstDeleteMin(@)],
                size |-> one - 1]

Unlink(tree) ==
  LET n == tree.root
      one == tree.size - 1
  IN  IF n.left = Nil THEN [root |-> n.right, size |-> one]
      ELSE IF n.right = Nil THEN [root |-> n.left, size |-> one]
      ELSE LET succ == BstMin(n.right)
           IN  [root |-> [n EXCEPT !.key = succ.key, !.offsets = succ.offsets,
                                   !.right = BstDeleteMin(@)],
                size |-> one - 1 + 1]

BstRemove(tree, key, offset) ==
  LET removed[n \in Trees] ==
        IF n = Nil THEN [tree EXCEPT !.root = Nil]
        ELSE IF key < n.key
          THEN LET t == removed[n.left] IN [t EXCEPT !.root = [n EXCEPT !.left = t.root]]
        ELSE IF key > n.key
          THEN LET t == removed[n.right] IN [t EXCEPT !.root = [n EXCEPT !.right = t.root]]
        ELSE LET offsets == RemoveFirst(n.offsets, offset)
             IN  IF offsets # <<>>
                   THEN [tree EXCEPT !.root = [n EXCEPT !.offsets = offsets]]
                   ELSE Unlink([tree EXCEPT !.root = n])
  IN  removed[tree.root]

AtOrAbove(key, lo, inclusive) == IF inclusive THEN key >= lo ELSE key > lo
AtOrBelow(key, hi, inclusive) == IF inclusive THEN key <= hi ELSE key < hi

\* The in-order walk, which leaves out the subtrees that cannot hold a key in
\* range.
BstRange(root, lo, hi, inclLo, inclHi) ==
  LET walked[n \in Trees] ==
        IF n = Nil THEN <<>>
        ELSE LET above == AtOrAbove(n.key, lo, inclLo)
                 below == AtOrBelow(n.key, hi, inclHi)
             IN  (IF above THEN walked[n.left] ELSE <<>>)
                 \o (IF above /\ below THEN n.offsets ELSE <<>>)
                 \o (IF below THEN walked[n.right] ELSE <<>>)
  IN  walked[root]

\* (A mutant of BstQuery: the bound of gt and lt is inclusive.)
BstQueryInclusive(n, op, value) ==
  CASE op \in {"gt", "gte"} -> BstRange(n, value, Infinity, TRUE, TRUE)
    [] op \in {"lt", "lte"} -> BstRange(n, -Infinity, value, TRUE, TRUE)
    [] op = "between" -> BstRange(n, value[1], value[2], TRUE, TRUE)

BstQuery(n, op, value) ==
  CASE op = "gt" -> BstRange(n, value, Infinity, FALSE, TRUE)
    [] op = "gte" -> BstRange(n, value, Infinity, TRUE, TRUE)
    [] op = "lt" -> BstRange(n, -Infinity, value, TRUE, FALSE)
    [] op = "lte" -> BstRange(n, -Infinity, value, TRUE, TRUE)
    [] op = "between" -> BstRange(n, value[1], value[2], TRUE, TRUE)

\* The (key, offset) pairs in order, as All lists them.
BstCollect(root) == AvlCollect(root)

\* The pairs of All, filed one by one in a new tree by LoadEntry.
BstLoad(pairs) ==
  LET loaded[n \in 0..Len(pairs)] ==
        IF n = 0 THEN EmptyTree ELSE BstInsert(loaded[n - 1], pairs[n][1], pairs[n][2])
  IN  loaded[Len(pairs)]
==============================================================================
