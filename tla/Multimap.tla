------------------------------ MODULE Multimap ------------------------------
(***************************************************************************)
(* What a tree of the range index promises: a set of (key, offset) pairs   *)
(* that grows and shrinks by the pair of the call, and its size.           *)
(***************************************************************************)
EXTENDS Integers, FiniteSets

CONSTANT Pairs

VARIABLES pairs, size

Init == pairs = {} /\ size = 0

Insert(pair) ==
  /\ pairs' = pairs \cup {pair}
  /\ size' = Cardinality(pairs')

Delete(pair) ==
  /\ pairs' = pairs \ {pair}
  /\ size' = Cardinality(pairs')

Next == \E pair \in Pairs : Insert(pair) \/ Delete(pair)

Spec == Init /\ [][Next]_<<pairs, size>>
=============================================================================
