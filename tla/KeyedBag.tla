------------------------------ MODULE KeyedBag ------------------------------
(***************************************************************************)
(* What the plain tree promises: a bag of (key, offset) pairs, as a pair   *)
(* that is filed again counts again, and the number of its keys.           *)
(***************************************************************************)
EXTENDS BagsExt, FiniteSets

CONSTANT Pairs

VARIABLES bag, keys

Count(b) == Cardinality({pair[1] : pair \in DOMAIN b})

Init == bag = [pair \in {} |-> 0] /\ keys = 0

Insert(pair) ==
  /\ bag' = BagAdd(bag, pair)
  /\ keys' = Count(bag')

Remove(pair) ==
  /\ bag' = BagRemove(bag, pair)
  /\ keys' = Count(bag')

Next == \E pair \in Pairs : Insert(pair) \/ Remove(pair)

Spec == Init /\ [][Next]_<<bag, keys>>
=============================================================================
