----------------------------- MODULE MCRangeTree -----------------------------
(***************************************************************************)
(* Values for the constants of RangeTree.  Eight keys make balanced trees  *)
(* of four levels; one of them may have a second offset.  Keys 3 and 4 are *)
(* less than 1e-15 apart, key 7 is so large that 1e-15 does not move it,   *)
(* and 8 and -8 are the infinities, beyond MaxKey and MinKey.  The plain   *)
(* tree takes many more shapes of five keys, one of them infinite.         *)
(***************************************************************************)
EXTENDS RangeTree

MCKeys == 2..8 \cup {-8}
MCMinKey == -7
MCAbove == [k \in MCKeys |-> CASE k \in {-8, 7, 8} -> k [] k = 3 -> 5 [] OTHER -> k + 1]
MCBelow == [k \in MCKeys |-> CASE k \in {-8, 7, 8} -> k [] k = 4 -> 2 [] OTHER -> k - 1]
MCOffsets == {0, 1}
MCPairs == {<<k, 0>> : k \in MCKeys} \cup {<<3, 1>>}
MCPlainPairs == {<<k, 0>> : k \in {-8, 2, 3, 4, 8}} \cup {<<3, 1>>}
MCRepeatable == {<<3, 1>>}
==============================================================================
