------------------------------- MODULE MCMemDB -------------------------------
(***************************************************************************)
(* Values for the constants of MemDB: four ids whose hashes fall on two     *)
(* neighbouring slots and on both sides of the end of the table, before    *)
(* and after it is doubled.                                                *)
(***************************************************************************)
EXTENDS MemDB

MCIds == 1..4
MCFields == {"n"}
MCVals == {"a"}
MCReload == [v \in MCVals |-> v]
MCNum == [v \in MCVals |-> 0]

\* Ids are interchangeable in a hash table: one function of each shape.
MCHashes ==
  {h \in [MCIds -> {2, 3, 7, 8}] : \A i, j \in MCIds : i < j => h[i] <= h[j]}
==============================================================================
