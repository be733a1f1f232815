---------------------------- MODULE MCCollection ----------------------------
(***************************************************************************)
(* Values for the constants of Shell: one field that is missing or has one *)
(* of five values.  Two ints do not read back as they were written: one,   *)
(* through MsgPack, becomes an int8 (i8), which is no number to isNumeric  *)
(* and, as a string is, 0 to toFloat; the other, through JSON, a float64   *)
(* that prints otherwise.  1 is nearer to 0 than 1e-15; inf, which 1e-15   *)
(* does not move, is beyond MaxKey.  The ids have their bits set by others *)
(* too, one of them by a sum that wraps.                                   *)
(***************************************************************************)
EXTENDS Shell

MCIds == 1..4
MCFields == {"n"}
MCVals == {"int1", "i8", "int2", "flt2", "inf"}
MCPrints == {"1", "2", "2e0", "+Inf"}
MCReload == [v \in MCVals |-> CASE v = "int1" -> "i8" [] v = "int2" -> "flt2" [] OTHER -> v]
MCPrinted == [v \in MCVals |-> CASE v \in {"int1", "i8"} -> "1"
                                 [] v = "int2" -> "2"
                                 [] v = "flt2" -> "2e0"
                                 [] v = "inf" -> "+Inf"]
MCNum == [v \in MCVals |-> CASE v = "int1" -> 1
                             [] v \in {"int2", "flt2"} -> 2
                             [] v = "inf" -> 4
                             [] v = "i8" -> 0]
MCNumericVals == {"int1", "int2", "flt2", "inf"}
MCKeys == {0, 1, 2, 4}
MCOffsets == Recs
MCMinKey == -3
MCAbove == [k \in MCKeys |-> IF k = 4 THEN 4 ELSE 2]
MCBelow == [k \in MCKeys |-> CASE k = 0 -> -1 [] k = 1 -> -1 [] OTHER -> k]
MCH1 == <<1, 2, 11, 7>>
MCH2 == <<1, 1, 7, 1>>
MCNumber == [part \in {"0", "1", "2"} |->
               CASE part = "0" -> 0 [] part = "1" -> 1 [] OTHER -> 2]

\* The bounds of the run: how much is left in lists and trees of records no longer
\* live, and that a fourth document is kept only beside three others, all of them
\* of two values that read back as they are written.
MCStrays == 1
Left == (Listed(secondary) \cup Treed(trees)) \ Live
MCPlain == [MCFields -> {"i8", "flt2"}]

Bounded ==
  /\ Cardinality(Left) <= MCStrays
  /\ 4 \in DOMAIN docs =>
       DOMAIN docs = MCIds /\ Left = {} /\ \A id \in MCIds : filed[id] \in MCPlain

MCNext ==
  \/ \E id \in Ids, doc \in Docs : (Insert(id, doc) \/ Update(id, doc)) /\ Bounded'
  \/ \E id \in Ids : Delete(id) /\ Bounded'
  \/ LoadIndex
  \/ RebuildFromWAL

MCSpec == Init /\ [][MCNext]_vars
==============================================================================
