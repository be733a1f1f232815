------------------------------- MODULE MCDiskDB -------------------------------
(***************************************************************************)
(* Values for the constants of DiskDB.  Two ids are enough for both ends   *)
(* of the index spotCheck looks at; the values are the kinds the code      *)
(* tells apart: a string, a number that is read back as it was written,    *)
(* and those that are not.                                                 *)
(***************************************************************************)
EXTENDS DiskDB

MCIds == {1, 2}
MCFields == {"n"}

\* "str" is a string, 7 a float64 (or an int JSON prints without exponent).
PlainVals == {"str", "f7"}
PlainReload == [v \in PlainVals |-> v]
PlainPrinted == [v \in PlainVals |-> v]
PlainNum == [v \in PlainVals |-> IF v = "f7" THEN 7 ELSE 0]
PlainNumericVals == {"f7"}

\* "inf" is math.Inf(1): the msgpack serializer encodes it, encoding/json does
\* not, neither in a record nor as a key of the range index in index.json. "chan"
\* is what no serializer encodes.
OddVals == {"inf", "chan"}
OddReload == [v \in OddVals |-> v]
OddNum == [v \in OddVals |-> IF v = "inf" THEN 99 ELSE 0]
OddNumericVals == {"inf"}

\* Reads move nothing but a counter, and are left to MCDiskCrash.
MCErrors == Init /\ [][Steps]_vars
=============================================================================
