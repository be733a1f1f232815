----------------------------- MODULE MCSketchPair -----------------------------
(***************************************************************************)
(* Values for the constants of SketchPair.  The counters wrap at 8.  Each  *)
(* key shares a column with another in one of the rows, b in both.  Hashes *)
(* have six bits of which one selects the register: one is zero behind it, *)
(* the others of its register have ranks 1 and 2, one is in the other one. *)
(***************************************************************************)
EXTENDS SketchPair

MCTerms == {"a", "b", "c"}
MCColumn == [row \in 1..2 |-> IF row = 1 THEN [a |-> 1, b |-> 1, c |-> 2]
                                         ELSE [a |-> 1, b |-> 2, c |-> 2]]
MCHash == [zero |-> 0, short |-> 20, low |-> 9, other |-> 36]
MCValues == DOMAIN MCHash
==============================================================================
