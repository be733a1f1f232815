------------------------------ MODULE SketchPair ------------------------------
(***************************************************************************)
(* The two sketches of phase 8 side by side.  Nothing in the program calls *)
(* either of them yet, so that they share no step.                         *)
(***************************************************************************)
EXTENDS CountMinSketch, HyperLogLog

vars == <<cmsVars, hllVars>>

Init == CmsInit /\ HllInit

Next ==
  \/ CmsNext /\ UNCHANGED hllVars
  \/ HllNext /\ UNCHANGED cmsVars

Spec == Init /\ [][Next]_vars
==============================================================================
