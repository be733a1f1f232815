------------------------------ MODULE Migration ------------------------------
(***************************************************************************)
(* What cmd/migrate does to a log, seen from its documents: a log of the   *)
(* old format becomes one of the new format at one moment ("replaces src   *)
(* with dst via an atomic os.Rename").  The documents are the same after   *)
(* it when the output is whole; documents may be missing, and nothing else *)
(* is different, when an earlier run has left a torn record in it.         *)
(***************************************************************************)
CONSTANTS
  Ids,
  Vals, \* documents
  NoVal \* what an id holds that has no document

VARIABLES
  generation, \* the format of the log
  docs,       \* the documents in it
  whole       \* the output has no torn record before its end

Init ==
  /\ generation = "old"
  /\ docs \in [Ids -> Vals \cup {NoVal}]
  /\ whole = TRUE

Switch ==
  /\ generation = "old"
  /\ generation' = "new"
  /\ docs' \in [Ids -> Vals \cup {NoVal}]
  /\ \A id \in Ids : docs'[id] \in {docs[id], NoVal}
  /\ whole => docs' = docs
  /\ whole' = TRUE

\* A run writes behind a torn record, or the output is removed.
Rewrite ==
  /\ generation = "old"
  /\ whole' \in BOOLEAN
  /\ UNCHANGED <<generation, docs>>

Spec == Init /\ [][Switch \/ Rewrite]_<<generation, docs, whole>>
==============================================================================
