------------------------------- MODULE DocStore -------------------------------
(***************************************************************************)
(* What the database promises, without logs, indexes or files: a map from  *)
(* ids to documents in which a write takes effect at once, survives the    *)
(* process when it was answered, and may or may not survive when it was    *)
(* not.  DiskDB implements it as long as index.json, when it is believed,  *)
(* and the log, when it is replayed, can be trusted.                       *)
(***************************************************************************)
EXTENDS Documents

VARIABLES
  up,      \* the database is open
  view,    \* what each id answers while it is open
  pending, \* the ids whose last write has not been answered yet
  may      \* what each id may answer, given the answers so far

vars == <<up, view, pending, may>>

NotFound == [answer |-> "notFound"]
Document(id, doc) == [answer |-> "document", id |-> id, doc |-> doc]
Outcomes == {NotFound} \cup [answer : {"document"}, id : Ids, doc : Docs]

NoView == [id \in Ids |-> NotFound]

TypeOK ==
  /\ up \in BOOLEAN
  /\ view \in [Ids -> Outcomes]
  /\ pending \in SUBSET Ids
  /\ may \in [Ids -> SUBSET Outcomes]

Init ==
  /\ up = FALSE
  /\ view = NoView
  /\ pending = {}
  /\ may = [id \in Ids |-> {NotFound}]

Open ==
  /\ ~up
  /\ up' = TRUE
  /\ view' \in [Ids -> Outcomes]
  /\ \A id \in Ids : view'[id] \in may[id]
  /\ UNCHANGED <<pending, may>>

\* What a write of id may leave, given what it finds there.
Effects(id) ==
  IF view[id] = NotFound
    THEN {Document(id, ReloadDoc(doc)) : doc \in Docs}
    ELSE {NotFound} \cup
         {Document(id, ReloadDoc(MergeDoc(view[id].doc, partial))) : partial \in Docs}

\* A write takes effect; it is not answered yet.
Apply(id) ==
  /\ up
  /\ pending = {}
  /\ \E effect \in Effects(id) :
       /\ view' = [view EXCEPT ![id] = effect]
       /\ may' = [may EXCEPT ![id] = @ \cup {effect}]
  /\ pending' = {id}
  /\ UNCHANGED up

\* The answer of the write: from now on its effect is what id holds.
Acknowledge(id) ==
  /\ id \in pending
  /\ pending' = {}
  /\ may' = [may EXCEPT ![id] = {view[id]}]
  /\ UNCHANGED <<up, view>>

\* A write that leaves no trace until the database is opened again.
Lose(id) ==
  /\ up
  /\ \E effect \in Effects(id) : may' = [may EXCEPT ![id] = @ \cup {effect}]

Down ==
  /\ up
  /\ up' = FALSE
  /\ view' = NoView
  /\ pending' = {}
  /\ \/ UNCHANGED may
     \/ \E id \in Ids : pending = {} /\ Lose(id)

Next ==
  \/ Open
  \/ \E id \in Ids : Apply(id) \/ Acknowledge(id)
  \/ Down

Spec == Init /\ [][Next]_vars
=============================================================================
