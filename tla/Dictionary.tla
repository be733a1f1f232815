----------------------------- MODULE Dictionary -----------------------------
(***************************************************************************)
(* What the in-memory mode of the database promises: a dictionary of       *)
(* documents.                                                              *)
(***************************************************************************)
EXTENDS Documents, Functions

VARIABLE dict \* the live documents, by id

Init == dict = EmptyDoc

Insert(id, doc) ==
  /\ id \notin DOMAIN dict
  /\ dict' = [i \in DOMAIN dict \cup {id} |-> IF i = id THEN doc ELSE dict[i]]

Update(id, partial) ==
  /\ id \in DOMAIN dict
  /\ dict' = [dict EXCEPT ![id] = MergeDoc(@, partial)]

Delete(id) ==
  /\ id \in DOMAIN dict
  /\ dict' = Restrict(dict, DOMAIN dict \ {id})

Next ==
  \E id \in Ids :
    \/ \E doc \in Docs : Insert(id, doc) \/ Update(id, doc)
    \/ Delete(id)

Spec == Init /\ [][Next]_dict
=============================================================================
