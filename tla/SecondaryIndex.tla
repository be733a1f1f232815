--------------------------- MODULE SecondaryIndex ---------------------------
(***************************************************************************)
(* engine/index.go, the secondary index: under every pair of a field and a *)
(* printed value the list of the offsets filed there, in the order of      *)
(* their coming.  An offset is the record that is there, as it reads back. *)
(***************************************************************************)
EXTENDS Documents, Sequences

\* The offset goes to the lists of the document that is written there.
SecondaryAdd(sec, doc, rec) ==
  LET keys == SecondaryKeys(doc)
  IN  [key \in DOMAIN sec \cup keys |->
         (IF key \in DOMAIN sec THEN sec[key] ELSE <<>>)
         \o (IF key \in keys THEN <<rec>> ELSE <<>>)]

\* The inner loop of RemoveDoc: what stays of a list.
Filtered(list, rec) ==
  LET kept[n \in 0..Len(list)] ==
        IF n = 0 THEN <<>>
        ELSE IF list[n] = rec THEN kept[n - 1]
        ELSE Append(kept[n - 1], list[n])
  IN  kept[Len(list)]

\* The offset leaves the lists of the document read from there; an empty list goes.
SecondaryRemove(sec, rec) ==
  LET keys == SecondaryKeys(rec.doc)
      Kept(key) == IF key \in keys THEN Filtered(sec[key], rec) ELSE sec[key]
  IN  [key \in {k \in DOMAIN sec : Kept(k) # <<>>} |-> Kept(key)]

SecondaryLookup(sec, field, value) ==
  IF <<field, value>> \in DOMAIN sec THEN sec[<<field, value>>] ELSE <<>>

\* loadIndex: every offset of a list is appended to the list of its key, in a new
\* index; a list without any is not made.
SecondaryLoad(sec) == [key \in {k \in DOMAIN sec : sec[k] # <<>>} |-> sec[key]]
=============================================================================
