---------------------------- MODULE IndexEntries ----------------------------
(***************************************************************************)
(* The primary and the secondary index of the disk mode as data            *)
(* structures, through the writing calls and the two ways of starting of   *)
(* api/db.go.  DiskDB has the same indexes as a plain map and a set: here  *)
(* they are the sorted entries with their filter and the lists of offsets. *)
(***************************************************************************)
EXTENDS PrimaryIndex, SecondaryIndex, FiniteSets

CONSTANT
  Places     \* tells apart the records of one id that read the same

VARIABLES
  docs,      \* what the calls made of the collection: the live record of each id
  filed,     \* the document under whose keys it was filed
  primary,   \* db.index
  secondary  \* db.secondary

\* A record of the log has an id, the document it reads back as, and its place.
Rec(id, doc, at) == [id |-> id, doc |-> doc, at |-> at]
Recs == [id : Ids, doc : Docs, at : Places]
Live == {docs[id] : id \in DOMAIN docs}

\* What Lookup says of an absent id is not taken for a record, as the boolean it
\* returns beside the offset tells the two apart.
ASSUME NoOffsetAssumption == NoOffset \notin Recs

\* The sizing formulas of the filter give at least one bit and one hash.
ASSUME BloomAssumption ==
  /\ H1 \in [Ids -> Nat] /\ H2 \in [Ids -> Nat]
  /\ {Wrap, M, K} \subseteq Nat \ {0}

Entries == [id : Ids, offset : Recs]
Postings == UNION {[S -> Seq(Recs)] : S \in SUBSET (Fields \X Prints)}

EntriesTypeOK ==
  /\ \E S \in SUBSET Ids : docs \in [S -> Recs]
  /\ filed \in [DOMAIN docs -> Docs]
  /\ primary.entries \in Seq(Entries)
  /\ primary.bloom \subseteq 0..(M - 1)
  /\ DOMAIN secondary \subseteq Fields \X Prints
  /\ \A key \in DOMAIN secondary : secondary[key] \in Seq(Recs)

\* map with x for id.
With(map, id, x) == [i \in DOMAIN map \cup {id} |-> IF i = id THEN x ELSE map[i]]

InitEntries ==
  /\ docs = EmptyDoc
  /\ filed = EmptyDoc
  /\ primary = EmptyPrimary
  /\ secondary = EmptyDoc

------------------------------------------------------------------------------
(* Calls *)

\* The caller's document is written as rec and filed, as it is, at once.
InsertEntries(id, doc, rec) ==
  /\ Lookup(primary, id) = NoOffset
  /\ docs' = With(docs, id, rec)
  /\ filed' = With(filed, id, doc)
  /\ primary' = AddEntry(primary, id, rec)
  /\ secondary' = SecondaryAdd(secondary, doc, rec)

\* (A mutant of UpdateEntries: the new values are filed and the old ones stay.)
UpdateEntriesKeeping(old, merged, rec) ==
  /\ docs' = With(docs, old.id, rec)
  /\ filed' = With(filed, old.id, merged)
  /\ primary' = AddEntry(primary, old.id, rec)
  /\ secondary' = SecondaryAdd(secondary, merged, rec)

\* The old values are taken out as old reads back, the merged ones filed unread.
UpdateEntries(old, merged, rec) ==
  /\ docs' = With(docs, old.id, rec)
  /\ filed' = With(filed, old.id, merged)
  /\ primary' = AddEntry(primary, old.id, rec)
  /\ secondary' = SecondaryAdd(SecondaryRemove(secondary, old), merged, rec)

DeleteEntries(id) ==
  LET old == Lookup(primary, id)
  IN  /\ old # NoOffset
      /\ docs' = Restrict(docs, DOMAIN docs \ {id})
      /\ filed' = Restrict(filed, DOMAIN filed \ {id})
      /\ primary' = RemoveEntry(primary, id)
      /\ secondary' = SecondaryRemove(secondary, old)

\* The entries filed one by one in a new index.
AddAll(entries) ==
  LET added[n \in 0..Len(entries)] ==
        IF n = 0 THEN EmptyPrimary
        ELSE AddEntry(added[n - 1], entries[n].id, entries[n].offset)
  IN  added[Len(entries)]

\* A start from index.json: entries and lists come back in the order in which they
\* were saved, the filter is made anew.
LoadEntries ==
  /\ primary' = AddAll(primary.entries)
  /\ secondary' = SecondaryLoad(secondary)
  /\ UNCHANGED <<docs, filed>>

AddDocs(recs) ==
  LET added[n \in 0..Len(recs)] ==
        IF n = 0 THEN EmptyDoc ELSE SecondaryAdd(added[n - 1], recs[n].doc, recs[n])
  IN  added[Len(recs)]

\* A start from the log: the live documents are filed as they read back, in the order
\* in which Go walks a map, which is any order, another one for each of the two maps.
RebuildEntries(offsets, recs) ==
  /\ primary' = AddAll([i \in DOMAIN offsets |->
                           [id |-> offsets[i].id, offset |-> offsets[i]]])
  /\ secondary' = AddDocs(recs)
  /\ filed' = [id \in DOMAIN docs |-> docs[id].doc]
  /\ UNCHANGED docs

------------------------------------------------------------------------------
(* Properties *)

\* The entries are sorted by id without repetition, and an id is looked up, past
\* the filter and by binary search, exactly when it is live: bits that stay set
\* behind deletions, or are shared with other ids, hide and invent no document.
LookupsExact ==
  /\ \A i, j \in DOMAIN primary.entries :
       i < j => primary.entries[i].id < primary.entries[j].id
  /\ \A id \in Ids :
       Lookup(primary, id) = IF id \in DOMAIN docs THEN docs[id] ELSE NoOffset

\* The documents that read back as doc, and the keys of theirs that doc has not.
WrittenFor(doc) == {d \in Docs : ReloadDoc(d) = doc}
Strays(doc) == (UNION {SecondaryKeys(d) : d \in WrittenFor(doc)}) \ SecondaryKeys(doc)

\* The lists hold the live records, each under the keys of the document it was filed
\* as and once, and no list is empty.  What is no longer live is left in a list only
\* where the value written prints otherwise than the value read back, by which the
\* old record was to be taken out (an int that JSON gives back as a float64).
ListsRepresent ==
  \A key \in Fields \X Prints :
    LET list == SecondaryLookup(secondary, key[1], key[2])
    IN  /\ ToSet(list) \cap Live =
             {docs[id] : id \in {i \in DOMAIN docs : key \in SecondaryKeys(filed[i])}}
        /\ \A rec \in ToSet(list) \ Live : key \in Strays(rec.doc)
        /\ IsInjective(list)
        /\ key \in DOMAIN secondary => list # <<>>
==============================================================================
