------------------------------ MODULE Collection ------------------------------
(***************************************************************************)
(* IndexEntries with the trees of the range index beside them: all that    *)
(* the disk mode looks documents up in, and what Find makes of it.  DiskDB *)
(* has the same indexes as plain maps and sets.                            *)
(***************************************************************************)
EXTENDS Query, IndexEntries

\* An offset is the record that is there, and a number a key.
ASSUME TreesAssumption ==
  /\ Offsets = Recs
  /\ \A v \in NumericVals : Num[v] \in Keys

VARIABLE
  trees \* db.rangeIdx, Nil for a field without a tree

vars == <<docs, filed, primary, secondary, trees>>

ix == [primary |-> primary, secondary |-> secondary, trees |-> trees]

EmptyTrees == [f \in Fields |-> Nil]

TypeOK ==
  /\ EntriesTypeOK
  /\ DOMAIN trees = Fields
  /\ \A f \in Fields :
       ToSet(AvlCollect(trees[f])) \subseteq {Num[v] : v \in NumericVals} \X Recs

Init == InitEntries /\ trees = EmptyTrees

------------------------------------------------------------------------------
(* Range index *)

NumericFields(doc) == {f \in DOMAIN doc : doc[f] \in NumericVals}

\* (A mutant of TreesAdd: strings are filed too, as 0.)
TreesAddAny(ts, doc, rec) ==
  [f \in Fields |-> IF f \in DOMAIN doc THEN AvlInsert(ts[f], Num[doc[f]], rec) ELSE ts[f]]

TreesAdd(ts, doc, rec) ==
  [f \in Fields |-> IF f \in NumericFields(doc)
                      THEN AvlInsert(ts[f], Num[doc[f]], rec) ELSE ts[f]]

TreesRemove(ts, rec) ==
  [f \in Fields |-> IF f \in NumericFields(rec.doc)
                      THEN AvlDelete(ts[f], Num[rec.doc[f]], rec) ELSE ts[f]]

------------------------------------------------------------------------------
(* Calls *)

\* The records that a list or a tree refers to.
Listed(lists) == UNION {ToSet(lists[key]) : key \in DOMAIN lists}
Treed(ts) == UNION {{pair[2] : pair \in ToSet(AvlCollect(ts[f]))} : f \in Fields}

\* What the log may hold of a document that is written: the document as it will read
\* back, where nothing refers to a record of old.  There are no more of them than
\* Places, which is the one bound of this module; which of them it is tells nothing.
Room(id, doc, lists, ts) ==
  {Rec(id, ReloadDoc(doc), at) : at \in Places} \ (Listed(lists) \cup Treed(ts))

Written(room) == CHOOSE rec \in room : TRUE

\* The calls of IndexEntries, and what they do to the trees.
Insert(id, doc) ==
  LET room == Room(id, doc, secondary, trees)
      rec == Written(room)
  IN  /\ room # {}
      /\ InsertEntries(id, doc, rec)
      /\ trees' = TreesAdd(trees, doc, rec)

\* (A mutant of Update: the old values stay in the trees.)
UpdateKeeping(id, partial) ==
  LET old == Lookup(primary, id)
      merged == MergeDoc(old.doc, partial)
      room == Room(id, merged, SecondaryRemove(secondary, old), trees)
      rec == Written(room)
  IN  /\ old # NoOffset
      /\ room # {}
      /\ UpdateEntries(old, merged, rec)
      /\ trees' = TreesAdd(trees, merged, rec)

\* The old document is read back, partial laid over it, and the merged one written.
Update(id, partial) ==
  LET old == Lookup(primary, id)
      merged == MergeDoc(old.doc, partial)
      rest == TreesRemove(trees, old)
      room == Room(id, merged, SecondaryRemove(secondary, old), rest)
      rec == Written(room)
  IN  /\ old # NoOffset
      /\ room # {}
      /\ UpdateEntries(old, merged, rec)
      /\ trees' = TreesAdd(rest, merged, rec)

Delete(id) ==
  /\ DeleteEntries(id)
  /\ trees' = TreesRemove(trees, Lookup(primary, id))

\* A start from the index.json of now.  The pairs of a tree come back in the order in
\* which they were saved, and the tree is made anew.  With an infinity in a tree
\* there is no such file: saveIndex fails (DiskDB is about what is there then).
LoadIndex ==
  /\ \A f \in Fields : \A pair \in ToSet(AvlCollect(trees[f])) : pair[1] \in MinKey..MaxKey
  /\ LoadEntries
  /\ trees' = [f \in Fields |-> AvlLoad(AvlCollect(trees[f]))]

TreesOfRecs(recs) ==
  LET added[n \in 0..Len(recs)] ==
        IF n = 0 THEN EmptyTrees ELSE TreesAdd(added[n - 1], recs[n].doc, recs[n])
  IN  added[Len(recs)]

\* The primary index is the same whatever the order in which it is filled, which
\* is then that of the other two.
RebuildFromWAL ==
  \E recs \in SetToSeqs(Live) :
    /\ RebuildEntries(recs, recs)
    /\ trees' = TreesOfRecs(recs)

Next ==
  \/ \E id \in Ids, doc \in Docs : Insert(id, doc) \/ Update(id, doc)
  \/ \E id \in Ids : Delete(id)
  \/ LoadIndex
  \/ RebuildFromWAL

Spec == Init /\ [][Next]_vars

------------------------------------------------------------------------------
(* Properties *)

NumberStrays(doc) == (UNION {RangeKeys(d) : d \in WrittenFor(doc)}) \ RangeKeys(doc)

\* The trees hold the live records under the numbers of the documents they were filed
\* as.  What is no longer live is left only under a number that the document read
\* back has not, by which it was to be taken out (an int that MsgPack gives back as
\* an int8 is a number no more); and a record is in a tree but once.
TreesRepresent ==
  \A f \in Fields :
    LET pairs == AvlCollect(trees[f])
        numbered == {i \in DOMAIN docs : f \in NumericFields(filed[i])}
    IN  /\ {pair \in ToSet(pairs) : pair[2] \in Live} =
             {<<Num[filed[id][f]], docs[id]>> : id \in numbered}
        /\ \A pair \in ToSet(pairs) :
             pair[2] \notin Live => <<f, pair[1]>> \in NumberStrays(pair[2].doc)
        /\ \A i, j \in DOMAIN pairs : pairs[i][2] = pairs[j][2] => i = j

IdFilters == [field : {IdField}, op : {"eq"}, value : Ids]

Filters ==
  IdFilters
  \cup [field : Fields, op : {"eq"}, value : Prints]
  \cup [field : Fields \cup {IdField}, op : {"gt", "gte", "lt", "lte", "other"}, value : Keys]
  \cup [field : Fields \cup {IdField}, op : {"between"}, value : Keys \X Keys]

Scanned(f) == {rec \in Live : Matches(rec, f)}

\* Whether the tree comes to key k for a range.  It does for the numbers in the range
\* but those nearer than 1e-15 to the bound of gt or lt, and the infinities where the
\* range is open to their side; and for the bound itself if 1e-15 does not move it.
Reached(f, k) ==
  CASE f.op = "gt" -> /\ k <= MaxKey
                      /\ \/ k > f.value /\ ~ Near(f.value, k)
                         \/ k = f.value /\ Above[k] = k
    [] f.op = "gte" -> k <= MaxKey /\ k >= f.value
    [] f.op = "lt" -> /\ k >= MinKey
                      /\ \/ k < f.value /\ ~ Near(f.value, k)
                         \/ k = f.value /\ Below[k] = k
    [] f.op = "lte" -> k >= MinKey /\ k <= f.value
    [] f.op = "between" -> k \in f.value[1]..f.value[2]

\* The live records that the index of a filter leads to, by what they are filed as.
Indexed(f) ==
  CASE f.op = "other" -> Live
    [] f.op # "other" /\ f.field = IdField -> {}
    [] f.op = "eq" /\ f.field # IdField ->
         {docs[id] : id \in {i \in DOMAIN docs : <<f.field, f.value>> \in SecondaryKeys(filed[i])}}
    [] OTHER ->
         {docs[id] : id \in {i \in DOMAIN docs : /\ f.field \in NumericFields(filed[i])
                                                 /\ Reached(f, Num[filed[i][f.field]])}}

\* A filter finds through its index what a scan finds for it, each document once, of
\* the live ones that are filed where it looks.  What it finds of the others is
\* still in a tree, and matches: it was written with a number that it does not read
\* back.  In company of a filter on the _id, when Find scans, it finds that document
\* if the scan does, and nothing else.
FindAnswersScan ==
  \A f \in Filters : \A found \in {Matched(ix, <<f>>)}, scanned \in {Scanned(f)} :
    /\ Len(found) = Cardinality(ToSet(found))
    /\ ToSet(found) \cap Live = scanned \cap Indexed(f)
    /\ \A rec \in ToSet(found) \ Live :
         /\ f.op \in RangeOps
         /\ \E key \in NumberStrays(rec.doc) : key[1] = f.field /\ Reached(f, key[2])
    /\ \A g \in IdFilters : \A both \in {Matched(ix, <<f, g>>)} :
         /\ Len(both) = Cardinality(ToSet(both))
         /\ ToSet(both) = {rec \in scanned : rec.id = g.value}

Request(field, asc, limit) ==
  [filters |-> <<>>, sortBy |-> field, sortAsc |-> asc, limit |-> limit, projection |-> {}]

\* Find with a field to sort by answers every match once and in order, and with
\* a limit, through the heap, as many of the best as the limit allows; a limit
\* above the number of documents allows all of them.
BestFirst ==
  \A f \in Fields \ {NoField}, asc \in BOOLEAN :
    LET all == ExecuteFind(ix, Request(f, asc, 0))
        Value(rec) == NumOf(rec, f)
    IN  /\ ToSet(all) = Live /\ Len(all) = Cardinality(Live)
        /\ \A i, j \in DOMAIN all :
             i < j => IF asc THEN Value(all[i]) <= Value(all[j])
                             ELSE Value(all[i]) >= Value(all[j])
        /\ \A limit \in 1..(Cardinality(Live) + 1) :
             LET best == ExecuteFind(ix, Request(f, asc, limit))
             IN  /\ Len(best) = IF limit < Len(all) THEN limit ELSE Len(all)
                 /\ Len(best) = Cardinality(ToSet(best))
                 /\ ToSet(best) \subseteq Live
                 /\ \A i \in DOMAIN best : Value(best[i]) = Value(all[i])
==============================================================================
