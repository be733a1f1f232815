-------------------------------- MODULE Query --------------------------------
(***************************************************************************)
(* engine/query.go: ExecuteFind and its helpers, over the primary index,   *)
(* the secondary index (a function from <<field, printed value>> to the    *)
(* list of offsets) and the trees of the range index.                      *)
(*                                                                         *)
(* The log is append-only, so what is at an offset never changes: an       *)
(* offset is the record that is there: its id and its document, as whoever *)
(* decodes it reads it.  ExecuteFind reads each candidate back that way    *)
(* before it filters, so that a filter and a sort see the document read,   *)
(* whatever the one was that the index filed.                              *)
(***************************************************************************)
EXTENDS AVLTree, MinHeap, PrimaryIndex, SecondaryIndex

RangeOps == {"gt", "gte", "lt", "lte", "between"}

\* A record read from the log has its id among its fields: a string, which prints
\* as itself.
IdField == "_id"

\* The _id of a document is kept beside its fields.
ASSUME IdFieldAssumption == IdField \notin Fields

Has(rec, field) == field = IdField \/ field \in DOMAIN rec.doc
PrintOf(rec, field) == IF field = IdField THEN rec.id ELSE Printed[rec.doc[field]]

\* toFloat of a field: one that is missing reads as nil, which is 0, as a string is.
NumOf(rec, field) == IF field \in DOMAIN rec.doc THEN Num[rec.doc[field]] ELSE 0

\* The value of a filter is a printed value for eq, a pair for between, and a
\* number for the others; an op the code does not know filters nothing.
Matches(rec, f) ==
  /\ Has(rec, f.field)
  /\ LET v == NumOf(rec, f.field)
     IN  CASE f.op = "eq" -> PrintOf(rec, f.field) = f.value
           [] f.op = "gt" -> v > f.value
           [] f.op = "gte" -> v >= f.value
           [] f.op = "lt" -> v < f.value
           [] f.op = "lte" -> v <= f.value
           [] f.op = "between" -> v \in f.value[1]..f.value[2]
           [] OTHER -> TRUE

MatchesAll(rec, filters) == \A i \in DOMAIN filters : Matches(rec, filters[i])

Scan(primary) == [i \in DOMAIN primary.entries |-> primary.entries[i].offset]

\* No tree, no answer.
RangeQuery(trees, field, op, value) ==
  LET tree == IF field \in DOMAIN trees THEN trees[field] ELSE Nil
  IN  CASE op = "gt" -> GreaterThan(tree, value)
        [] op = "gte" -> AvlRange(tree, value, MaxKey)
        [] op = "lt" -> LessThan(tree, value)
        [] op = "lte" -> AvlRange(tree, MinKey, value)
        [] op = "between" -> AvlRange(tree, value[1], value[2])

\* The records the strategy reads: one eq filter goes through the secondary
\* index, one range filter through a tree, anything else through a full scan.
Candidates(ix, filters) ==
  LET f == filters[1]
  IN  CASE Len(filters) = 1 /\ f.op = "eq" ->
             SecondaryLookup(ix.secondary, f.field, f.value)
        [] Len(filters) = 1 /\ f.op \in RangeOps ->
             RangeQuery(ix.trees, f.field, f.op, f.value)
        [] OTHER -> Scan(ix.primary)

\* (A mutant of Matched: the index is believed and its records are not filtered.)
MatchedUnfiltered(ix, filters) ==
  IF Len(filters) = 1 THEN Candidates(ix, filters)
  ELSE SelectSeq(Candidates(ix, filters), LAMBDA rec : MatchesAll(rec, filters))

\* The loop of the filter.
Matching(recs, filters) ==
  LET matched[n \in 0..Len(recs)] ==
        IF n = 0 THEN <<>>
        ELSE IF MatchesAll(recs[n], filters) THEN Append(matched[n - 1], recs[n])
        ELSE matched[n - 1]
  IN  matched[Len(recs)]

Matched(ix, filters) == Matching(Candidates(ix, filters), filters)

\* One turn of the loop of topK: the heap keeps the k largest values seen, or,
\* negated, the k smallest.
Offer(h, rec, field, asc, k) ==
  LET v == NumOf(rec, field)
      item == [doc |-> rec, value |-> IF asc THEN -v ELSE v]
  IN  IF Len(h) < k THEN HeapPush(h, item)
      ELSE IF item.value > h[1].value THEN HeapPush(HeapPop(h), item)
      ELSE h

RecordsIn(items) == [i \in DOMAIN items |-> items[i].doc]

TopK(recs, field, asc, k) ==
  LET heap[n \in 0..Len(recs)] ==
        IF n = 0 THEN <<>> ELSE Offer(heap[n - 1], recs[n], field, asc, k)
  IN  Reverse(RecordsIn(Drain(heap[Len(recs)])))

\* One turn of the insertion sort: rec goes behind the last record that may stay
\* in front of it.
Sunk(sorted, rec, field, asc) ==
  LET v == NumOf(rec, field)
      j == SelectLastInSeq(sorted, LAMBDA s : IF asc THEN NumOf(s, field) <= v
                                              ELSE NumOf(s, field) >= v)
  IN  InsertAt(sorted, j + 1, rec)

SortAll(recs, field, asc) ==
  LET sorted[n \in 0..Len(recs)] ==
        IF n = 0 THEN <<>> ELSE Sunk(sorted[n - 1], recs[n], field, asc)
  IN  sorted[Len(recs)]

Project(rec, fields) == [rec EXCEPT !.doc = Restrict(@, DOMAIN @ \cap fields)]

\* An empty field to sort by, a limit of 0 and no fields to project on mean that
\* the request asks for none.
NoField == ""

Picks(recs, req) ==
  CASE req.sortBy # NoField /\ req.limit > 0 -> TopK(recs, req.sortBy, req.sortAsc, req.limit)
    [] req.sortBy # NoField /\ req.limit <= 0 -> SortAll(recs, req.sortBy, req.sortAsc)
    [] req.sortBy = NoField /\ req.limit > 0 /\ req.limit < Len(recs) -> SubSeq(recs, 1, req.limit)
    [] OTHER -> recs

Projected(recs, fields) ==
  IF fields = {} THEN recs ELSE [i \in DOMAIN recs |-> Project(recs[i], fields)]

ExecuteFind(ix, req) == Projected(Picks(Matched(ix, req.filters), req), req.projection)
==============================================================================
