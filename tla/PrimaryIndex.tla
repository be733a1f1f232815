---------------------------- MODULE PrimaryIndex ----------------------------
(***************************************************************************)
(* engine/index.go, the primary index: entries sorted by id, guarded by a  *)
(* Bloom filter that nothing is ever removed from.                         *)
(*                                                                         *)
(* The two binary searches are loops: turn[n] is the state of their        *)
(* variables after n turns, a turn of a loop that is over changes nothing, *)
(* and no search takes more turns than there are entries, and one.         *)
(***************************************************************************)
EXTENDS Bloom, Sequences, SequencesExt

CONSTANT
  NoOffset \* what Lookup returns of an id that is not there

EmptyPrimary == [entries |-> <<>>, bloom |-> {}]

\* A turn of insertionPoint, over the entries lo..hi-1.
InsertionTurn(entries, id, s) ==
  LET mid == (s.lo + s.hi) \div 2
  IN  IF s.lo >= s.hi THEN s
      ELSE IF entries[mid].id < id THEN [s EXCEPT !.lo = mid + 1]
      ELSE [s EXCEPT !.hi = mid]

\* The first entry that is not below id.
InsertionPoint(entries, id) ==
  LET turn[n \in 0..(Len(entries) + 1)] ==
        IF n = 0 THEN [lo |-> 1, hi |-> Len(entries) + 1]
        ELSE InsertionTurn(entries, id, turn[n - 1])
  IN  turn[Len(entries) + 1].lo

\* (A mutant of SearchTurn: the interval of one entry is not looked at.)
SearchTurnShort(entries, id, s) ==
  LET mid == (s.lo + s.hi) \div 2
  IN  IF s.lo >= s.hi \/ s.found # 0 THEN s
      ELSE IF entries[mid].id = id THEN [s EXCEPT !.found = mid]
      ELSE IF entries[mid].id < id THEN [s EXCEPT !.lo = mid + 1]
      ELSE [s EXCEPT !.hi = mid - 1]

\* A turn of binarySearch, over the entries lo..hi; the return in its middle sets
\* found, which is 0 for the -1 of the code.
SearchTurn(entries, id, s) ==
  LET mid == (s.lo + s.hi) \div 2
  IN  IF s.lo > s.hi \/ s.found # 0 THEN s
      ELSE IF entries[mid].id = id THEN [s EXCEPT !.found = mid]
      ELSE IF entries[mid].id < id THEN [s EXCEPT !.lo = mid + 1]
      ELSE [s EXCEPT !.hi = mid - 1]

BinarySearch(entries, id) ==
  LET turn[n \in 0..(Len(entries) + 1)] ==
        IF n = 0 THEN [lo |-> 1, hi |-> Len(entries), found |-> 0]
        ELSE SearchTurn(entries, id, turn[n - 1])
  IN  turn[Len(entries) + 1].found

AddEntry(p, id, offset) ==
  LET i == InsertionPoint(p.entries, id)
      entry == [id |-> id, offset |-> offset]
      present == i <= Len(p.entries) /\ p.entries[i].id = id
  IN  [entries |-> IF present THEN ReplaceAt(p.entries, i, entry)
                              ELSE InsertAt(p.entries, i, entry),
       bloom   |-> BitsAdded(p.bloom, id)]

\* The filter keeps the bits of an id that is removed.
RemoveEntry(p, id) ==
  LET i == BinarySearch(p.entries, id)
  IN  IF i = 0 THEN p ELSE [p EXCEPT !.entries = RemoveAt(@, i)]

Lookup(p, id) ==
  LET i == BinarySearch(p.entries, id)
  IN  IF ~MayContain(p.bloom, id) \/ i = 0 THEN NoOffset ELSE p.entries[i].offset
=============================================================================
