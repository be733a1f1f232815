------------------------------ MODULE MinHeap ------------------------------
(***************************************************************************)
(* engine/heap.go: a binary heap of [doc, value] items in a sequence, the  *)
(* least value first.  The children of item i are items 2i and 2i+1.       *)
(* turn[n] is the state of a loop's variables after n turns; a turn of a   *)
(* loop that is over changes nothing, and no sift takes more turns than    *)
(* there are items on its way.                                             *)
(***************************************************************************)
EXTENDS Integers, Sequences, SequencesExt

Swapped(h, i, j) == [h EXCEPT ![i] = h[j], ![j] = h[i]]

\* A turn of the loop of siftUp, whose variables are the heap and the index.
UpTurn(s) ==
  LET parent == s.at \div 2
  IN  IF s.at = 1 \/ s.heap[parent].value <= s.heap[s.at].value THEN s
      ELSE [heap |-> Swapped(s.heap, s.at, parent), at |-> parent]

SiftUp(h, i) ==
  LET turn[n \in 0..i] == IF n = 0 THEN [heap |-> h, at |-> i] ELSE UpTurn(turn[n - 1])
  IN  turn[i].heap

\* The least of item i and its children; the left one when they are equal.

\* (A mutant of Smallest: the right child is not looked at.)
SmallestOfLeft(h, i) ==
  LET left == 2 * i
  IN  IF left <= Len(h) /\ h[left].value < h[i].value THEN left ELSE i

Smallest(h, i) ==
  LET left == 2 * i
      right == 2 * i + 1
      first == IF left <= Len(h) /\ h[left].value < h[i].value THEN left ELSE i
  IN  IF right <= Len(h) /\ h[right].value < h[first].value THEN right ELSE first

DownTurn(s) ==
  LET smallest == Smallest(s.heap, s.at)
  IN  IF smallest = s.at THEN s
      ELSE [heap |-> Swapped(s.heap, s.at, smallest), at |-> smallest]

SiftDown(h, i) ==
  LET turn[n \in 0..Len(h)] ==
        IF n = 0 THEN [heap |-> h, at |-> i] ELSE DownTurn(turn[n - 1])
  IN  turn[Len(h)].heap

HeapPush(h, item) == SiftUp(Append(h, item), Len(h) + 1)

\* The heap without its first item: the last one takes its place and sinks.
HeapPop(h) ==
  IF Len(h) = 1 THEN <<>> ELSE SiftDown(Front([h EXCEPT ![1] = Last(h)]), 1)

\* The items that were popped so far, and the heap that is left.
Drain(h) ==
  LET drained[n \in 0..Len(h)] ==
        IF n = 0 THEN [out |-> <<>>, heap |-> h]
        ELSE LET s == drained[n - 1]
             IN  [out |-> Append(s.out, s.heap[1]), heap |-> HeapPop(s.heap)]
  IN  drained[Len(h)].out
=============================================================================
