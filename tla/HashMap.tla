------------------------------- MODULE HashMap -------------------------------
(***************************************************************************)
(* engine/hashmap.go: open addressing with Robin Hood displacement and     *)
(* backward-shift deletion.  A map is its buckets, its capacity and its    *)
(* count; a bucket holds a key, a value and its dib, the distance from the *)
(* slot the hash of the key asks for, -1 when it is empty.                 *)
(*                                                                         *)
(* The hash of the keys is a parameter, hash, of the operators.            *)
(*                                                                         *)
(* The loops are functions of the number of turns: turn[n] is the state of *)
(* a loop's variables after n of them, and a turn of a loop that is over   *)
(* changes nothing.                                                        *)
(***************************************************************************)
EXTENDS Integers, Sequences, SequencesExt

CONSTANTS
  InitialCapacity,
  NoKey,  \* the key of an empty bucket
  NoValue \* what an empty bucket holds, and what Get returns of an absent key

ASSUME CapacityAssumption == InitialCapacity \in Nat \ {0}

EmptyEntry == [key |-> NoKey, value |-> NoValue, dib |-> -1]
Entry(key, value) == [key |-> key, value |-> value, dib |-> 0]

EmptyMap(capacity) ==
  [buckets  |-> [slot \in 0..(capacity - 1) |-> EmptyEntry],
   capacity |-> capacity,
   count    |-> 0]

\* The slots in use, in the order in which All goes over them: used[n] has those of the
\* first n.
Occupied(map) ==
  LET used[n \in 0..map.capacity] ==
        IF n = 0 THEN <<>>
        ELSE IF map.buckets[n - 1].dib = -1 THEN used[n - 1]
        ELSE Append(used[n - 1], n - 1)
  IN  used[map.capacity]

\* A capacity the table has after n rehashes.
Doubled(n) ==
  LET c[k \in 0..n] == IF k = 0 THEN InitialCapacity ELSE 2 * c[k - 1]
  IN  c[n]

IdealSlot(map, hash, key) == hash[key] % map.capacity

\* (A mutant of Overloaded: the entry that comes is not counted.)
OverloadedAlready(map) == 10 * map.count > 7 * map.capacity

\* count + 1 entries would exceed maxLoadFactor, seven tenths of the capacity.
Overloaded(map) == 10 * (map.count + 1) > 7 * map.capacity

\* slot holds e.
Put(map, slot, e) == [map EXCEPT !.buckets[slot] = e]

\* (A mutant of PlaceTurn: plain linear probing, no resident ever gives way.)
ProbeTurn(s) ==
  LET slot == (s.pos + s.i) % s.map.capacity
      e == s.map.buckets[slot]
      taken == Put(s.map, slot, [s.cur EXCEPT !.dib = s.i])
  IN  IF s.done \/ s.i >= s.map.capacity THEN s
      ELSE IF e.dib = -1 THEN
        [s EXCEPT !.map = [taken EXCEPT !.count = @ + 1], !.done = TRUE]
      ELSE IF e.key = s.cur.key THEN
        [s EXCEPT !.map = Put(@, slot, [e EXCEPT !.value = s.cur.value]), !.done = TRUE]
      ELSE [s EXCEPT !.i = @ + 1]

\* A turn of the loop of Set.  cur is the entry to place, pos the slot it asks for
\* and i how far from it the loop is; done says that it has returned.  A resident
\* that is nearer to its own slot gives way and becomes the entry to place.
PlaceTurn(s) ==
  LET slot == (s.pos + s.i) % s.map.capacity
      e == s.map.buckets[slot]
      taken == Put(s.map, slot, [s.cur EXCEPT !.dib = s.i])
  IN  IF s.done \/ s.i >= s.map.capacity THEN s
      ELSE IF e.dib = -1 THEN
        [s EXCEPT !.map = [taken EXCEPT !.count = @ + 1], !.done = TRUE]
      ELSE IF e.key = s.cur.key THEN
        [s EXCEPT !.map = Put(@, slot, [e EXCEPT !.value = s.cur.value]), !.done = TRUE]
      ELSE IF e.dib < s.i THEN
        [s EXCEPT !.map = taken, !.cur = e,
                  !.pos = (slot - e.dib) % s.map.capacity, !.i = e.dib + 1]
      ELSE [s EXCEPT !.i = @ + 1]

\* A turn goes on to the next slot, whatever it does, and one of the slots is free
\* (Room): there are never more turns than slots.
Place(map, hash, e) ==
  LET turn[n \in 0..map.capacity] ==
        IF n = 0 THEN [map |-> map, cur |-> Entry(e.key, e.value),
                       pos |-> IdealSlot(map, hash, e.key), i |-> 0, done |-> FALSE]
        ELSE PlaceTurn(turn[n - 1])
  IN  turn[map.capacity].map

\* (A mutant of Rehash: the count is not reset.)
RehashKeepingCount(map, hash) ==
  LET moved[n \in 0..map.capacity] ==
        IF n = 0 THEN [EmptyMap(2 * map.capacity) EXCEPT !.count = map.count]
        ELSE IF map.buckets[n - 1].dib = -1 THEN moved[n - 1]
        ELSE Place(moved[n - 1], hash, map.buckets[n - 1])
  IN  moved[map.capacity]

\* Twice the capacity, and every entry set again in the order of the old slots:
\* moved[n] has those of the first n.  The load of the new map never asks for
\* another rehash.
Rehash(map, hash) ==
  LET moved[n \in 0..map.capacity] ==
        IF n = 0 THEN EmptyMap(2 * map.capacity)
        ELSE IF map.buckets[n - 1].dib = -1 THEN moved[n - 1]
        ELSE Place(moved[n - 1], hash, map.buckets[n - 1])
  IN  moved[map.capacity]

SetKey(map, hash, key, value) ==
  Place(IF Overloaded(map) THEN Rehash(map, hash) ELSE map, hash, Entry(key, value))

\* The loop of Get and Delete: the slot of key, found before the loop meets an
\* empty slot or an entry nearer to its own slot than the loop is to key's.

SlotsOf(map, hash, key) ==
  LET pos == IdealSlot(map, hash, key)
      At(i) == map.buckets[(pos + i) % map.capacity]
      probes == 0..(map.capacity - 1)
  IN  {(pos + i) % map.capacity :
         i \in {n \in probes : At(n).key = key /\ \A j \in 0..n : At(j).dib >= j}}

GetKey(map, hash, key) ==
  LET slots == SlotsOf(map, hash, key)
  IN  IF slots = {} THEN NoValue ELSE map.buckets[CHOOSE slot \in slots : TRUE].value

\* (A mutant of ShiftTurn: the entries move and their dibs do not follow.)
ShiftTurnStale(s) ==
  LET next == (s.slot + 1) % s.map.capacity
      e == s.map.buckets[next]
  IN  IF e.dib <= 0 THEN s
      ELSE [map |-> Put(Put(s.map, s.slot, e), next, EmptyEntry), slot |-> next]

\* (A mutant of ShiftTurn: an entry that is where it asks to be moves too.)
ShiftTurnTooFar(s) ==
  LET next == (s.slot + 1) % s.map.capacity
      e == s.map.buckets[next]
  IN  IF e.dib < 0 THEN s
      ELSE [map  |-> Put(Put(s.map, s.slot, [e EXCEPT !.dib = @ - 1]), next, EmptyEntry),
            slot |-> next]

\* A turn of the loop of Delete behind the slot it has vacated: the next entry
\* moves back by one, unless there is none or it is where it asks to be.
ShiftTurn(s) ==
  LET next == (s.slot + 1) % s.map.capacity
      e == s.map.buckets[next]
  IN  IF e.dib <= 0 THEN s
      ELSE [map  |-> Put(Put(s.map, s.slot, [e EXCEPT !.dib = @ - 1]), next, EmptyEntry),
            slot |-> next]

ShiftBack(map, slot) ==
  LET turn[n \in 0..map.capacity] ==
        IF n = 0 THEN [map |-> map, slot |-> slot] ELSE ShiftTurn(turn[n - 1])
  IN  turn[map.capacity].map

\* (A mutant of DeleteKey: the slot is vacated and nothing is shifted.)
DeleteKeyOnly(map, hash, key) ==
  LET slot == CHOOSE s \in SlotsOf(map, hash, key) : TRUE
  IN  [Put(map, slot, EmptyEntry) EXCEPT !.count = @ - 1]

DeleteKey(map, hash, key) ==
  LET slot == CHOOSE s \in SlotsOf(map, hash, key) : TRUE
  IN  ShiftBack([Put(map, slot, EmptyEntry) EXCEPT !.count = @ - 1], slot)

\* The live values, in the order of the slots.
All(map) ==
  LET slots == Occupied(map)
  IN  [n \in DOMAIN slots |-> map.buckets[slots[n]].value]
==============================================================================
