-------------------------------- MODULE MemDB --------------------------------
(***************************************************************************)
(* The in-memory mode of api/db.go, Open(""): the documents live in a      *)
(* HashMap, there is no log and no index, and Close does nothing.  Every   *)
(* call runs under db.mu, so that a call is one step.                      *)
(***************************************************************************)
EXTENDS Documents, HashMap

CONSTANT Hashes \* the hash functions the ids may have

ASSUME HashesAssumption == Hashes \subseteq [Ids -> Nat]

\* What Get says of an absent id is not taken for a document, as the boolean it
\* returns beside the document tells the two apart.
ASSUME NoValueAssumption == NoValue \notin Docs

VARIABLES
  map, \* db.store
  hash \* FNV-1a of the ids: one function, never changed

vars == <<map, hash>>

Buckets == [key : Ids, value : Docs, dib : Nat] \cup {EmptyEntry}

TypeOK ==
  /\ \E n \in 0..map.capacity : map.capacity = Doubled(n)
  /\ DOMAIN map.buckets = 0..(map.capacity - 1)
  /\ \A slot \in DOMAIN map.buckets : map.buckets[slot] \in Buckets
  /\ map.count \in Nat
  /\ hash \in Hashes

Init ==
  /\ map = EmptyMap(InitialCapacity)
  /\ hash \in Hashes

\* What Get answers: it changes nothing but the statistics, as Find does, which
\* goes through All.
Found(id) == GetKey(map, hash, id) # NoValue

Insert(id, doc) ==
  /\ ~Found(id)
  /\ map' = SetKey(map, hash, id, doc)
  /\ UNCHANGED hash

Update(id, partial) ==
  /\ Found(id)
  /\ map' = SetKey(map, hash, id, MergeDoc(GetKey(map, hash, id), partial))
  /\ UNCHANGED hash

Delete(id) ==
  /\ SlotsOf(map, hash, id) # {}
  /\ map' = DeleteKey(map, hash, id)
  /\ UNCHANGED hash

Next ==
  \/ \E id \in Ids, doc \in Docs : Insert(id, doc) \/ Update(id, doc)
  \/ \E id \in Ids : Delete(id)

Spec == Init /\ [][Next]_vars

------------------------------------------------------------------------------
(* Properties *)

\* What the early exit of Get and Delete rests on: an entry is dib slots behind
\* the slot its hash asks for, and from a slot to the next the dib grows by one
\* at most, so that no key can lie behind an entry nearer to its own slot.
\* Displacement, the shift back of Delete and Rehash all have to keep it.
RobinHood ==
  \A slot \in DOMAIN map.buckets :
    LET e == map.buckets[slot]
        next == map.buckets[(slot + 1) % map.capacity]
    IN  /\ e.dib # -1 => e.dib = (slot - hash[e.key]) % map.capacity
        /\ next.dib <= e.dib + 1

\* Find, which goes over the slots, and Get, which probes, see the same
\* documents: every entry is the one its key is looked up at, and is counted.
EveryEntryFound ==
  /\ \A slot \in ToSet(Occupied(map)) : SlotsOf(map, hash, map.buckets[slot].key) = {slot}
  /\ map.count = Len(All(map))

\* There is always a free slot: Set finds a place for every entry it displaces,
\* and drops none.
Room == 10 * map.count <= 7 * map.capacity

\* The map is a dictionary: what Get answers changes as the calls say, through
\* displacements, shifts and rehashes, and for no other id.
Contents == [id \in {i \in Ids : Found(i)} |-> GetKey(map, hash, id)]

Dict == INSTANCE Dictionary WITH dict <- Contents

IsDictionary == Dict!Spec
==============================================================================
