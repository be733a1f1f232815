----------------------------- MODULE MemDB_proofs -----------------------------
(***************************************************************************)
(* What the hash map of the in-memory mode holds, for any ids, documents,  *)
(* initial capacity and hash.  TableHolds(map, hash, F) says that a table  *)
(* is well formed, as Robin Hood hashing wants it, and that its entries    *)
(* are the pairs of F.  Each call of engine/hashmap.go takes a table that  *)
(* holds a set of pairs to one that holds the set with a pair set or       *)
(* dropped; the calls of the database are then those of a dictionary.      *)
(***************************************************************************)
EXTENDS MemDB, LoopLemmas, SequenceTheorems, FiniteSetTheorems

------------------------------------------------------------------------------
(* Slots *)

\* The slot after x, and the slot k before x, which is also how far x is from slot k.
After(x, C) == IF x + 1 = C THEN 0 ELSE x + 1
Minus(x, k, C) == IF x >= k THEN x - k ELSE x - k + C

\* The arithmetic of the code is that of a ring of slots.
LEMMA Residue ==
  ASSUME NEW C \in Nat \ {0}, NEW a \in Int
  PROVE  a % C \in 0..(C - 1)
OBVIOUS

LEMMA NextSlot ==
  ASSUME NEW C \in Nat \ {0}, NEW x \in 0..(C - 1)
  PROVE  (x + 1) % C = After(x, C) /\ After(x, C) \in 0..(C - 1)
BY DEF After

LEMMA SlotAt ==
  ASSUME NEW C \in Nat \ {0}, NEW p \in 0..(C - 1), NEW i \in 0..C
  PROVE  (p + i) % C = IF p + i < C THEN p + i ELSE (p + i) - C
<1>1. CASE p + i < C
  <2>1. p + i \in 0..(C - 1)
    BY <1>1
  <2> QED
    BY <1>1, <2>1
<1>2. CASE p + i >= C
  <2>1. p + i \in C..(2 * C - 1)
    BY <1>2
  <2> QED
    BY <1>2, <2>1
<1> QED
  BY <1>1, <1>2

LEMMA SlotBack ==
  ASSUME NEW C \in Nat \ {0}, NEW x \in 0..(C - 1), NEW d \in 0..(C - 1)
  PROVE  (x - d) % C = Minus(x, d, C) /\ Minus(x, d, C) \in 0..(C - 1)
BY DEF Minus

LEMMA SlotHash ==
  ASSUME NEW C \in Nat \ {0}, NEW x \in 0..(C - 1), NEW h \in Nat
  PROVE  (x - h) % C = Minus(x, h % C, C)
<1> DEFINE r == h % C
           q == h \div C
<1>1. h = (C * q) + r /\ q \in Int /\ r \in 0..(C - 1)
  OBVIOUS
<1>2. Minus(x, r, C) \in 0..(C - 1)
  BY <1>1 DEF Minus
<1>3. \E k \in Int : x - h = (C * k) + Minus(x, r, C)
  <2>1. CASE x >= r
    <3>1. C * (0 - q) = 0 - (C * q) /\ 0 - q \in Int
      BY <1>1
    <3> HIDE DEF q, r
    <3> QED
      BY <1>1, <2>1, <3>1 DEF Minus
  <2>2. CASE ~(x >= r)
    <3>1. C * (0 - q - 1) = (0 - (C * q)) - C /\ 0 - q - 1 \in Int
      BY <1>1
    <3> HIDE DEF q, r
    <3> QED
      BY <1>1, <2>2, <3>1 DEF Minus
  <2> QED
    BY <2>1, <2>2
<1> HIDE DEF q, r
<1>4. PICK k \in Int : x - h = (C * k) + Minus(x, r, C)
  BY <1>3
<1>5. x - h \in Int
  OBVIOUS
<1>6. \A a \in Int, m \in 0..(C - 1) : a = (C * k) + m => a % C = m
  OBVIOUS
<1> QED
  BY <1>2, <1>4, <1>5, <1>6 DEF r

------------------------------------------------------------------------------
(* Tables *)

Cells == [key : Ids \cup {NoKey}, value : Docs \cup {NoValue}, dib : Int]
Tables(C) == [buckets : [0..(C - 1) -> Cells], capacity : {C}, count : Int]
Pair(e) == <<e.key, e.value>>

\* A slot is empty, or holds an entry as far from the slot it asks for as its dib says.
Placed(b, C, h) ==
  \A x \in 0..(C - 1) :
    IF b[x].dib = -1 THEN b[x] = EmptyEntry
    ELSE /\ b[x].key \in Ids /\ b[x].value \in Docs
         /\ b[x].dib = Minus(x, h[b[x].key] % C, C)

\* From a slot to the next the dib grows by one at most, but behind a hole.
Stepping(b, C, hole) ==
  \A x \in 0..(C - 1) : x # hole => b[After(x, C)].dib <= b[x].dib + 1

\* The entries are the pairs of F, and no key is there twice.
Holding(b, C, F) ==
  /\ \A x, y \in 0..(C - 1) :
       b[x].dib # -1 /\ b[y].dib # -1 /\ b[x].key = b[y].key => x = y
  /\ \A x \in 0..(C - 1) : b[x].dib # -1 => Pair(b[x]) \in F
  /\ \A p \in F : \E x \in 0..(C - 1) : b[x].dib # -1 /\ Pair(b[x]) = p

TableHolds(m, h, F) ==
  /\ m.capacity \in Nat \ {0}
  /\ m \in Tables(m.capacity)
  /\ Placed(m.buckets, m.capacity, h)
  /\ Stepping(m.buckets, m.capacity, m.capacity)
  /\ Holding(m.buckets, m.capacity, F)
  /\ IsFiniteSet(F) /\ m.count = Cardinality(F)

\* The dib of a slot bounds those before it from below: behind an entry with dib d
\* stand, in the d slots before it, entries with at least d - 1, d - 2, ..., 0.
LEMMA Chain ==
  ASSUME NEW C \in Nat \ {0}, NEW b \in [0..(C - 1) -> Cells], Stepping(b, C, C),
         NEW x \in 0..(C - 1), NEW n \in 0..C
  PROVE  b[Minus(x, n, C)].dib >= b[x].dib - n
<1> DEFINE T == {k \in Nat : k <= C => b[Minus(x, k, C)].dib >= b[x].dib - k}
<1>1. \A y \in 0..(C - 1) : b[y].dib \in Int
  BY DEF Cells
<1>2. 0 \in T
  BY <1>1 DEF Minus
<1>3. ASSUME NEW k \in Nat, k \in T
      PROVE  k + 1 \in T
  <2>1. SUFFICES ASSUME k + 1 <= C
                 PROVE  b[Minus(x, k + 1, C)].dib >= b[x].dib - (k + 1)
    OBVIOUS
  <2> DEFINE y == Minus(x, k + 1, C)
  <2>2. y \in 0..(C - 1) /\ After(y, C) = Minus(x, k, C) /\ Minus(x, k, C) \in 0..(C - 1)
    BY <2>1 DEF Minus, After
  <2>3. b[Minus(x, k, C)].dib >= b[x].dib - k
    BY <1>3, <2>1
  <2>4. y # C
    BY <2>2
  <2> HIDE DEF y
  <2>5. b[Minus(x, k, C)].dib <= b[y].dib + 1
    BY <2>2, <2>4 DEF Stepping
  <2> DEFINE low == b[y].dib
             near == b[Minus(x, k, C)].dib
             far == b[x].dib
  <2>6. low \in Int /\ near \in Int /\ far \in Int
    BY <1>1, <2>2
  <2>7. near >= far - k /\ near <= low + 1
    BY <2>3, <2>5
  <2> HIDE DEF low, near, far
  <2>8. low >= far - (k + 1)
    BY <2>6, <2>7
  <2> QED
    BY <2>8 DEF y, low, far
<1>4. T \in SUBSET Nat
  OBVIOUS
<1> HIDE DEF T
<1>5. T = Nat
  BY <1>2, <1>3, <1>4, AllNaturals
<1> QED
  BY <1>5 DEF T

\* The slot an id asks for, and the range of the dibs.
LEMMA Homes ==
  ASSUME NEW C \in Nat \ {0}, NEW h, NEW id \in Ids, h[id] \in Nat
  PROVE  h[id] % C \in 0..(C - 1)
<1>1. h[id] \in Int
  OBVIOUS
<1> QED
  BY <1>1, Residue

LEMMA Dibs ==
  ASSUME NEW C \in Nat \ {0}, NEW b, NEW h, Placed(b, C, h),
         \A id \in Ids : h[id] \in Nat, NEW x \in 0..(C - 1)
  PROVE  b[x].dib \in -1..(C - 1)
<1>1. CASE b[x].dib = -1
  BY <1>1
<1>2. CASE b[x].dib # -1
  <2>1. b[x].key \in Ids /\ b[x].dib = Minus(x, h[b[x].key] % C, C)
    BY <1>2 DEF Placed
  <2>2. h[b[x].key] % C \in 0..(C - 1)
    BY <2>1, Homes
  <2> QED
    BY <2>1, <2>2 DEF Minus
<1> QED
  BY <1>1, <1>2

\* An entry in a slot, in the place of one that is nearer to its own slot or of none.
LEMMA PutPlaced ==
  ASSUME NEW C \in Nat \ {0}, NEW b \in [0..(C - 1) -> Cells], NEW h,
         Placed(b, C, h), Stepping(b, C, C),
         NEW x \in 0..(C - 1), NEW c \in Cells,
         c.key \in Ids, c.value \in Docs, c.dib # -1,
         c.dib = Minus(x, h[c.key] % C, C),
         b[x].dib <= c.dib,
         c.dib <= b[Minus(x, 1, C)].dib + 1
  PROVE  LET b2 == [b EXCEPT ![x] = c]
         IN  /\ b2 \in [0..(C - 1) -> Cells]
             /\ Placed(b2, C, h)
             /\ Stepping(b2, C, C)
<1> DEFINE b2 == [b EXCEPT ![x] = c]
<1>1. /\ b2 \in [0..(C - 1) -> Cells]
      /\ \A y \in 0..(C - 1) : b2[y] = IF y = x THEN c ELSE b[y]
  OBVIOUS
<1>2. \A y \in 0..(C - 1) : b[y].dib \in Int
  BY DEF Cells
<1> HIDE DEF b2
<1>3. Placed(b2, C, h)
  BY <1>1 DEF Placed
<1>4. Stepping(b2, C, C)
  <2> SUFFICES ASSUME NEW y \in 0..(C - 1)
               PROVE  b2[After(y, C)].dib <= b2[y].dib + 1
    BY DEF Stepping
  <2>1. After(y, C) \in 0..(C - 1) /\ c.dib \in Int /\ y # C
    BY DEF After, Cells
  <2>2. b[After(y, C)].dib <= b[y].dib + 1
    BY <2>1 DEF Stepping
  <2>3. CASE y = x
    BY <1>1, <1>2, <2>1, <2>2, <2>3
  <2>4. CASE y # x /\ After(y, C) = x
    <3>1. y = Minus(x, 1, C)
      BY <2>4 DEF After, Minus
    <3> QED
      BY <1>1, <1>2, <2>1, <2>4, <3>1
  <2>5. CASE y # x /\ After(y, C) # x
    BY <1>1, <2>1, <2>2, <2>5
  <2> QED
    BY <2>3, <2>4, <2>5
<1> QED
  BY <1>1, <1>3, <1>4 DEF b2

\* What is held once a slot is given another entry, or none.
Without(F, e) == IF e.dib = -1 THEN F ELSE F \ {Pair(e)}

LEMMA PutHolding ==
  ASSUME NEW C \in Nat \ {0}, NEW b \in [0..(C - 1) -> Cells], NEW F, Holding(b, C, F),
         NEW x \in 0..(C - 1), NEW c \in Cells, c.dib # -1,
         \A y \in 0..(C - 1) : y # x /\ b[y].dib # -1 => b[y].key # c.key
  PROVE  Holding([b EXCEPT ![x] = c], C, Without(F, b[x]) \cup {Pair(c)})
<1> DEFINE b2 == [b EXCEPT ![x] = c]
           F2 == Without(F, b[x]) \cup {Pair(c)}
<1>1. \A y \in 0..(C - 1) : b2[y] = IF y = x THEN c ELSE b[y]
  OBVIOUS
<1>2. \A e1, e2 : Pair(e1) = Pair(e2) => e1.key = e2.key
  BY DEF Pair
<1> HIDE DEF b2
<1>3. \A y, z \in 0..(C - 1) :
        b2[y].dib # -1 /\ b2[z].dib # -1 /\ b2[y].key = b2[z].key => y = z
  BY <1>1 DEF Holding
<1>4. \A y \in 0..(C - 1) : b2[y].dib # -1 => Pair(b2[y]) \in F2
  BY <1>1, <1>2 DEF Holding, Without
<1>5. \A p \in F2 : \E y \in 0..(C - 1) : b2[y].dib # -1 /\ Pair(b2[y]) = p
  BY <1>1 DEF Holding, Without
<1> HIDE DEF F2
<1>6. Holding(b2, C, F2)
  BY <1>3, <1>4, <1>5 DEF Holding
<1> QED
  BY <1>6 DEF b2, F2

LEMMA ClearHolding ==
  ASSUME NEW C \in Nat \ {0}, NEW b \in [0..(C - 1) -> Cells], NEW F, Holding(b, C, F),
         NEW x \in 0..(C - 1)
  PROVE  Holding([b EXCEPT ![x] = EmptyEntry], C, Without(F, b[x]))
<1> DEFINE b2 == [b EXCEPT ![x] = EmptyEntry]
           F2 == Without(F, b[x])
<1>1. \A y \in 0..(C - 1) : b2[y] = IF y = x THEN EmptyEntry ELSE b[y]
  OBVIOUS
<1>2. EmptyEntry.dib = -1
  BY DEF EmptyEntry
<1>3. \A e1, e2 : Pair(e1) = Pair(e2) => e1.key = e2.key
  BY DEF Pair
<1> HIDE DEF b2
<1>4. \A y, z \in 0..(C - 1) :
        b2[y].dib # -1 /\ b2[z].dib # -1 /\ b2[y].key = b2[z].key => y = z
  BY <1>1, <1>2 DEF Holding
<1>5. \A y \in 0..(C - 1) : b2[y].dib # -1 => Pair(b2[y]) \in F2
  BY <1>1, <1>2, <1>3 DEF Holding, Without
<1>6. \A p \in F2 : \E y \in 0..(C - 1) : b2[y].dib # -1 /\ Pair(b2[y]) = p
  BY <1>1 DEF Holding, Without
<1> HIDE DEF F2
<1>7. Holding(b2, C, F2)
  BY <1>4, <1>5, <1>6 DEF Holding
<1> QED
  BY <1>7 DEF b2, F2

------------------------------------------------------------------------------
(* The loop of Set *)

\* An id is in one pair at most.
OneEach(F) == \A p, q \in F : p[1] = q[1] => p = q

\* The variables of the loop of Set.
Loops(C) == [map : Tables(C), cur : Cells, pos : Int, i : Int, done : BOOLEAN]
SlotOf(s, C) == (s.pos + s.i) % C

\* A new key is being placed: after n turns, the table holds F but for the entry in
\* hand, which is not farther from its own slot than the entry before the slot
\* looked at allows; z is a free slot, not reached yet.
Waiting(s, n, z, h, F, C, c) ==
  /\ s.done = FALSE
  /\ s.map.count = c
  /\ Placed(s.map.buckets, C, h)
  /\ Stepping(s.map.buckets, C, C)
  /\ Pair(s.cur) \in F
  /\ Holding(s.map.buckets, C, F \ {Pair(s.cur)})
  /\ s.pos = h[s.cur.key] % C
  /\ s.i \in 0..C
  /\ s.i <= s.map.buckets[Minus(SlotOf(s, C), 1, C)].dib + 1
  /\ s.map.buckets[z].dib = -1
  /\ Minus(z, SlotOf(s, C), C) + n < C

\* The loop has returned.
Filed(s, h, F, C, c) ==
  /\ s.done = TRUE
  /\ s.map.count = c + 1
  /\ Placed(s.map.buckets, C, h)
  /\ Stepping(s.map.buckets, C, C)
  /\ Holding(s.map.buckets, C, F)

LEMMA TurnTyped ==
  ASSUME NEW C \in Nat \ {0}, NEW s \in Loops(C)
  PROVE  /\ SlotOf(s, C) \in 0..(C - 1)
         /\ PlaceTurn(s) \in Loops(C)
<1> DEFINE x == SlotOf(s, C)
           e == s.map.buckets[x]
<1>1. /\ s.map \in Tables(C) /\ s.map.capacity = C /\ s.cur \in Cells
      /\ s.pos \in Int /\ s.i \in Int /\ s.done \in BOOLEAN
      /\ s.map.buckets \in [0..(C - 1) -> Cells] /\ s.map.count \in Int
  BY DEF Loops, Tables
<1>2. x \in 0..(C - 1)
  <2>1. s.pos + s.i \in Int
    BY <1>1
  <2> QED
    BY <2>1, Residue DEF SlotOf
<1>3. e \in Cells /\ e.dib \in Int
  BY <1>1, <1>2 DEF Cells
<1>4. (x - e.dib) % C \in Int
  BY <1>2, <1>3, Residue
<1>5. (s.pos + s.i) % s.map.capacity = x
  BY <1>1 DEF SlotOf
<1> HIDE DEF x, e
<1>6. ASSUME NEW cell \in Cells
      PROVE  Put(s.map, x, cell) \in Tables(C) /\ Put(s.map, x, cell).count = s.map.count
  BY <1>1, <1>2 DEF Tables, Put
<1>7. [s.cur EXCEPT !.dib = s.i] \in Cells /\ [e EXCEPT !.value = s.cur.value] \in Cells
  BY <1>1, <1>3 DEF Cells
<1> DEFINE taken == Put(s.map, x, [s.cur EXCEPT !.dib = s.i])
           set == Put(s.map, x, [e EXCEPT !.value = s.cur.value])
<1>8. taken \in Tables(C) /\ set \in Tables(C) /\ [taken EXCEPT !.count = @ + 1] \in Tables(C)
  <2>1. taken \in Tables(C) /\ set \in Tables(C)
    BY <1>6, <1>7
  <2> HIDE DEF taken, set
  <2>2. \A m \in Tables(C), i \in Int : [m EXCEPT !.count = i] \in Tables(C)
    BY DEF Tables
  <2>3. taken.count \in Int /\ taken.count + 1 \in Int
    BY <2>1 DEF Tables
  <2> QED
    BY <2>1, <2>2, <2>3
<1>9. PlaceTurn(s) =
        IF s.done \/ s.i >= C THEN s
        ELSE IF e.dib = -1 THEN [s EXCEPT !.map = [taken EXCEPT !.count = @ + 1], !.done = TRUE]
        ELSE IF e.key = s.cur.key THEN [s EXCEPT !.map = set, !.done = TRUE]
        ELSE IF e.dib < s.i THEN
          [s EXCEPT !.map = taken, !.cur = e, !.pos = (x - e.dib) % C, !.i = e.dib + 1]
        ELSE [s EXCEPT !.i = @ + 1]
  BY <1>1, <1>5 DEF PlaceTurn, e
<1> HIDE DEF taken, set
<1>10. PlaceTurn(s) \in Loops(C)
  <2>1. [s EXCEPT !.map = [taken EXCEPT !.count = @ + 1], !.done = TRUE] \in Loops(C)
    BY <1>8 DEF Loops
  <2>2. [s EXCEPT !.map = set, !.done = TRUE] \in Loops(C)
    BY <1>8 DEF Loops
  <2>3. [s EXCEPT !.map = taken, !.cur = e, !.pos = (x - e.dib) % C, !.i = e.dib + 1] \in Loops(C)
    <3>1. \A m \in Tables(C), cell \in Cells, p, i \in Int :
            [s EXCEPT !.map = m, !.cur = cell, !.pos = p, !.i = i] \in Loops(C)
      BY DEF Loops
    <3>2. e.dib + 1 \in Int
      BY <1>3
    <3> QED
      BY <1>3, <1>4, <1>8, <3>1, <3>2
  <2>4. [s EXCEPT !.i = @ + 1] \in Loops(C)
    BY <1>1 DEF Loops
  <2> QED
    BY <1>9, <2>1, <2>2, <2>3, <2>4, Zenon
<1> QED
  BY <1>2, <1>10 DEF x

\* An entry in hand is at most as many slots away from its own as there are others.
LEMMA WaitingSlot ==
  ASSUME NEW C \in Nat \ {0}, NEW s \in Loops(C), NEW n \in Nat, NEW z \in 0..(C - 1),
         NEW h, NEW F, NEW c, Waiting(s, n, z, h, F, C, c), \A id \in Ids : h[id] \in Nat,
         s.cur.key \in Ids
  PROVE  /\ s.pos \in 0..(C - 1)
         /\ s.i \in 0..(C - 1)
         /\ Minus(SlotOf(s, C), s.pos, C) = s.i
<1> DEFINE b == s.map.buckets
           x == SlotOf(s, C)
           y == Minus(x, 1, C)
<1>1. b \in [0..(C - 1) -> Cells] /\ \A w \in 0..(C - 1) : b[w].dib \in Int
  BY DEF Loops, Tables, Cells
<1>2. s.pos \in 0..(C - 1)
  <2>1. h[s.cur.key] \in Int /\ s.pos = h[s.cur.key] % C
    BY DEF Waiting
  <2> QED
    BY <2>1, Residue
<1>3. x \in 0..(C - 1) /\ y \in 0..(C - 1)
  <2>1. x \in 0..(C - 1)
    BY TurnTyped
  <2> QED
    BY <2>1 DEF Minus
<1>4. s.i \in 0..C /\ s.i <= b[y].dib + 1 /\ b[z].dib = -1 /\ Stepping(b, C, C) /\ Placed(b, C, h)
  BY DEF Waiting
<1>5. b[y].dib <= C - 1
  <2> HIDE DEF b, y
  <2>1. b[y].dib \in -1..(C - 1)
    BY <1>3, <1>4, Dibs
  <2> QED
    BY <2>1
<1>6. s.i # C
  <2> SUFFICES ASSUME s.i = C
               PROVE  FALSE
    OBVIOUS
  <2> DEFINE k == Minus(y, z, C)
  <2> HIDE DEF b, x, y
  <2>1. k \in 0..(C - 1) /\ Minus(y, k, C) = z
    BY <1>3 DEF k, Minus
  <2> HIDE DEF k
  <2>2. k \in 0..C
    BY <2>1
  <2>3. b[Minus(y, k, C)].dib >= b[y].dib - k
    BY <1>1, <1>3, <1>4, <2>2, Chain
  <2> QED
    BY <1>1, <1>3, <1>4, <2>1, <2>3
<1>7. Minus(x, s.pos, C) = s.i
  <2>1. x = IF s.pos + s.i < C THEN s.pos + s.i ELSE (s.pos + s.i) - C
    BY <1>2, <1>4, SlotAt DEF SlotOf
  <2> HIDE DEF x
  <2> QED
    BY <1>2, <1>4, <1>6, <2>1 DEF Minus
<1> QED
  BY <1>2, <1>4, <1>6, <1>7

\* A turn of the loop of Set, slot by slot.
LEMMA TurnIs ==
  ASSUME NEW C \in Nat \ {0}, NEW s \in Loops(C), s.done = FALSE, s.i < C
  PROVE  LET x == SlotOf(s, C)
             e == s.map.buckets[x]
             taken == Put(s.map, x, [s.cur EXCEPT !.dib = s.i])
         IN  PlaceTurn(s) =
               IF e.dib = -1 THEN [s EXCEPT !.map = [taken EXCEPT !.count = @ + 1], !.done = TRUE]
               ELSE IF e.key = s.cur.key THEN
                 [s EXCEPT !.map = Put(@, x, [e EXCEPT !.value = s.cur.value]), !.done = TRUE]
               ELSE IF e.dib < s.i THEN
                 [s EXCEPT !.map = taken, !.cur = e, !.pos = (x - e.dib) % C, !.i = e.dib + 1]
               ELSE [s EXCEPT !.i = @ + 1]
<1>1. s.map.capacity = C
  BY DEF Loops, Tables
<1>2. (s.pos + s.i) % s.map.capacity = SlotOf(s, C) /\ s.i \in Int
  BY <1>1 DEF SlotOf, Loops
<1>3. ~(s.done \/ s.i >= s.map.capacity)
  BY <1>1, <1>2
<1> QED
  BY <1>1, <1>2, <1>3 DEF PlaceTurn

\* The next slot, of an entry that moves on or of one that has given way.
LEMMA SlotsAhead ==
  ASSUME NEW C \in Nat \ {0}, NEW x \in 0..(C - 1)
  PROVE  /\ \A p, d \in 0..(C - 1) : Minus(x, p, C) = d => (p + (d + 1)) % C = After(x, C)
         /\ \A p \in 0..(C - 1) : Minus(x, Minus(x, p, C), C) = p
         /\ Minus(After(x, C), 1, C) = x
         /\ \A z \in 0..(C - 1) : z # x => Minus(z, After(x, C), C) = Minus(z, x, C) - 1
<1>1. ASSUME NEW p \in 0..(C - 1), NEW d \in 0..(C - 1), Minus(x, p, C) = d
      PROVE  (p + (d + 1)) % C = After(x, C)
  <2>1. d + 1 \in 0..C
    OBVIOUS
  <2>2. (p + (d + 1)) % C = IF p + (d + 1) < C THEN p + (d + 1) ELSE (p + (d + 1)) - C
    BY <2>1, SlotAt
  <2> QED
    BY <1>1, <2>2 DEF Minus, After
<1>2. \A p \in 0..(C - 1) : Minus(x, Minus(x, p, C), C) = p
  BY DEF Minus
<1>3. Minus(After(x, C), 1, C) = x
  BY DEF Minus, After
<1>4. \A z \in 0..(C - 1) : z # x => Minus(z, After(x, C), C) = Minus(z, x, C) - 1
  BY DEF Minus, After
<1> QED
  BY <1>1, <1>2, <1>3, <1>4

\* A turn files the entry in hand in a free slot, or lets it give way, or goes on.
LEMMA TurnWhileWaiting ==
  ASSUME NEW C \in Nat \ {0}, NEW s \in Loops(C), NEW n \in Nat, NEW z \in 0..(C - 1),
         NEW h, NEW F \in SUBSET (Ids \X Docs), NEW c \in Int, OneEach(F),
         \A id \in Ids : h[id] \in Nat,
         Waiting(s, n, z, h, F, C, c)
  PROVE  \/ Waiting(PlaceTurn(s), n + 1, z, h, F, C, c)
         \/ Filed(PlaceTurn(s), h, F, C, c)
<1> DEFINE b == s.map.buckets
           x == SlotOf(s, C)
           e == b[x]
           cut == [s.cur EXCEPT !.dib = s.i]
           b2 == [b EXCEPT ![x] = cut]
           t == PlaceTurn(s)
<1>1. /\ b \in [0..(C - 1) -> Cells] /\ s.cur \in Cells /\ x \in 0..(C - 1)
      /\ s.map \in Tables(C) /\ s.map.count = c /\ s.done = FALSE
  BY TurnTyped DEF Loops, Tables, Waiting
<1>2. s.cur.key \in Ids /\ s.cur.value \in Docs
  BY DEF Waiting, Pair
<1>3. /\ s.pos \in 0..(C - 1) /\ s.i \in 0..(C - 1) /\ Minus(x, s.pos, C) = s.i
  BY <1>2, WaitingSlot
<1>4. /\ Placed(b, C, h) /\ Stepping(b, C, C) /\ Pair(s.cur) \in F
      /\ Holding(b, C, F \ {Pair(s.cur)})
      /\ s.pos = h[s.cur.key] % C
      /\ s.i <= b[Minus(x, 1, C)].dib + 1
      /\ b[z].dib = -1 /\ Minus(z, x, C) + n < C
  BY DEF Waiting
<1>5. /\ cut \in Cells /\ cut.key = s.cur.key /\ cut.value = s.cur.value /\ cut.dib = s.i
      /\ Pair(cut) = Pair(s.cur)
  <2>1. \A cell \in Cells, i \in Int :
          LET m == [cell EXCEPT !.dib = i]
          IN  m \in Cells /\ m.key = cell.key /\ m.value = cell.value /\ m.dib = i
    BY DEF Cells
  <2>2. cut \in Cells /\ cut.key = s.cur.key /\ cut.value = s.cur.value /\ cut.dib = s.i
    BY <1>1, <1>3, <2>1
  <2> HIDE DEF cut
  <2> QED
    BY <2>2 DEF Pair
<1>6. /\ e \in Cells /\ e.dib \in Int
      /\ e.dib # -1 => /\ e.key \in Ids /\ e.dib = Minus(x, h[e.key] % C, C)
                       /\ Pair(e) \in F \ {Pair(s.cur)}
  BY <1>1, <1>4 DEF Placed, Holding, Cells
<1>7. t = IF e.dib = -1 THEN [s EXCEPT !.map = [Put(s.map, x, cut) EXCEPT !.count = @ + 1],
                                       !.done = TRUE]
          ELSE IF e.key = s.cur.key THEN
            [s EXCEPT !.map = Put(@, x, [e EXCEPT !.value = s.cur.value]), !.done = TRUE]
          ELSE IF e.dib < s.i THEN
            [s EXCEPT !.map = Put(s.map, x, cut), !.cur = e,
                      !.pos = (x - e.dib) % C, !.i = e.dib + 1]
          ELSE [s EXCEPT !.i = @ + 1]
  <2>1. s.done = FALSE /\ s.i < C
    BY <1>1, <1>3
  <2> QED
    BY <2>1, TurnIs
<1>8. t \in Loops(C)
  BY TurnTyped
<1>9. Put(s.map, x, cut) = [s.map EXCEPT !.buckets = b2] /\ Put(s.map, x, cut).buckets = b2
  BY <1>1 DEF Put, Tables
<1>10. \A y \in 0..(C - 1) : b[y].dib # -1 => b[y].key # s.cur.key
  <2> SUFFICES ASSUME NEW y \in 0..(C - 1), b[y].dib # -1, b[y].key = s.cur.key
               PROVE  FALSE
    OBVIOUS
  <2>1. Pair(b[y]) \in F /\ Pair(b[y]) # Pair(s.cur)
    BY <1>4 DEF Holding
  <2>2. Pair(b[y])[1] = Pair(s.cur)[1]
    BY DEF Pair
  <2> QED
    BY <1>4, <2>1, <2>2 DEF OneEach
<1> HIDE DEF cut, t, b, x
<1>11. ASSUME e.dib <= s.i
       PROVE  /\ b2 \in [0..(C - 1) -> Cells]
              /\ Placed(b2, C, h) /\ Stepping(b2, C, C)
              /\ Holding(b2, C, Without(F \ {Pair(s.cur)}, e) \cup {Pair(s.cur)})
  <2>1. /\ b2 \in [0..(C - 1) -> Cells]
        /\ Placed(b2, C, h) /\ Stepping(b2, C, C)
    <3>1. cut.dib = Minus(x, h[cut.key] % C, C) /\ cut.dib # -1
      BY <1>3, <1>4, <1>5
    <3>2. b[x].dib <= cut.dib /\ cut.dib <= b[Minus(x, 1, C)].dib + 1
      BY <1>4, <1>5, <1>11
    <3>3. cut.key \in Ids /\ cut.value \in Docs /\ cut \in Cells
      BY <1>2, <1>5
    <3> QED
      BY <1>1, <1>4, <3>1, <3>2, <3>3, PutPlaced
  <2>2. Holding(b2, C, Without(F \ {Pair(s.cur)}, b[x]) \cup {Pair(cut)})
    <3>1. cut.dib # -1 /\ cut \in Cells
      BY <1>3, <1>5
    <3>2. \A y \in 0..(C - 1) : y # x /\ b[y].dib # -1 => b[y].key # cut.key
      BY <1>5, <1>10
    <3> QED
      BY <1>1, <1>4, <3>1, <3>2, PutHolding
  <2> QED
    BY <1>5, <2>1, <2>2
<1>12. CASE e.dib = -1
  <2>1. t = [s EXCEPT !.map = [Put(s.map, x, cut) EXCEPT !.count = @ + 1], !.done = TRUE]
    BY <1>7, <1>12
  <2>2. t.done = TRUE /\ t.map.count = c + 1 /\ t.map.buckets = b2
    BY <1>1, <1>9, <2>1 DEF Loops, Tables
  <2>3. Without(F \ {Pair(s.cur)}, e) \cup {Pair(s.cur)} = F
    BY <1>4, <1>12 DEF Without
  <2>4. Placed(b2, C, h) /\ Stepping(b2, C, C) /\ Holding(b2, C, F)
    <3>1. e.dib <= s.i
      BY <1>3, <1>12
    <3> HIDE DEF b2, e
    <3> QED
      BY <1>11, <2>3, <3>1
  <2> HIDE DEF b2
  <2>5. Filed(t, h, F, C, c)
    BY <2>2, <2>4 DEF Filed
  <2> QED
    BY <2>5 DEF t
<1>13. CASE e.dib # -1 /\ e.dib < s.i
  <2>1. t = [s EXCEPT !.map = Put(s.map, x, cut), !.cur = e,
                      !.pos = (x - e.dib) % C, !.i = e.dib + 1]
    BY <1>1, <1>7, <1>10, <1>13
  <2>2. /\ t.done = FALSE /\ t.map.count = c /\ t.map.buckets = b2
        /\ t.cur = e /\ t.pos = (x - e.dib) % C /\ t.i = e.dib + 1
    BY <1>1, <1>9, <2>1 DEF Loops, Tables
  <2>3. Without(F \ {Pair(s.cur)}, e) \cup {Pair(s.cur)} = F \ {Pair(e)}
    BY <1>4, <1>6, <1>13 DEF Without
  <2>4. e.dib \in 0..(C - 1) /\ h[e.key] % C \in 0..(C - 1) /\ (x - e.dib) % C = h[e.key] % C
    <3>1. h[e.key] % C \in 0..(C - 1)
      <4>1. h[e.key] \in Int
        BY <1>6, <1>13
      <4> QED
        BY <4>1, Residue
    <3>2. e.dib \in 0..(C - 1)
      BY <1>1, <1>6, <1>13, <3>1, SMTT(30) DEF Minus
    <3>3. (x - e.dib) % C = Minus(x, e.dib, C)
      BY <1>1, <3>2, SlotBack
    <3> QED
      BY <1>1, <1>6, <1>13, <3>1, <3>2, <3>3, SlotsAhead
  <2>5. SlotOf(t, C) = After(x, C)
    <3> DEFINE ideal == h[e.key] % C
               k == e.dib
    <3>1. k \in 0..(C - 1) /\ ideal \in 0..(C - 1) /\ Minus(x, ideal, C) = k
      BY <1>6, <1>13, <2>4
    <3>2. SlotOf(t, C) = (ideal + (k + 1)) % C
      BY <2>2, <2>4 DEF SlotOf
    <3> HIDE DEF ideal, k
    <3> QED
      BY <1>1, <3>1, <3>2, SlotsAhead
  <2>6. z # x /\ b2[z] = b[z] /\ b2[x] = cut
    BY <1>1, <1>4, <1>13
  <2>7. Minus(SlotOf(t, C), 1, C) = x /\ Minus(z, SlotOf(t, C), C) = Minus(z, x, C) - 1
    BY <1>1, <2>5, <2>6, SlotsAhead
  <2>8. Minus(z, x, C) \in Int
    BY <1>1 DEF Minus
  <2>9. t.i \in 0..C /\ t.i <= b2[x].dib + 1 /\ Minus(z, SlotOf(t, C), C) + (n + 1) < C
    BY <1>3, <1>4, <1>5, <1>6, <1>13, <2>2, <2>4, <2>6, <2>7, <2>8
  <2>10. /\ Placed(b2, C, h) /\ Stepping(b2, C, C) /\ Holding(b2, C, F \ {Pair(e)})
         /\ Pair(e) \in F /\ b2[z].dib = -1
    <3>1. e.dib <= s.i /\ Pair(e) \in F /\ b2[z].dib = -1
      BY <1>3, <1>4, <1>6, <1>13, <2>6
    <3> HIDE DEF b2, e
    <3> QED
      BY <1>11, <2>3, <3>1
  <2> HIDE DEF b2, e
  <2>11. t.pos = h[t.cur.key] % C
    BY <2>2, <2>4
  <2>12. Waiting(t, n + 1, z, h, F, C, c)
    BY <2>2, <2>7, <2>9, <2>10, <2>11 DEF Waiting
  <2> QED
    BY <2>12 DEF t
<1>14. CASE e.dib # -1 /\ ~(e.dib < s.i)
  <2>1. t = [s EXCEPT !.i = @ + 1]
    BY <1>1, <1>7, <1>10, <1>14
  <2>2. /\ t.done = FALSE /\ t.map = s.map /\ t.cur = s.cur /\ t.pos = s.pos /\ t.i = s.i + 1
    BY <1>1, <2>1 DEF Loops
  <2>3. SlotOf(t, C) = After(x, C)
    <3>1. (s.pos + (s.i + 1)) % C = After(x, C)
      <4>1. \A p, d \in 0..(C - 1) : Minus(x, p, C) = d => (p + (d + 1)) % C = After(x, C)
        BY <1>1, SlotsAhead
      <4> QED
        BY <1>3, <4>1
    <3> QED
      BY <2>2, <3>1 DEF SlotOf
  <2>4. z # x
    BY <1>4, <1>14
  <2>5. Minus(SlotOf(t, C), 1, C) = x /\ Minus(z, SlotOf(t, C), C) = Minus(z, x, C) - 1
    BY <1>1, <2>3, <2>4, SlotsAhead
  <2>6. Minus(z, x, C) \in Int
    BY <1>1 DEF Minus
  <2>7. t.i \in 0..C /\ t.i <= b[x].dib + 1 /\ Minus(z, SlotOf(t, C), C) + (n + 1) < C
    BY <1>3, <1>4, <1>6, <1>14, <2>2, <2>5, <2>6
  <2>8. Waiting(t, n + 1, z, h, F, C, c)
    BY <1>1, <1>4, <2>2, <2>5, <2>7 DEF Waiting, b
  <2> QED
    BY <2>8 DEF t
<1> QED
  BY <1>12, <1>13, <1>14 DEF t

\* What a table holds: documents by id.
LEMMA PairsHeld ==
  ASSUME NEW m, NEW h, NEW F, TableHolds(m, h, F)
  PROVE  F \in SUBSET (Ids \X Docs) /\ OneEach(F)
<1> DEFINE b == m.buckets
           C == m.capacity
<1>1. \A p \in F : \E x \in 0..(C - 1) : b[x].dib # -1 /\ Pair(b[x]) = p
  BY DEF TableHolds, Holding
<1>2. \A x \in 0..(C - 1) : b[x].dib # -1 => b[x].key \in Ids /\ b[x].value \in Docs
  BY DEF TableHolds, Placed
<1>3. \A x, y \in 0..(C - 1) :
        b[x].dib # -1 /\ b[y].dib # -1 /\ b[x].key = b[y].key => x = y
  BY DEF TableHolds, Holding
<1> HIDE DEF b, C
<1>4. \A p \in F : p \in Ids \X Docs
  BY <1>1, <1>2 DEF Pair
<1>5. OneEach(F)
  BY <1>1, <1>3 DEF Pair, OneEach
<1> QED
  BY <1>4, <1>5

\* A table that holds fewer entries than it has slots has a free one.
LEMMA FreeSlot ==
  ASSUME NEW C \in Nat \ {0}, NEW b, NEW F, Holding(b, C, F),
         IsFiniteSet(F), Cardinality(F) < C
  PROVE  \E z \in 0..(C - 1) : b[z].dib = -1
<1> SUFFICES ASSUME \A x \in 0..(C - 1) : b[x].dib # -1
             PROVE  FALSE
  OBVIOUS
<1> DEFINE S == 0..(C - 1)
           f == [x \in S |-> Pair(b[x])]
<1>1. f \in [S -> F] /\ \A x, y \in S : f[x] = f[y] => x = y
  <2>1. \A x, y \in S : Pair(b[x]) = Pair(b[y]) => b[x].key = b[y].key
    BY DEF Pair
  <2> QED
    BY <2>1 DEF Holding
<1>2. f \in Injection(S, F)
  BY <1>1 DEF Injection, IsInjective
<1>3. Cardinality(S) = C
  BY FS_Interval
<1> HIDE DEF S, f
<1>4. Cardinality(S) <= Cardinality(F)
  BY <1>2, FS_Injection
<1>5. Cardinality(F) \in Nat
  BY FS_CardinalityType
<1> QED
  BY <1>3, <1>4, <1>5

\* The states of the loop of Set, from its first to its last.
PlaceRun(turn, C, m, h, e) ==
  /\ turn \in [0..C -> Loops(C)]
  /\ turn[0] = [map |-> m, cur |-> Entry(e.key, e.value),
                pos |-> h[e.key] % C, i |-> 0, done |-> FALSE]
  /\ \A n \in 1..C : turn[n] = PlaceTurn(turn[n - 1])
  /\ Place(m, h, e) = turn[C].map

\* They are there: its states are those that the turns reach.
LEMMA PlaceIs ==
  ASSUME NEW C \in Nat \ {0}, NEW m \in Tables(C), NEW h, NEW e,
         e.key \in Ids, e.value \in Docs, h[e.key] \in Nat
  PROVE  \E turn : PlaceRun(turn, C, m, h, e)
<1> DEFINE X == Loops(C)
           base == [map |-> m, cur |-> Entry(e.key, e.value),
                    pos |-> IdealSlot(m, h, e.key), i |-> 0, done |-> FALSE]
           step == [s \in (1..C) \X X |-> PlaceTurn(s[2])]
           turn == CHOOSE t : t = [n \in 0..m.capacity |->
                      IF n = 0 THEN [map |-> m, cur |-> Entry(e.key, e.value),
                                     pos |-> IdealSlot(m, h, e.key), i |-> 0, done |-> FALSE]
                      ELSE PlaceTurn(t[n - 1])]
<1>1. m.capacity = C /\ IdealSlot(m, h, e.key) = h[e.key] % C /\ h[e.key] % C \in Int
  <2>1. m.capacity = C /\ h[e.key] \in Int
    BY DEF Tables
  <2> QED
    BY <2>1, Residue DEF IdealSlot
<1>2. base \in X
  <2>1. Entry(e.key, e.value) \in Cells
    BY DEF Entry, Cells
  <2> QED
    BY <1>1, <2>1 DEF Loops
<1>3. step \in [(1..C) \X X -> X]
  <2>1. \A s \in X : PlaceTurn(s) \in X
    BY TurnTyped
  <2> QED
    BY <2>1
<1> HIDE DEF base, X
<1>4. PICK f : IsLoop(f, C, X, base, step)
  <2> HIDE DEF step
  <2> QED
    BY <1>2, <1>3, LoopExists
<1>5. ASSUME NEW n \in 1..C
      PROVE  f[n] = PlaceTurn(f[n - 1])
  <2>1. <<n, f[n - 1]>> \in (1..C) \X X
    BY <1>4 DEF IsLoop
  <2> QED
    BY <1>4, <2>1 DEF IsLoop
<1> HIDE DEF step
<1>6. f \in [0..C -> X] /\ f[0] = base
  BY <1>4 DEF IsLoop
<1>7. f = [n \in 0..C |-> IF n = 0 THEN base ELSE PlaceTurn(f[n - 1])]
  <2>1. ASSUME NEW n \in 0..C
        PROVE  f[n] = IF n = 0 THEN base ELSE PlaceTurn(f[n - 1])
    <3>1. n # 0 => n \in 1..C
      OBVIOUS
    <3> QED
      BY <1>5, <1>6, <3>1
  <2>2. f = [n \in 0..C |-> f[n]]
    BY <1>6
  <2> QED
    BY <2>1, <2>2, Zenon
<1>8. turn = [n \in 0..C |-> IF n = 0 THEN base ELSE PlaceTurn(turn[n - 1])]
  BY <1>1, <1>7 DEF base
<1>9. Place(m, h, e) = turn[C].map
  BY <1>1 DEF Place
<1> HIDE DEF turn
<1>10. turn[0] = base /\ \A n \in 1..C : turn[n] = PlaceTurn(turn[n - 1])
  BY <1>8
<1>11. turn \in [0..C -> X]
  <2>1. \A n \in 0..C : turn[n] \in [k \in 0..C |-> X][n]
    <3> DEFINE Good == [k \in 0..C |-> X]
    <3>1. turn[0] \in Good[0]
      BY <1>2, <1>10
    <3>2. ASSUME NEW n \in 1..C, turn[n - 1] \in Good[n - 1]
          PROVE  turn[n] \in Good[n]
      <4>1. n \in 0..C /\ n - 1 \in 0..C
        OBVIOUS
      <4>2. turn[n - 1] \in X
        BY <3>2, <4>1
      <4> QED
        BY <1>10, <4>1, <4>2, TurnTyped DEF X
    <3> HIDE DEF Good
    <3>3. \A n \in 0..C : turn[n] \in Good[n]
      BY <3>1, <3>2, LoopInvariant
    <3> QED
      BY <3>3 DEF Good
  <2>2. \A n \in 0..C : turn[n] \in X
    BY <2>1
  <2> QED
    BY <1>8, <2>2
<1> QED
  BY <1>1, <1>9, <1>10, <1>11 DEF base, X, PlaceRun

\* Set of a new key: the entries that it displaces are filed again, and none is lost.
LEMMA NewPlaced ==
  ASSUME NEW m, NEW h, NEW F, TableHolds(m, h, F), \A id \in Ids : h[id] \in Nat,
         NEW e, e.key \in Ids, e.value \in Docs,
         \A p \in F : p[1] # e.key,
         Cardinality(F) < m.capacity
  PROVE  /\ TableHolds(Place(m, h, e), h, F \cup {Pair(e)})
         /\ Place(m, h, e).capacity = m.capacity
<1> DEFINE C == m.capacity
           N == C
           X == Loops(C)
           b == m.buckets
           c == m.count
           F2 == F \cup {Pair(e)}
           base == [map |-> m, cur |-> Entry(e.key, e.value),
                    pos |-> h[e.key] % C, i |-> 0, done |-> FALSE]
<1>1. /\ C \in Nat \ {0} /\ m \in Tables(C) /\ Placed(b, C, h) /\ Stepping(b, C, C)
      /\ Holding(b, C, F) /\ IsFiniteSet(F) /\ c = Cardinality(F) /\ c \in Nat
      /\ b \in [0..(C - 1) -> Cells]
  BY FS_CardinalityType DEF TableHolds, Tables
<1>2. PICK z \in 0..(C - 1) : b[z].dib = -1
  BY <1>1, FreeSlot
<1>3. F2 \in SUBSET (Ids \X Docs) /\ OneEach(F2)
  BY PairsHeld DEF OneEach, Pair
<1>4. /\ Entry(e.key, e.value) \in Cells /\ Entry(e.key, e.value).key = e.key
      /\ Entry(e.key, e.value).value = e.value /\ Pair(Entry(e.key, e.value)) = Pair(e)
  BY DEF Entry, Cells, Pair
<1>5. h[e.key] % C \in 0..(C - 1)
  BY <1>1, Homes
<1>6. base \in X
  BY <1>1, <1>4, <1>5 DEF Loops
<1>7. PICK turn : /\ turn[0] = base
                  /\ \A n \in 1..C : turn[n] = PlaceTurn(turn[n - 1])
                  /\ Place(m, h, e) = turn[C].map
  <2>1. C \in Nat \ {0} /\ m \in Tables(C) /\ e.key \in Ids /\ e.value \in Docs /\ h[e.key] \in Nat
    BY <1>1
  <2> HIDE DEF C
  <2>2. PICK turn : PlaceRun(turn, C, m, h, e)
    BY <2>1, PlaceIs
  <2> QED
    BY <2>2 DEF PlaceRun
<1> DEFINE Good == [n \in 0..N |-> {s \in X : \/ Waiting(s, n, z, h, F2, C, c)
                                              \/ Filed(s, h, F2, C, c)}]
<1>11. turn[0] \in Good[0]
  <2>1. turn[0] = base /\ 0 \in 0..N
    BY <1>1, <1>7
  <2>2. /\ base.done = FALSE /\ base.map = m /\ base.cur = Entry(e.key, e.value) /\ base.i = 0
        /\ base.pos = h[e.key] % C
    BY <1>5
  <2>3. F2 \ {Pair(base.cur)} = F /\ Pair(base.cur) \in F2
    BY <1>4, <2>2 DEF Pair
  <2>4. SlotOf(base, C) \in 0..(C - 1)
    BY <1>1, <1>6, TurnTyped
  <2> HIDE DEF base, F2, b, c
  <2>5. Minus(SlotOf(base, C), 1, C) \in 0..(C - 1) /\ Minus(z, SlotOf(base, C), C) + 0 < C
    BY <1>1, <2>4 DEF Minus
  <2>6. b[Minus(SlotOf(base, C), 1, C)].dib >= -1
    <3>1. b[Minus(SlotOf(base, C), 1, C)].dib \in -1..(C - 1)
      BY <1>1, <2>5, Dibs
    <3> QED
      BY <1>1, <3>1
  <2>7. b[Minus(SlotOf(base, C), 1, C)].dib \in Int
    BY <1>1, <2>5 DEF Cells
  <2>8. base.i <= b[Minus(SlotOf(base, C), 1, C)].dib + 1 /\ base.i \in 0..C
    BY <1>1, <2>2, <2>6, <2>7
  <2>9. Waiting(base, 0, z, h, F2, C, c)
    BY <1>1, <1>2, <1>4, <2>2, <2>3, <2>5, <2>8 DEF Waiting, b, c
  <2> QED
    BY <1>6, <2>1, <2>9
<1>12. ASSUME NEW n \in 1..N, turn[n - 1] \in Good[n - 1]
       PROVE  turn[n] \in Good[n]
  <2> DEFINE s == turn[n - 1]
  <2>1. n - 1 \in 0..N /\ n \in 0..N /\ n # 0 /\ n - 1 \in Nat /\ (n - 1) + 1 = n
    BY <1>1
  <2>2. turn[n] = PlaceTurn(s)
    BY <1>1, <1>7, <2>1
  <2>3. s \in X /\ (Waiting(s, n - 1, z, h, F2, C, c) \/ Filed(s, h, F2, C, c))
    BY <1>12, <2>1
  <2> HIDE DEF s, F2, c, C
  <2>4. turn[n] \in X
    BY <1>1, <2>2, <2>3, TurnTyped
  <2>5. CASE Waiting(s, n - 1, z, h, F2, C, c)
    <3>1. Waiting(PlaceTurn(s), n, z, h, F2, C, c) \/ Filed(PlaceTurn(s), h, F2, C, c)
      BY <1>1, <1>2, <1>3, <2>1, <2>3, <2>5, TurnWhileWaiting
    <3> QED
      BY <2>1, <2>2, <2>4, <3>1
  <2>6. CASE Filed(s, h, F2, C, c)
    <3>1. PlaceTurn(s) = s
      BY <2>6 DEF PlaceTurn, Filed
    <3> QED
      BY <2>1, <2>2, <2>3, <2>6, <3>1
  <2> QED
    BY <2>3, <2>5, <2>6
<1> HIDE DEF Good
<1>13. turn[N] \in Good[N]
  <2> HIDE DEF C
  <2>1. \A n \in 0..N : turn[n] \in Good[n]
    BY <1>1, <1>11, <1>12, LoopInvariant
  <2> QED
    BY <1>1, <2>1
<1> DEFINE last == turn[N]
<1> HIDE DEF F2, c
<1>14. last \in X /\ Filed(last, h, F2, C, c)
  <2>1. last \in X /\ (Waiting(last, N, z, h, F2, C, c) \/ Filed(last, h, F2, C, c))
    BY <1>1, <1>13 DEF Good
  <2>2. ~Waiting(last, N, z, h, F2, C, c)
    <3>1. SlotOf(last, C) \in 0..(C - 1)
      BY <1>1, <2>1, TurnTyped
    <3>2. ~(Minus(z, SlotOf(last, C), C) + C < C)
      BY <1>1, <3>1 DEF Minus
    <3> QED
      BY <3>2 DEF Waiting
  <2> QED
    BY <2>1, <2>2
<1>15. IsFiniteSet(F2) /\ Cardinality(F2) = c + 1
  <2>1. Pair(e) \notin F
    BY DEF Pair
  <2> QED
    BY <1>1, <2>1, FS_AddElement DEF F2, c
<1>16. last.map \in Tables(C) /\ last.map.capacity = C
  BY <1>14 DEF Loops, Tables
<1> HIDE DEF last, C
<1> QED
  BY <1>1, <1>7, <1>14, <1>15, <1>16 DEF TableHolds, Filed, F2, last, C

\* The slots from the one an entry asks for to the one it is in, d slots behind.
LEMMA SlotsBetween ==
  ASSUME NEW C \in Nat \ {0}, NEW x \in 0..(C - 1), NEW p \in 0..(C - 1),
         NEW i \in 0..(C - 1), i <= Minus(x, p, C)
  PROVE  (p + i) % C = Minus(x, Minus(x, p, C) - i, C)
<1>1. i \in 0..C
  OBVIOUS
<1>2. (p + i) % C = IF p + i < C THEN p + i ELSE (p + i) - C
  BY <1>1, SlotAt
<1> QED
  BY <1>2 DEF Minus

\* Set of a key that is there: nothing is displaced on the way to it.
LEMMA OldPlaced ==
  ASSUME NEW m, NEW h, NEW F, TableHolds(m, h, F), \A id \in Ids : h[id] \in Nat,
         NEW e, e.key \in Ids, e.value \in Docs,
         NEW p \in F, p[1] = e.key
  PROVE  /\ TableHolds(Place(m, h, e), h, (F \ {p}) \cup {Pair(e)})
         /\ Place(m, h, e).capacity = m.capacity
<1> DEFINE C == m.capacity
           N == C
           X == Loops(C)
           b == m.buckets
           cur == Entry(e.key, e.value)
           home == h[e.key] % C
           base == [map |-> m, cur |-> Entry(e.key, e.value),
                    pos |-> h[e.key] % C, i |-> 0, done |-> FALSE]
<1>1. /\ C \in Nat \ {0} /\ m \in Tables(C) /\ Placed(b, C, h) /\ Stepping(b, C, C)
      /\ Holding(b, C, F) /\ IsFiniteSet(F) /\ m.count = Cardinality(F)
      /\ b \in [0..(C - 1) -> Cells]
  BY DEF TableHolds, Tables
<1>2. PICK x \in 0..(C - 1) : b[x].dib # -1 /\ Pair(b[x]) = p
  BY <1>1 DEF Holding
<1> DEFINE d == b[x].dib
           new == [b[x] EXCEPT !.value = e.value]
<1>3. cur \in Cells /\ cur.key = e.key /\ cur.value = e.value
  BY DEF Entry, Cells
<1>4. home \in 0..(C - 1)
  BY <1>1, Homes
<1>5. b[x].key = e.key /\ d \in 0..(C - 1) /\ d = Minus(x, home, C) /\ b[x] \in Cells
  <2>1. b[x].key = e.key
    BY <1>2 DEF Pair
  <2>2. d \in -1..(C - 1)
    BY <1>1, Dibs
  <2>3. d = Minus(x, home, C)
    BY <1>1, <1>2, <2>1 DEF Placed
  <2> QED
    BY <1>1, <1>2, <2>1, <2>2, <2>3
<1>6. base \in X
  BY <1>1, <1>3, <1>4 DEF Loops
<1>7. PICK turn : /\ turn[0] = base
                  /\ \A n \in 1..C : turn[n] = PlaceTurn(turn[n - 1])
                  /\ Place(m, h, e) = turn[C].map
  <2>1. C \in Nat \ {0} /\ m \in Tables(C) /\ e.key \in Ids /\ e.value \in Docs /\ h[e.key] \in Nat
    BY <1>1
  <2> HIDE DEF C
  <2>2. PICK turn : PlaceRun(turn, C, m, h, e)
    BY <2>1, PlaceIs
  <2> QED
    BY <2>2 DEF PlaceRun
<1> DEFINE Good == [n \in 0..N |->
                      {s \in X : /\ n <= d => /\ s.done = FALSE /\ s.map = m /\ s.cur = cur
                                              /\ s.pos = home /\ s.i = n
                                 /\ n > d => s.done = TRUE /\ s.map = Put(m, x, new)}]
<1>11. turn[0] \in Good[0]
  <2>1. turn[0] = base /\ 0 \in 0..N
    BY <1>1, <1>7
  <2>2. /\ base.done = FALSE /\ base.map = m /\ base.cur = cur /\ base.i = 0
        /\ base.pos = home
    BY <1>4
  <2>3. ~(0 > d)
    BY <1>1, <1>5
  <2> HIDE DEF base, cur, home, new, d
  <2> QED
    BY <1>6, <2>1, <2>2, <2>3
<1>12. ASSUME NEW n \in 1..N, turn[n - 1] \in Good[n - 1]
       PROVE  turn[n] \in Good[n]
  <2> DEFINE s == turn[n - 1]
             i == n - 1
  <2>1. i \in 0..N /\ i \in 0..(C - 1) /\ n \in 0..N /\ n # 0 /\ n = i + 1
    BY <1>1
  <2>2. turn[n] = PlaceTurn(s)
    BY <1>1, <1>7, <2>1
  <2>3. /\ s \in X
        /\ i <= d => s.done = FALSE /\ s.map = m /\ s.cur = cur /\ s.pos = home /\ s.i = i
        /\ i > d => s.done = TRUE /\ s.map = Put(m, x, new)
    BY <1>12, <2>1
  <2> HIDE DEF s, i, C
  <2>4. turn[n] \in X
    BY <1>1, <2>2, <2>3, TurnTyped
  <2> HIDE DEF cur, home, new, b
  <2>5. CASE i > d
    <3>1. PlaceTurn(s) = s
      BY <2>3, <2>5 DEF PlaceTurn
    <3>2. n > d /\ ~(n <= d)
      BY <1>1, <1>5, <2>1, <2>5
    <3> QED
      BY <2>1, <2>2, <2>3, <2>5, <3>1, <3>2
  <2>6. CASE i <= d
    <3> DEFINE y == SlotOf(s, C)
    <3>1. y = Minus(x, d - i, C) /\ y \in 0..(C - 1)
      <4>1. y = (home + i) % C
        BY <2>3, <2>6 DEF SlotOf
      <4>2. y \in 0..(C - 1)
        BY <1>1, <2>3, TurnTyped
      <4>3. (home + i) % C = Minus(x, d - i, C)
        BY <1>1, <1>4, <1>5, <2>1, <2>6, SlotsBetween
      <4> QED
        BY <4>1, <4>2, <4>3
    <3>2. s.done = FALSE /\ s.i < C /\ s.map.buckets = b /\ s.cur.key = e.key /\ s.cur.value = e.value
      BY <1>1, <1>3, <2>1, <2>3, <2>6 DEF b
    <3> HIDE DEF y
    <3>3. CASE i = d
      <4>1. y = x
        BY <1>1, <1>5, <3>1, <3>3 DEF Minus
      <4>2. PlaceTurn(s) = [s EXCEPT !.map = Put(@, x, new), !.done = TRUE]
        <5>1. b[y].dib # -1 /\ b[y].key = s.cur.key /\ new = [b[y] EXCEPT !.value = s.cur.value]
          BY <1>2, <1>5, <3>2, <4>1 DEF new
        <5> HIDE DEF d
        <5>2. PlaceTurn(s) = [s EXCEPT !.map = Put(@, y, [b[y] EXCEPT !.value = s.cur.value]),
                                       !.done = TRUE]
          BY <1>1, <2>3, <3>2, <5>1, TurnIs DEF y
        <5> QED
          BY <4>1, <5>1, <5>2
      <4>3. PlaceTurn(s).done = TRUE /\ PlaceTurn(s).map = Put(m, x, new)
        BY <2>3, <2>6, <4>2 DEF Loops
      <4>4. ~(n <= d)
        BY <1>1, <1>5, <2>1, <3>3
      <4> QED
        BY <2>1, <2>2, <2>4, <4>3, <4>4
    <3>4. CASE i < d
      <4>1. y # x
        BY <1>1, <1>5, <2>1, <3>1, <3>4 DEF Minus
      <4>2. b[y].dib >= i
        <5>1. d - i \in 0..C
          BY <1>1, <1>5, <2>1, <3>4
        <5>2. b[y].dib >= d - (d - i)
          BY <1>1, <3>1, <5>1, Chain
        <5> QED
          BY <1>1, <1>5, <2>1, <5>2
      <4>3. b[y].dib \in Int
        BY <1>1, <3>1 DEF Cells
      <4>4. b[y].dib # -1 /\ ~(b[y].dib < i)
        BY <2>1, <4>2, <4>3
      <4>5. b[y].key # e.key
        BY <1>1, <1>2, <1>5, <3>1, <4>1, <4>4 DEF Holding
      <4>6. PlaceTurn(s) = [s EXCEPT !.i = @ + 1]
        BY <1>1, <2>3, <2>6, <3>2, <4>4, <4>5, TurnIs DEF y
      <4>7. /\ PlaceTurn(s).done = FALSE /\ PlaceTurn(s).map = m /\ PlaceTurn(s).cur = cur
            /\ PlaceTurn(s).pos = home /\ PlaceTurn(s).i = n
        BY <2>1, <2>3, <2>6, <4>6 DEF Loops
      <4>8. ~(n > d)
        BY <1>1, <1>5, <2>1, <3>4
      <4> QED
        BY <2>1, <2>2, <2>4, <4>7, <4>8
    <3>5. i = d \/ i < d
      BY <1>5, <2>1, <2>6
    <3> QED
      BY <3>3, <3>4, <3>5, Zenon
  <2>7. i > d \/ i <= d
    BY <1>5, <2>1
  <2> QED
    BY <2>5, <2>6, <2>7, Zenon
<1>13. turn[N] \in Good[N]
  <2> HIDE DEF C, Good
  <2>1. \A n \in 0..N : turn[n] \in Good[n]
    BY <1>1, <1>11, <1>12, LoopInvariant
  <2> QED
    BY <1>1, <2>1
<1>14. Place(m, h, e) = Put(m, x, new)
  <2>1. turn[N].map = Put(m, x, new)
    BY <1>1, <1>5, <1>13
  <2> QED
    BY <1>7, <2>1
<1> HIDE DEF Good
<1> DEFINE b2 == [b EXCEPT ![x] = new]
<1>15. /\ new \in Cells /\ new.key = e.key /\ new.value = e.value /\ new.dib = d
       /\ Pair(new) = Pair(e)
  BY <1>5 DEF Cells, Pair
<1>16. /\ Put(m, x, new) \in Tables(C) /\ Put(m, x, new).capacity = C
       /\ Put(m, x, new).count = m.count /\ Put(m, x, new).buckets = b2
  BY <1>1, <1>2, <1>15 DEF Put, Tables
<1> HIDE DEF new
<1>17. b2 \in [0..(C - 1) -> Cells] /\ Placed(b2, C, h) /\ Stepping(b2, C, C)
  <2>1. d <= b[Minus(x, 1, C)].dib + 1
    <3>1. Minus(x, 1, C) \in 0..(C - 1) /\ After(Minus(x, 1, C), C) = x
      BY <1>1, <1>2 DEF Minus, After
    <3>2. Minus(x, 1, C) # C
      BY <1>1, <3>1
    <3> HIDE DEF C, b
    <3> QED
      BY <1>1, <3>1, <3>2 DEF Stepping
  <2>2. d \in Int /\ d # -1 /\ d <= d
    BY <1>5
  <2> HIDE DEF b, C
  <2> QED
    BY <1>1, <1>2, <1>5, <1>15, <2>1, <2>2, PutPlaced
<1>18. Holding(b2, C, (F \ {p}) \cup {Pair(e)})
  <2> HIDE DEF b, C
  <2>1. \A y \in 0..(C - 1) : y # x /\ b[y].dib # -1 => b[y].key # new.key
    BY <1>1, <1>2, <1>5, <1>15 DEF Holding
  <2>2. Holding(b2, C, Without(F, b[x]) \cup {Pair(new)})
    BY <1>1, <1>2, <1>5, <1>15, <2>1, PutHolding
  <2>3. Without(F, b[x]) = F \ {p}
    BY <1>2 DEF Without
  <2> QED
    BY <1>15, <2>2, <2>3
<1>19. /\ IsFiniteSet((F \ {p}) \cup {Pair(e)})
       /\ Cardinality((F \ {p}) \cup {Pair(e)}) = m.count
  <2>1. IsFiniteSet(F \ {p}) /\ Cardinality(F \ {p}) = Cardinality(F) - 1
    BY <1>1, FS_RemoveElement
  <2>2. Pair(e) \notin F \ {p}
    <3>1. OneEach(F) /\ Pair(e)[1] = p[1]
      BY PairsHeld DEF Pair
    <3> QED
      BY <3>1 DEF OneEach
  <2>3. Cardinality(F) \in Nat
    BY <1>1, FS_CardinalityType
  <2> DEFINE G == F \ {p}
  <2> HIDE DEF G
  <2>4. IsFiniteSet(G) /\ Cardinality(G) = Cardinality(F) - 1 /\ Pair(e) \notin G
    BY <2>1, <2>2 DEF G
  <2>5. IsFiniteSet(G \cup {Pair(e)}) /\ Cardinality(G \cup {Pair(e)}) = Cardinality(G) + 1
    BY <2>4, FS_AddElement
  <2> QED
    BY <1>1, <2>3, <2>4, <2>5 DEF G
<1> HIDE DEF b2, C
<1> QED
  BY <1>1, <1>14, <1>16, <1>17, <1>18, <1>19 DEF TableHolds, C

------------------------------------------------------------------------------
(* Rehash *)

LEMMA PlaceTyped ==
  ASSUME NEW C \in Nat \ {0}, NEW m \in Tables(C), NEW h, NEW e,
         e.key \in Ids, e.value \in Docs, h[e.key] \in Nat
  PROVE  Place(m, h, e) \in Tables(C)
<1>1. PICK turn : PlaceRun(turn, C, m, h, e)
  BY PlaceIs
<1>2. turn[C] \in Loops(C) /\ Place(m, h, e) = turn[C].map
  BY <1>1 DEF PlaceRun
<1> QED
  BY <1>2 DEF Loops

\* The table without entries.
LEMMA EmptyHolds ==
  ASSUME NEW C \in Nat \ {0}, NEW h
  PROVE  TableHolds(EmptyMap(C), h, {}) /\ EmptyMap(C).capacity = C
<1> DEFINE m == EmptyMap(C)
           b == [slot \in 0..(C - 1) |-> EmptyEntry]
<1>1. m.buckets = b /\ m.capacity = C /\ m.count = 0 /\ m \in Tables(C)
  BY DEF EmptyMap, Tables, Cells, EmptyEntry
<1>2. \A x \in 0..(C - 1) : b[x] = EmptyEntry /\ b[x].dib = -1
  BY DEF EmptyEntry
<1>3. \A x \in 0..(C - 1) : After(x, C) \in 0..(C - 1)
  BY DEF After
<1> HIDE DEF m, b
<1>4. Placed(b, C, h) /\ Stepping(b, C, C) /\ Holding(b, C, {})
  BY <1>2, <1>3 DEF Placed, Stepping, Holding
<1>5. IsFiniteSet({}) /\ Cardinality({}) = 0
  BY FS_EmptySet
<1>6. TableHolds(m, h, {})
  BY <1>1, <1>4, <1>5 DEF TableHolds
<1> QED
  BY <1>1, <1>6 DEF m

\* The pairs in the first n slots.
PairsBefore(b, n) == {Pair(b[x]) : x \in {y \in 0..(n - 1) : b[y].dib # -1}}

LEMMA PairsSoFar ==
  ASSUME NEW C \in Nat \ {0}, NEW b, NEW F, Holding(b, C, F)
  PROVE  /\ PairsBefore(b, 0) = {}
         /\ PairsBefore(b, C) = F
         /\ \A n \in 1..C :
              /\ PairsBefore(b, n) = IF b[n - 1].dib = -1 THEN PairsBefore(b, n - 1)
                                     ELSE PairsBefore(b, n - 1) \cup {Pair(b[n - 1])}
              /\ PairsBefore(b, n) \subseteq F
              /\ b[n - 1].dib # -1 => \A p \in PairsBefore(b, n - 1) : p[1] # b[n - 1].key
<1>1. PairsBefore(b, 0) = {}
  <2>1. 0..(0 - 1) = {}
    OBVIOUS
  <2> QED
    BY <2>1 DEF PairsBefore
<1>2. PairsBefore(b, C) = F
  BY DEF PairsBefore, Holding
<1>3. ASSUME NEW n \in 1..C
      PROVE  /\ PairsBefore(b, n) = IF b[n - 1].dib = -1 THEN PairsBefore(b, n - 1)
                                    ELSE PairsBefore(b, n - 1) \cup {Pair(b[n - 1])}
             /\ PairsBefore(b, n) \subseteq F
             /\ b[n - 1].dib # -1 => \A p \in PairsBefore(b, n - 1) : p[1] # b[n - 1].key
  <2>1. 0..(n - 1) = (0..((n - 1) - 1)) \cup {n - 1} /\ n - 1 \notin 0..((n - 1) - 1)
    OBVIOUS
  <2>2. 0..(n - 1) \subseteq 0..(C - 1) /\ n - 1 \in 0..(C - 1)
    OBVIOUS
  <2>3. PairsBefore(b, n) = IF b[n - 1].dib = -1 THEN PairsBefore(b, n - 1)
                            ELSE PairsBefore(b, n - 1) \cup {Pair(b[n - 1])}
    BY <2>1 DEF PairsBefore
  <2>4. PairsBefore(b, n) \subseteq F
    BY <2>2 DEF PairsBefore, Holding
  <2>5. b[n - 1].dib # -1 => \A p \in PairsBefore(b, n - 1) : p[1] # b[n - 1].key
    BY <2>1, <2>2 DEF PairsBefore, Holding, Pair
  <2> QED
    BY <2>3, <2>4, <2>5
<1> QED
  BY <1>1, <1>2, <1>3

\* Rehash: twice the slots, for the same entries.
LEMMA RehashHolds ==
  ASSUME NEW m, NEW h, NEW F, TableHolds(m, h, F), \A id \in Ids : h[id] \in Nat,
         10 * m.count <= 7 * m.capacity
  PROVE  TableHolds(Rehash(m, h), h, F) /\ Rehash(m, h).capacity = 2 * m.capacity
<1> DEFINE C == m.capacity
           D == 2 * C
           X == Tables(D)
           b == m.buckets
           base == EmptyMap(2 * m.capacity)
           step == [s \in (1..C) \X X |-> IF b[s[1] - 1].dib = -1 THEN s[2]
                                          ELSE Place(s[2], h, b[s[1] - 1])]
           moved == CHOOSE f : f = [n \in 0..m.capacity |->
                      IF n = 0 THEN EmptyMap(2 * m.capacity)
                      ELSE IF m.buckets[n - 1].dib = -1 THEN f[n - 1]
                      ELSE Place(f[n - 1], h, m.buckets[n - 1])]
<1>1. /\ C \in Nat \ {0} /\ D \in Nat \ {0} /\ Placed(b, C, h) /\ Holding(b, C, F)
      /\ IsFiniteSet(F) /\ m.count = Cardinality(F) /\ Cardinality(F) \in Nat
  BY FS_CardinalityType DEF TableHolds
<1>2. Cardinality(F) < D
  BY <1>1
<1>3. TableHolds(base, h, {}) /\ base.capacity = D /\ base \in X
  <2> HIDE DEF C
  <2>1. TableHolds(EmptyMap(D), h, {}) /\ EmptyMap(D).capacity = D
    BY <1>1, EmptyHolds
  <2> QED
    BY <2>1 DEF TableHolds, C
<1>4. \A n \in 1..C : b[n - 1].dib # -1 =>
                        b[n - 1].key \in Ids /\ b[n - 1].value \in Docs
  BY <1>1 DEF Placed
<1>5. step \in [(1..C) \X X -> X]
  <2>1. ASSUME NEW n \in 1..C, NEW s \in X, b[n - 1].dib # -1
        PROVE  Place(s, h, b[n - 1]) \in X
    <3> HIDE DEF b, D
    <3> QED
      BY <1>1, <1>4, <2>1, PlaceTyped
  <2> HIDE DEF X, b, C
  <2> QED
    BY <2>1
<1> HIDE DEF base, X, b, C
<1>6. PICK f : IsLoop(f, C, X, base, step)
  <2> HIDE DEF step
  <2> QED
    BY <1>1, <1>3, <1>5, LoopExists
<1>7. ASSUME NEW n \in 1..C
      PROVE  f[n] = IF b[n - 1].dib = -1 THEN f[n - 1] ELSE Place(f[n - 1], h, b[n - 1])
  <2>1. <<n, f[n - 1]>> \in (1..C) \X X
    BY <1>1, <1>6 DEF IsLoop
  <2> QED
    BY <1>6, <2>1 DEF IsLoop
<1> HIDE DEF step
<1>8. f = [n \in 0..C |-> IF n = 0 THEN base
                          ELSE IF b[n - 1].dib = -1 THEN f[n - 1]
                          ELSE Place(f[n - 1], h, b[n - 1])]
  <2>1. f = [n \in 0..C |-> f[n]] /\ f[0] = base
    BY <1>6 DEF IsLoop
  <2>2. ASSUME NEW n \in 0..C
        PROVE  f[n] = IF n = 0 THEN base
                      ELSE IF b[n - 1].dib = -1 THEN f[n - 1]
                      ELSE Place(f[n - 1], h, b[n - 1])
    <3>1. n # 0 => n \in 1..C
      BY <1>1
    <3> QED
      BY <1>7, <2>1, <3>1
  <2> QED
    BY <2>1, <2>2, Zenon
<1>9. moved = [n \in 0..C |-> IF n = 0 THEN base
                              ELSE IF b[n - 1].dib = -1 THEN moved[n - 1]
                              ELSE Place(moved[n - 1], h, b[n - 1])]
  BY <1>8 DEF base, b, C
<1>10. Rehash(m, h) = moved[C]
  BY DEF Rehash, C
<1> HIDE DEF moved
<1> DEFINE P(n) == PairsBefore(b, n)
           Good == [n \in 0..C |-> {s \in X : s.capacity = D /\ TableHolds(s, h, PairsBefore(b, n))}]
<1>11. moved[0] \in Good[0]
  <2>1. moved[0] = base /\ 0 \in 0..C
    BY <1>1, <1>9
  <2>2. PairsBefore(b, 0) = {}
    BY <1>1, PairsSoFar
  <2> QED
    BY <1>3, <2>1, <2>2
<1>12. ASSUME NEW n \in 1..C, moved[n - 1] \in Good[n - 1]
       PROVE  moved[n] \in Good[n]
  <2> DEFINE s == moved[n - 1]
             G == PairsBefore(b, n - 1)
             e == b[n - 1]
  <2>1. n \in 0..C /\ n - 1 \in 0..C /\ n # 0
    BY <1>1
  <2>2. s \in X /\ s.capacity = D /\ TableHolds(s, h, G)
    BY <1>12, <2>1
  <2>3. moved[n] = IF e.dib = -1 THEN s ELSE Place(s, h, e)
    BY <1>9, <2>1
  <2>4. /\ PairsBefore(b, n) = IF e.dib = -1 THEN G ELSE G \cup {Pair(e)}
        /\ PairsBefore(b, n) \subseteq F
        /\ e.dib # -1 => \A p \in G : p[1] # e.key
    BY <1>1, PairsSoFar
  <2> HIDE DEF s, e, G, D
  <2>5. CASE e.dib = -1
    BY <2>1, <2>2, <2>3, <2>4, <2>5
  <2>6. CASE e.dib # -1
    <3>1. e.key \in Ids /\ e.value \in Docs
      BY <1>4, <2>6 DEF e
    <3>2. Cardinality(G) < D
      <4>1. G \subseteq F
        BY <2>4, <2>6
      <4>2. IsFiniteSet(G) /\ Cardinality(G) <= Cardinality(F) /\ Cardinality(G) \in Nat
        BY <1>1, <4>1, FS_Subset, FS_CardinalityType
      <4> QED
        BY <1>1, <1>2, <4>2
    <3>3. TableHolds(Place(s, h, e), h, G \cup {Pair(e)}) /\ Place(s, h, e).capacity = D
      BY <2>2, <2>4, <2>6, <3>1, <3>2, NewPlaced
    <3>4. Place(s, h, e) \in X
      BY <1>1, <2>2, <3>1, PlaceTyped DEF X
    <3> QED
      BY <2>1, <2>3, <2>4, <2>6, <3>3, <3>4
  <2> QED
    BY <2>5, <2>6
<1>13. moved[C] \in Good[C]
  <2> HIDE DEF Good
  <2>1. \A n \in 0..C : moved[n] \in Good[n]
    BY <1>1, <1>11, <1>12, LoopInvariant
  <2> QED
    BY <1>1, <2>1
<1>14. moved[C].capacity = D /\ TableHolds(moved[C], h, PairsBefore(b, C))
  BY <1>1, <1>13
<1>15. PairsBefore(b, C) = F
  BY <1>1, PairsSoFar
<1> QED
  BY <1>10, <1>14, <1>15 DEF C

\* The Set of rehash would not rehash again: when the entry in slot n is set, after
\* those before it, the new table is not overloaded.
LEMMA RehashedOnce ==
  ASSUME NEW m, NEW h, NEW F, TableHolds(m, h, F), 10 * m.count <= 7 * m.capacity,
         NEW n \in 1..m.capacity, m.buckets[n - 1].dib # -1,
         NEW s, TableHolds(s, h, PairsBefore(m.buckets, n - 1)),
         s.capacity = 2 * m.capacity
  PROVE  ~Overloaded(s)
<1> DEFINE C == m.capacity
           b == m.buckets
           G == PairsBefore(b, n - 1)
           p == Pair(b[n - 1])
<1>1. /\ C \in Nat \ {0} /\ Holding(b, C, F) /\ IsFiniteSet(F)
      /\ m.count = Cardinality(F) /\ m.count \in Nat
      /\ IsFiniteSet(G) /\ s.count = Cardinality(G) /\ s.count \in Nat
  BY FS_CardinalityType DEF TableHolds
<1>2. /\ PairsBefore(b, n) = G \cup {p} /\ PairsBefore(b, n) \subseteq F
      /\ \A q \in G : q[1] # b[n - 1].key
  <2> HIDE DEF b, C
  <2> QED
    BY <1>1, PairsSoFar DEF b, C
<1>3. p \notin G
  BY <1>2 DEF Pair
<1> HIDE DEF G, p
<1>4. Cardinality(G \cup {p}) = s.count + 1 /\ IsFiniteSet(G \cup {p})
  BY <1>1, <1>3, FS_AddElement
<1>5. Cardinality(G \cup {p}) <= Cardinality(F)
  BY <1>1, <1>2, FS_Subset
<1>6. s.count + 1 <= m.count
  BY <1>1, <1>4, <1>5
<1> QED
  BY <1>1, <1>6 DEF Overloaded

------------------------------------------------------------------------------
(* Set *)

\* What a table that holds F holds once id is set to v.
SetPairs(F, id, v) == {p \in F : p[1] # id} \cup {<<id, v>>}

LEMMA PlaceHolds ==
  ASSUME NEW m, NEW h, NEW F, TableHolds(m, h, F), \A id \in Ids : h[id] \in Nat,
         NEW e, e.key \in Ids, e.value \in Docs,
         m.count < m.capacity
  PROVE  /\ TableHolds(Place(m, h, e), h, SetPairs(F, e.key, e.value))
         /\ Place(m, h, e).capacity = m.capacity
         /\ Place(m, h, e).count <= m.count + 1
<1> DEFINE R == Place(m, h, e)
           G == SetPairs(F, e.key, e.value)
<1>1. /\ m.count = Cardinality(F) /\ IsFiniteSet(F) /\ Cardinality(F) \in Nat
      /\ F \in SUBSET (Ids \X Docs) /\ OneEach(F)
  BY PairsHeld, FS_CardinalityType DEF TableHolds
<1>2. TableHolds(R, h, G) /\ R.capacity = m.capacity
  <2>1. CASE \A p \in F : p[1] # e.key
    <3>1. G = F \cup {Pair(e)}
      BY <2>1 DEF SetPairs, Pair
    <3> QED
      BY <1>1, <2>1, <3>1, NewPlaced
  <2>2. CASE ~(\A p \in F : p[1] # e.key)
    <3>1. PICK p \in F : p[1] = e.key
      BY <2>2
    <3>2. G = (F \ {p}) \cup {Pair(e)}
      BY <1>1, <3>1 DEF SetPairs, Pair, OneEach
    <3> QED
      BY <3>1, <3>2, OldPlaced
  <2> QED
    BY <2>1, <2>2
<1>3. R.count <= m.count + 1
  <2> DEFINE H == {p \in F : p[1] # e.key}
             q == <<e.key, e.value>>
  <2>1. H \subseteq F /\ G = H \cup {q}
    BY DEF SetPairs
  <2> HIDE DEF H, G, q
  <2>2. IsFiniteSet(H) /\ Cardinality(H) <= Cardinality(F) /\ Cardinality(H) \in Nat
    BY <1>1, <2>1, FS_Subset, FS_CardinalityType
  <2>3. Cardinality(G) = IF q \in H THEN Cardinality(H) ELSE Cardinality(H) + 1
    BY <2>1, <2>2, FS_AddElement
  <2>4. R.count = Cardinality(G)
    BY <1>2 DEF TableHolds
  <2> QED
    BY <1>1, <2>2, <2>3, <2>4
<1> QED
  BY <1>2, <1>3

\* Set: the rehash comes before there is no room.
LEMMA SetKeyHolds ==
  ASSUME NEW m, NEW h, NEW F, TableHolds(m, h, F), \A i \in Ids : h[i] \in Nat,
         NEW id \in Ids, NEW v \in Docs,
         10 * m.count <= 7 * m.capacity
  PROVE  LET R == SetKey(m, h, id, v)
         IN  /\ TableHolds(R, h, SetPairs(F, id, v))
             /\ 10 * R.count <= 7 * R.capacity
             /\ R.capacity \in {m.capacity, 2 * m.capacity}
<1> DEFINE big == IF Overloaded(m) THEN Rehash(m, h) ELSE m
           R == SetKey(m, h, id, v)
           e == Entry(id, v)
<1>1. m.count = Cardinality(F) /\ m.count \in Nat /\ m.capacity \in Nat \ {0}
  BY FS_CardinalityType DEF TableHolds
<1>2. e.key = id /\ e.value = v
  BY DEF Entry
<1>3. R = Place(big, h, e)
  BY DEF SetKey
<1>4. /\ TableHolds(big, h, F) /\ big.capacity \in {m.capacity, 2 * m.capacity}
      /\ big.count = m.count /\ 10 * (big.count + 1) <= 7 * big.capacity
  <2>1. CASE Overloaded(m)
    <3>1. big = Rehash(m, h)
      BY <2>1
    <3>2. TableHolds(big, h, F) /\ big.capacity = 2 * m.capacity
      BY <3>1, RehashHolds
    <3>3. big.count = m.count
      BY <1>1, <3>2 DEF TableHolds
    <3> QED
      BY <1>1, <3>2, <3>3
  <2>2. CASE ~Overloaded(m)
    BY <1>1, <2>2 DEF Overloaded
  <2> QED
    BY <2>1, <2>2
<1> HIDE DEF big, R, e
<1>5. big.count < big.capacity
  BY <1>1, <1>4
<1>6. /\ TableHolds(R, h, SetPairs(F, e.key, e.value)) /\ R.capacity = big.capacity
      /\ R.count <= big.count + 1
  BY <1>2, <1>3, <1>4, <1>5, PlaceHolds
<1>7. R.count \in Nat
  BY <1>6, FS_CardinalityType DEF TableHolds
<1>8. 10 * R.count <= 7 * R.capacity
  BY <1>1, <1>4, <1>6, <1>7
<1> QED
  BY <1>2, <1>4, <1>6, <1>8 DEF R

------------------------------------------------------------------------------
(* Get *)

\* The probe of Get and Delete meets an id where it is, and nowhere else.
LEMMA SlotsFound ==
  ASSUME NEW m, NEW h, NEW F, TableHolds(m, h, F), \A i \in Ids : h[i] \in Nat,
         NEW id \in Ids
  PROVE  SlotsOf(m, h, id) =
           {x \in 0..(m.capacity - 1) : m.buckets[x].dib # -1 /\ m.buckets[x].key = id}
<1> DEFINE C == m.capacity
           b == m.buckets
           home == h[id] % C
           S == {x \in 0..(C - 1) : b[x].dib # -1 /\ b[x].key = id}
<1>1. /\ C \in Nat \ {0} /\ Placed(b, C, h) /\ Stepping(b, C, C) /\ Holding(b, C, F)
      /\ b \in [0..(C - 1) -> Cells] /\ home \in 0..(C - 1)
  BY Homes DEF TableHolds, Tables
<1>2. SlotsOf(m, h, id) =
        {(home + i) % C : i \in {n \in 0..(C - 1) : /\ b[(home + n) % C].key = id
                                                   /\ \A j \in 0..n : b[(home + j) % C].dib >= j}}
  BY DEF SlotsOf, IdealSlot
<1> HIDE DEF b, C, home
<1>3. \A j \in 0..(C - 1) : (home + j) % C \in 0..(C - 1)
  <2>1. \A j \in 0..(C - 1) : home + j \in Int
    BY <1>1
  <2> QED
    BY <1>1, <2>1, Residue
<1>4. ASSUME NEW y \in SlotsOf(m, h, id)
      PROVE  y \in S
  <2>1. PICK n \in 0..(C - 1) : /\ y = (home + n) % C /\ b[(home + n) % C].key = id
                                /\ \A j \in 0..n : b[(home + j) % C].dib >= j
    BY <1>2
  <2>2. y \in 0..(C - 1) /\ b[y].key = id
    BY <1>3, <2>1
  <2>3. b[y].dib >= n /\ n >= 0 /\ b[y].dib \in Int
    <3>1. n \in 0..n
      BY <1>1
    <3> QED
      BY <1>1, <2>1, <2>2, <3>1 DEF Cells
  <2>4. b[y].dib # -1
    BY <1>1, <2>3
  <2> QED
    BY <2>2, <2>4
<1>5. ASSUME NEW x \in S
      PROVE  x \in SlotsOf(m, h, id)
  <2> DEFINE d == b[x].dib
  <2>1. x \in 0..(C - 1) /\ d # -1 /\ b[x].key = id
    OBVIOUS
  <2>2. d = Minus(x, home, C) /\ d \in -1..(C - 1)
    <3>1. d = Minus(x, home, C)
      BY <1>1, <2>1 DEF Placed, home
    <3>2. d \in -1..(C - 1)
      BY <1>1, <2>1, Dibs
    <3> QED
      BY <3>1, <3>2
  <2> HIDE DEF d
  <2>3. d \in 0..(C - 1) /\ Minus(x, d - d, C) = x
    BY <1>1, <2>1, <2>2 DEF Minus
  <2>4. ASSUME NEW j \in 0..d
        PROVE  (home + j) % C = Minus(x, d - j, C) /\ b[(home + j) % C].dib >= j
    <3>1. j \in 0..(C - 1) /\ j <= Minus(x, home, C) /\ d - j \in 0..C
      BY <1>1, <2>2, <2>3
    <3>2. (home + j) % C = Minus(x, Minus(x, home, C) - j, C)
      BY <1>1, <2>1, <3>1, SlotsBetween
    <3>3. b[Minus(x, d - j, C)].dib >= b[x].dib - (d - j)
      BY <1>1, <2>1, <3>1, Chain
    <3>4. b[x].dib - (d - j) = j
      BY <1>1, <2>3 DEF d
    <3> QED
      BY <2>2, <3>2, <3>3, <3>4
  <2>5. (home + d) % C = x
    <3>1. d \in 0..d
      BY <2>3
    <3> QED
      BY <2>3, <2>4, <3>1
  <2> QED
    BY <1>2, <2>1, <2>3, <2>4, <2>5
<1>6. SlotsOf(m, h, id) = S
  BY <1>4, <1>5
<1> QED
  BY <1>6 DEF S, b, C

\* Get answers what the table holds.
LEMMA GetFinds ==
  ASSUME NEW m, NEW h, NEW F, TableHolds(m, h, F), \A i \in Ids : h[i] \in Nat,
         NEW id \in Ids
  PROVE  /\ SlotsOf(m, h, id) # {} <=> \E p \in F : p[1] = id
         /\ \A p \in F : p[1] = id => GetKey(m, h, id) = p[2]
         /\ (\A p \in F : p[1] # id) => GetKey(m, h, id) = NoValue
<1> DEFINE C == m.capacity
           b == m.buckets
           S == SlotsOf(m, h, id)
<1>1. S = {x \in 0..(C - 1) : b[x].dib # -1 /\ b[x].key = id}
  BY SlotsFound
<1>2. Holding(b, C, F)
  BY DEF TableHolds
<1> HIDE DEF b, C
<1>3. ASSUME NEW p \in F, p[1] = id
      PROVE  \E x \in S : S = {x} /\ b[x].value = p[2]
  <2>1. PICK x \in 0..(C - 1) : b[x].dib # -1 /\ Pair(b[x]) = p
    BY <1>2 DEF Holding
  <2>2. b[x].key = id /\ b[x].value = p[2]
    BY <1>3, <2>1 DEF Pair
  <2>3. x \in S /\ \A y \in S : y = x
    BY <1>1, <1>2, <2>1, <2>2 DEF Holding
  <2> HIDE DEF S
  <2> QED
    BY <2>2, <2>3
<1>4. ASSUME NEW x \in S
      PROVE  \E p \in F : p[1] = id
  BY <1>1, <1>2 DEF Holding, Pair
<1>5. GetKey(m, h, id) = IF S = {} THEN NoValue ELSE b[CHOOSE slot \in S : TRUE].value
  BY DEF GetKey, b
<1> HIDE DEF S
<1> QED
  BY <1>3, <1>4, <1>5 DEF S

------------------------------------------------------------------------------
(* Delete *)

\* The variables of the loop of Delete.
Shifts(C) == [map : Tables(C), slot : 0..(C - 1)]

\* An entry moves back by one, into the slot before its own.
LEMMA ShiftIs ==
  ASSUME NEW C \in Nat \ {0}, NEW s \in Shifts(C)
  PROVE  LET next == After(s.slot, C)
             e == s.map.buckets[next]
             b2 == [[s.map.buckets EXCEPT ![s.slot] = [e EXCEPT !.dib = @ - 1]]
                       EXCEPT ![next] = EmptyEntry]
         IN  /\ next \in 0..(C - 1)
             /\ ShiftTurn(s) \in Shifts(C)
             /\ e.dib <= 0 => ShiftTurn(s) = s
             /\ ~(e.dib <= 0) => /\ ShiftTurn(s).slot = next
                                 /\ ShiftTurn(s).map.buckets = b2
                                 /\ ShiftTurn(s).map.count = s.map.count
<1> DEFINE next == After(s.slot, C)
           e == s.map.buckets[next]
           back == [e EXCEPT !.dib = @ - 1]
           b2 == [[s.map.buckets EXCEPT ![s.slot] = back] EXCEPT ![next] = EmptyEntry]
           t == [map |-> Put(Put(s.map, s.slot, back), next, EmptyEntry), slot |-> next]
<1>1. /\ s.map \in Tables(C) /\ s.map.capacity = C /\ s.slot \in 0..(C - 1)
      /\ s.map.buckets \in [0..(C - 1) -> Cells] /\ s.map.count \in Int
  BY DEF Shifts, Tables
<1>2. next \in 0..(C - 1) /\ (s.slot + 1) % s.map.capacity = next
  BY <1>1, NextSlot
<1>3. ShiftTurn(s) = IF e.dib <= 0 THEN s ELSE t
  BY <1>2 DEF ShiftTurn
<1> HIDE DEF next
<1>4. e \in Cells /\ back \in Cells /\ EmptyEntry \in Cells
  <2>1. \A cell \in Cells : [cell EXCEPT !.dib = @ - 1] \in Cells
    BY DEF Cells
  <2>2. e \in Cells /\ EmptyEntry \in Cells
    BY <1>1, <1>2, SMTT(30) DEF Cells, EmptyEntry
  <2> HIDE DEF e
  <2> QED
    BY <2>1, <2>2
<1> HIDE DEF e, back
<1>5. \A m \in Tables(C), x \in 0..(C - 1), cell \in Cells :
        /\ Put(m, x, cell) \in Tables(C)
        /\ Put(m, x, cell).buckets = [m.buckets EXCEPT ![x] = cell]
        /\ Put(m, x, cell).count = m.count
  BY DEF Put, Tables
<1> DEFINE m1 == Put(s.map, s.slot, back)
<1>6. /\ m1 \in Tables(C) /\ m1.buckets = [s.map.buckets EXCEPT ![s.slot] = back]
      /\ m1.count = s.map.count
  BY <1>1, <1>4, <1>5
<1> HIDE DEF m1
<1>7. /\ Put(m1, next, EmptyEntry) \in Tables(C)
      /\ Put(m1, next, EmptyEntry).buckets = b2
      /\ Put(m1, next, EmptyEntry).count = s.map.count
  BY <1>2, <1>4, <1>5, <1>6
<1>8. t \in Shifts(C) /\ t.slot = next /\ t.map.buckets = b2 /\ t.map.count = s.map.count
  BY <1>2, <1>7 DEF Shifts, m1
<1> HIDE DEF t
<1>9. /\ ShiftTurn(s) \in Shifts(C)
      /\ e.dib <= 0 => ShiftTurn(s) = s
      /\ ~(e.dib <= 0) => ShiftTurn(s) = t
  BY <1>3, <1>8
<1> QED
  BY <1>2, <1>8, <1>9 DEF e, back, next

\* The loop of Delete is there.
LEMMA ShiftBackIs ==
  ASSUME NEW C \in Nat \ {0}, NEW m \in Tables(C), NEW x \in 0..(C - 1)
  PROVE  \E turn : /\ turn[0] = [map |-> m, slot |-> x]
                   /\ \A n \in 1..C : turn[n] = ShiftTurn(turn[n - 1])
                   /\ ShiftBack(m, x) = turn[C].map
<1> DEFINE X == Shifts(C)
           base == [map |-> m, slot |-> x]
           step == [s \in (1..C) \X X |-> ShiftTurn(s[2])]
           turn == CHOOSE t : t = [n \in 0..m.capacity |->
                      IF n = 0 THEN [map |-> m, slot |-> x] ELSE ShiftTurn(t[n - 1])]
<1>1. m.capacity = C /\ base \in X
  BY DEF Tables, Shifts
<1>2. step \in [(1..C) \X X -> X]
  <2>1. \A s \in X : ShiftTurn(s) \in X
    BY ShiftIs
  <2> QED
    BY <2>1
<1> HIDE DEF base, X
<1>3. PICK f : IsLoop(f, C, X, base, step)
  <2> HIDE DEF step
  <2> QED
    BY <1>1, <1>2, LoopExists
<1>4. ASSUME NEW n \in 1..C
      PROVE  f[n] = ShiftTurn(f[n - 1])
  <2>1. <<n, f[n - 1]>> \in (1..C) \X X
    BY <1>3 DEF IsLoop
  <2> QED
    BY <1>3, <2>1 DEF IsLoop
<1> HIDE DEF step
<1>5. f \in [0..C -> X] /\ f[0] = base
  BY <1>3 DEF IsLoop
<1>6. f = [n \in 0..C |-> IF n = 0 THEN base ELSE ShiftTurn(f[n - 1])]
  <2>1. ASSUME NEW n \in 0..C
        PROVE  f[n] = IF n = 0 THEN base ELSE ShiftTurn(f[n - 1])
    <3>1. n # 0 => n \in 1..C
      OBVIOUS
    <3> QED
      BY <1>4, <1>5, <3>1
  <2>2. f = [n \in 0..C |-> f[n]]
    BY <1>5
  <2> QED
    BY <2>1, <2>2, Zenon
<1>7. turn = [n \in 0..C |-> IF n = 0 THEN base ELSE ShiftTurn(turn[n - 1])]
  BY <1>1, <1>6 DEF base
<1>8. ShiftBack(m, x) = turn[C].map
  BY <1>1 DEF ShiftBack
<1> HIDE DEF turn
<1>9. turn[0] = base /\ \A n \in 1..C : turn[n] = ShiftTurn(turn[n - 1])
  BY <1>7
<1> QED
  BY <1>8, <1>9 DEF base

\* A table with a hole: it holds G, but from the slot before the hole to the one behind
\* it the dib may grow by two.  z is another free slot.
Hollow(s, z, h, G, C, c) ==
  LET b == s.map.buckets
  IN  /\ s.map.count = c
      /\ Placed(b, C, h)
      /\ Stepping(b, C, s.slot)
      /\ b[After(s.slot, C)].dib <= b[Minus(s.slot, 1, C)].dib + 2
      /\ Holding(b, C, G)
      /\ b[s.slot] = EmptyEntry
      /\ z # s.slot /\ b[z].dib = -1

\* The loop is over, or the hole is farther ahead of z than turns are left.
Closing(s, n, z, C) ==
  \/ s.map.buckets[After(s.slot, C)].dib <= 0
  \/ Minus(z, s.slot, C) + n < C

\* The slots around a hole.
LEMMA SlotsAround ==
  ASSUME NEW C \in Nat \ {0}, NEW x \in 0..(C - 1)
  PROVE  /\ After(x, C) \in 0..(C - 1) /\ Minus(x, 1, C) \in 0..(C - 1)
         /\ Minus(After(x, C), 1, C) = x /\ After(Minus(x, 1, C), C) = x
         /\ \A y \in 0..(C - 1) : After(y, C) = x => y = Minus(x, 1, C)
         /\ \A y \in 0..(C - 1) : After(y, C) = After(x, C) => y = x
         /\ \A k \in 0..(C - 1) : Minus(After(x, C), k, C) > 0 =>
                                    Minus(x, k, C) = Minus(After(x, C), k, C) - 1
BY DEF After, Minus

LEMMA ShiftKeeps ==
  ASSUME NEW C \in Nat \ {0}, NEW s \in Shifts(C), NEW n \in Nat, NEW z \in 0..(C - 1),
         NEW h, \A i \in Ids : h[i] \in Nat, NEW G, NEW c,
         Hollow(s, z, h, G, C, c), Closing(s, n, z, C)
  PROVE  Hollow(ShiftTurn(s), z, h, G, C, c) /\ Closing(ShiftTurn(s), n + 1, z, C)
<1> DEFINE b == s.map.buckets
           x == s.slot
           next == After(x, C)
           prev == Minus(x, 1, C)
           e == b[next]
           back == [e EXCEPT !.dib = @ - 1]
           b2 == [[b EXCEPT ![x] = back] EXCEPT ![next] = EmptyEntry]
           t == ShiftTurn(s)
<1>1. /\ b \in [0..(C - 1) -> Cells] /\ x \in 0..(C - 1)
      /\ next \in 0..(C - 1) /\ prev \in 0..(C - 1)
  <2>1. b \in [0..(C - 1) -> Cells] /\ x \in 0..(C - 1)
    BY DEF Shifts, Tables
  <2> QED
    BY <2>1, SlotsAround
<1>2. /\ s.map.count = c /\ Placed(b, C, h) /\ Stepping(b, C, x) /\ e.dib <= b[prev].dib + 2
      /\ Holding(b, C, G) /\ b[x] = EmptyEntry /\ z # x /\ b[z].dib = -1
  BY DEF Hollow
<1>3. CASE e.dib <= 0
  <2>1. t = s
    BY <1>3, ShiftIs
  <2> QED
    BY <1>3, <2>1 DEF Closing
<1>4. CASE ~(e.dib <= 0)
  <2>1. t.slot = next /\ t.map.buckets = b2 /\ t.map.count = c
    BY <1>2, <1>4, ShiftIs
  <2>2. \A y \in 0..(C - 1) : b[y].dib \in Int
    BY <1>1 DEF Cells
  <2>3. /\ e \in Cells /\ e.dib \in Int /\ e.dib > 0 /\ e.key \in Ids /\ e.value \in Docs
        /\ h[e.key] % C \in 0..(C - 1) /\ e.dib = Minus(next, h[e.key] % C, C)
    <3>1. e \in Cells /\ e.dib \in Int /\ e.dib > 0
      BY <1>1, <1>4, <2>2
    <3> HIDE DEF b, next
    <3>2. b[next].dib # -1
      BY <3>1
    <3>3. e.key \in Ids /\ e.value \in Docs /\ e.dib = Minus(next, h[e.key] % C, C)
      BY <1>1, <1>2, <3>2 DEF Placed
    <3>4. h[e.key] % C \in 0..(C - 1)
      BY <3>3, Homes
    <3> QED
      BY <3>1, <3>3, <3>4
  <2>4. next # x /\ next # z /\ prev # x /\ After(next, C) # next
    <3>1. next # x
      <4>1. b[x].dib = -1
        BY <1>2 DEF EmptyEntry
      <4>2. b[next].dib # -1
        BY <2>3
      <4> HIDE DEF b, x, next
      <4> QED
        BY <4>1, <4>2
    <3>2. next # z
      <4>1. b[z].dib = -1
        BY <1>2
      <4>2. b[next].dib # -1
        BY <2>3
      <4> HIDE DEF b, next
      <4> QED
        BY <4>1, <4>2
    <3> QED
      BY <1>1, <3>1, <3>2 DEF After, Minus
  <2>5. back \in Cells /\ back.key = e.key /\ back.value = e.value /\ back.dib = e.dib - 1
    <3> HIDE DEF e
    <3>1. e.dib - 1 \in Int
      BY <2>3
    <3>2. \A x2 \in Cells, d \in Int : LET y == [x2 EXCEPT !.dib = d]
                                      IN y \in Cells /\ y.key = x2.key /\ y.value = x2.value /\ y.dib = d
      BY DEF Cells
    <3>3. back = [e EXCEPT !.dib = e.dib - 1]
      OBVIOUS
    <3> QED
      BY <2>3, <3>1, <3>2, <3>3
  <2>6. Minus(next, 1, C) = x /\ After(prev, C) = x /\ Minus(x, h[e.key] % C, C) = e.dib - 1
    <3>1. /\ Minus(next, 1, C) = x /\ After(prev, C) = x
          /\ \A k \in 0..(C - 1) : Minus(next, k, C) > 0 => Minus(x, k, C) = Minus(next, k, C) - 1
      BY <1>1, SlotsAround
    <3> DEFINE home == h[e.key] % C
    <3>2. home \in 0..(C - 1) /\ e.dib = Minus(next, home, C) /\ e.dib > 0
      BY <2>3
    <3> HIDE DEF home, next, x, prev
    <3>3. Minus(x, home, C) = e.dib - 1
      BY <3>1, <3>2
    <3> QED
      BY <3>1, <3>3 DEF home
  <2>7. \A y \in 0..(C - 1) :
          b2[y] = IF y = next THEN EmptyEntry ELSE IF y = x THEN back ELSE b[y]
    BY <1>1
  <2>8. \A y \in 0..(C - 1) : After(y, C) \in 0..(C - 1) /\ (After(y, C) = x => y = prev)
                              /\ (After(y, C) = next => y = x)
    <3>1. \A y \in 0..(C - 1) : After(y, C) \in 0..(C - 1)
      BY SlotsAround
    <3>2. ASSUME NEW y \in 0..(C - 1)
          PROVE  (After(y, C) = x => y = prev) /\ (After(y, C) = next => y = x)
      <4>1. x \in 0..(C - 1)
        BY <1>1
      <4> HIDE DEF x
      <4> QED
        BY <4>1, SlotsAround
    <3> QED
      BY <3>1, <3>2
  <2>9. EmptyEntry.dib = -1
    BY DEF EmptyEntry
  <2> DEFINE e2 == e
  <2> HIDE DEF t, b2, back, next, prev, x, b
  <2>10. Placed(b2, C, h)
    <3> SUFFICES ASSUME NEW y \in 0..(C - 1)
                 PROVE  IF b2[y].dib = -1 THEN b2[y] = EmptyEntry
                        ELSE /\ b2[y].key \in Ids /\ b2[y].value \in Docs
                             /\ b2[y].dib = Minus(y, h[b2[y].key] % C, C)
      BY DEF Placed
    <3>1. CASE y = next
      BY <2>7, <2>9, <3>1
    <3>2. CASE y # next /\ y = x
      <4>1. b2[y] = back /\ back.dib # -1
        BY <2>3, <2>5, <2>7, <3>2
      <4> QED
        BY <2>3, <2>5, <2>6, <3>2, <4>1
    <3>3. CASE y # next /\ y # x
      <4>1. b2[y] = b[y]
        BY <2>7, <3>3
      <4> QED
        BY <1>2, <4>1 DEF Placed
    <3> QED
      BY <3>1, <3>2, <3>3
  <2>11. Stepping(b2, C, next)
    <3> SUFFICES ASSUME NEW y \in 0..(C - 1), y # next
                 PROVE  b2[After(y, C)].dib <= b2[y].dib + 1
      BY DEF Stepping
    <3>1. CASE y = x
      <4>1. After(y, C) = next /\ b2[y] = back
        BY <2>7, <3>1 DEF next
      <4>2. b2[After(y, C)] = EmptyEntry
        BY <1>1, <2>7, <4>1
      <4>3. b2[After(y, C)].dib = -1
        BY <2>9, <4>2
      <4>4. b2[y].dib = e.dib - 1
        BY <2>5, <4>1
      <4>5. e.dib \in Int /\ e.dib > 0
        BY <2>3
      <4> DEFINE here == b2[y].dib
                 ahead == b2[After(y, C)].dib
                 old == e.dib
      <4>6. ahead = -1 /\ here = old - 1 /\ old \in Int /\ old > 0
        BY <4>3, <4>4, <4>5
      <4> HIDE DEF here, ahead, old
      <4>7. ahead <= here + 1
        BY <4>6
      <4> QED
        BY <4>7 DEF here, ahead
    <3>2. CASE y = prev
      <4>1. After(y, C) = x /\ b2[x] = back /\ b2[y] = b[y]
        BY <1>1, <2>4, <2>6, <2>7, <3>2
      <4> DEFINE here == b2[y].dib
                 ahead == b2[After(y, C)].dib
                 old == e.dib
      <4>2. ahead = old - 1
        BY <2>5, <4>1
      <4>3. old <= here + 2
        BY <1>2, <3>2, <4>1
      <4>4. old \in Int /\ here \in Int
        BY <2>2, <2>3, <4>1
      <4> HIDE DEF here, ahead, old
      <4>5. ahead <= here + 1
        BY <4>2, <4>3, <4>4
      <4> QED
        BY <4>5 DEF here, ahead
    <3>3. CASE y # x /\ y # prev
      <4>1. b2[y] = b[y] /\ After(y, C) # x /\ After(y, C) # next
        BY <2>7, <2>8, <3>3
      <4>2. b2[After(y, C)] = b[After(y, C)]
        BY <2>7, <2>8, <4>1
      <4> QED
        BY <1>2, <3>3, <4>1, <4>2 DEF Stepping
    <3> QED
      BY <3>1, <3>2, <3>3
  <2>12. b2[After(next, C)].dib <= b2[Minus(next, 1, C)].dib + 2
    <3>1. b2[Minus(next, 1, C)] = back
      BY <1>1, <2>4, <2>6, <2>7
    <3>2. b[After(next, C)].dib <= e.dib + 1
      BY <1>1, <1>2, <2>4 DEF Stepping
    <3>3. b2[After(next, C)] = b[After(next, C)] \/ b2[After(next, C)] = back
      BY <1>1, <2>4, <2>7, <2>8
    <3>4. b[After(next, C)].dib \in Int
      BY <1>1, <2>2, <2>8
    <3> QED
      BY <2>3, <2>5, <3>1, <3>2, <3>3, <3>4
  <2>13. Holding(b2, C, G)
    <3> DEFINE b1 == [b EXCEPT ![next] = EmptyEntry]
    <3>1. Holding(b1, C, G \ {Pair(e)})
      <4>1. Without(G, b[next]) = G \ {Pair(e)}
        BY <2>3 DEF Without
      <4>2. Holding(b1, C, Without(G, b[next]))
        BY <1>1, <1>2, ClearHolding
      <4> QED
        BY <4>1, <4>2
    <3>2. /\ b1 \in [0..(C - 1) -> Cells] /\ b1[x] = EmptyEntry
          /\ \A y \in 0..(C - 1) : b1[y] = IF y = next THEN EmptyEntry ELSE b[y]
      BY <1>1, <1>2, <2>4 DEF Cells, EmptyEntry
    <3>3. ASSUME NEW y \in 0..(C - 1), y # x, b1[y].dib # -1
          PROVE  b1[y].key # back.key
      <4>1. y # next /\ b1[y] = b[y]
        BY <2>9, <3>2, <3>3
      <4>2. b[y].dib # -1 /\ b[next].dib # -1 /\ next \in 0..(C - 1)
        BY <1>1, <2>3, <3>3, <4>1
      <4>3. b[y].key # b[next].key
        BY <1>2, <4>1, <4>2 DEF Holding
      <4>4. back.key = b[next].key
        BY <2>5
      <4> QED
        BY <4>1, <4>3, <4>4
    <3>4. back.dib # -1
      BY <2>3, <2>5
    <3>5. b2 = [b1 EXCEPT ![x] = back]
      BY <1>1, <2>4 DEF b2
    <3> HIDE DEF b1
    <3>6. Holding([b1 EXCEPT ![x] = back], C, Without(G \ {Pair(e)}, b1[x]) \cup {Pair(back)})
      BY <1>1, <2>5, <3>1, <3>2, <3>3, <3>4, PutHolding
    <3>7. Without(G \ {Pair(e)}, b1[x]) \cup {Pair(back)} = G
      <4>1. Pair(e) \in G /\ Pair(back) = Pair(e)
        BY <1>1, <1>2, <2>3, <2>5, SMTT(30) DEF Holding, Pair
      <4>2. Without(G \ {Pair(e)}, b1[x]) = G \ {Pair(e)}
        BY <2>9, <3>2 DEF Without
      <4> QED
        BY <4>1, <4>2
    <3> QED
      BY <3>5, <3>6, <3>7
  <2>14. b2[next] = EmptyEntry /\ z # next /\ b2[z].dib = -1
    BY <1>1, <1>2, <2>4, <2>7
  <2>15. Hollow(t, z, h, G, C, c)
    BY <2>1, <2>10, <2>11, <2>12, <2>13, <2>14 DEF Hollow
  <2>16. Closing(t, n + 1, z, C)
    <3>1. Minus(z, x, C) + n < C
      BY <1>4 DEF Closing, next, x, b
    <3>2. Minus(z, next, C) = Minus(z, x, C) - 1 /\ Minus(z, x, C) \in Int
      BY <1>1, <1>2 DEF Minus, After, next
    <3>3. Minus(z, next, C) + (n + 1) < C
      BY <3>1, <3>2
    <3> QED
      BY <2>1, <3>3 DEF Closing
  <2> QED
    BY <2>15, <2>16 DEF t
<1> QED
  BY <1>3, <1>4

\* Delete: the entries behind the one that goes move back, and none is lost.
LEMMA DeleteHolds ==
  ASSUME NEW m, NEW h, NEW F, TableHolds(m, h, F), \A i \in Ids : h[i] \in Nat,
         NEW id \in Ids, NEW p \in F, p[1] = id, m.count < m.capacity
  PROVE  LET R == DeleteKey(m, h, id)
         IN  /\ TableHolds(R, h, F \ {p})
             /\ R.capacity = m.capacity
             /\ R.count = m.count - 1
<1> DEFINE C == m.capacity
           b == m.buckets
           G == F \ {p}
           c == m.count - 1
           R == DeleteKey(m, h, id)
<1>1. /\ C \in Nat \ {0} /\ m \in Tables(C) /\ Placed(b, C, h) /\ Stepping(b, C, C)
      /\ Holding(b, C, F) /\ b \in [0..(C - 1) -> Cells]
      /\ IsFiniteSet(F) /\ m.count = Cardinality(F) /\ m.count \in Nat
  BY FS_CardinalityType DEF TableHolds, Tables
<1>2. PICK x \in 0..(C - 1) : b[x].dib # -1 /\ Pair(b[x]) = p
  BY <1>1 DEF Holding
<1>3. SlotsOf(m, h, id) = {x}
  <2>1. b[x].key = id
    BY <1>2 DEF Pair
  <2>2. SlotsOf(m, h, id) = {y \in 0..(C - 1) : b[y].dib # -1 /\ b[y].key = id}
    BY SlotsFound
  <2> HIDE DEF b, C
  <2> QED
    BY <1>1, <1>2, <2>1, <2>2 DEF Holding
<1> DEFINE m1 == [Put(m, x, EmptyEntry) EXCEPT !.count = @ - 1]
           b1 == [b EXCEPT ![x] = EmptyEntry]
<1>4. R = ShiftBack(m1, x)
  <2>1. (CHOOSE s \in SlotsOf(m, h, id) : TRUE) = x
    BY <1>3
  <2> QED
    BY <2>1 DEF DeleteKey
<1>5. /\ b1 \in [0..(C - 1) -> Cells] /\ b1[x] = EmptyEntry /\ EmptyEntry.dib = -1
      /\ \A y \in 0..(C - 1) : y # x => b1[y] = b[y]
  BY <1>1 DEF Cells, EmptyEntry
<1>6. m1 \in Tables(C) /\ m1.buckets = b1 /\ m1.count = c /\ c \in Int
  <2>1. Put(m, x, EmptyEntry) = [m EXCEPT !.buckets = b1]
    BY <1>1 DEF Put, Tables
  <2>2. m1 = [m EXCEPT !.buckets = b1, !.count = m.count - 1]
    BY <1>1, <2>1 DEF Tables
  <2> DEFINE With(bs, k) == [m EXCEPT !.buckets = bs, !.count = k]
  <2>3. \A bs \in [0..(C - 1) -> Cells], k \in Int :
          With(bs, k) \in Tables(C) /\ With(bs, k).buckets = bs /\ With(bs, k).count = k
    BY <1>1 DEF Tables
  <2>4. c \in Int
    BY <1>1
  <2>5. m1 = With(b1, c)
    BY <2>2
  <2> HIDE DEF b1, m1, c, C, With
  <2> QED
    BY <1>5, <2>3, <2>4, <2>5
<1>7. PICK z \in 0..(C - 1) : b[z].dib = -1
  BY <1>1, FreeSlot
<1>8. z # x /\ b1[z].dib = -1
  BY <1>2, <1>5, <1>7
<1>9. Placed(b1, C, h)
  <2> HIDE DEF b1, b, C
  <2> QED
    BY <1>1, <1>5 DEF Placed
<1>10. /\ Stepping(b1, C, x)
       /\ b1[After(x, C)].dib <= b1[Minus(x, 1, C)].dib + 2
  <2> HIDE DEF b1, b, C
  <2>1. \A y \in 0..(C - 1) : b[y].dib \in -1..(C - 1) /\ After(y, C) \in 0..(C - 1) /\ y # C
    <3>1. \A y \in 0..(C - 1) : b[y].dib \in -1..(C - 1)
      BY <1>1, Dibs
    <3>2. \A y \in 0..(C - 1) : After(y, C) \in 0..(C - 1) /\ y # C
      BY <1>1, SlotsAround
    <3> QED
      BY <3>1, <3>2
  <2>2. Stepping(b1, C, x)
    <3> SUFFICES ASSUME NEW y \in 0..(C - 1), y # x
                 PROVE  b1[After(y, C)].dib <= b1[y].dib + 1
      BY DEF Stepping
    <3>1. b[After(y, C)].dib <= b[y].dib + 1 /\ b[y].dib \in -1..(C - 1)
      BY <1>1, <2>1 DEF Stepping
    <3>2. CASE After(y, C) = x
      BY <1>5, <3>1, <3>2
    <3>3. CASE After(y, C) # x
      BY <1>5, <2>1, <3>1, <3>3
    <3> QED
      BY <3>2, <3>3
  <2>3. b1[After(x, C)].dib <= b1[Minus(x, 1, C)].dib + 2
    <3> DEFINE y == Minus(x, 1, C)
               n == After(x, C)
    <3>1. y \in 0..(C - 1) /\ n \in 0..(C - 1) /\ After(y, C) = x
      BY <1>1, SlotsAround
    <3>2. y # x /\ n # x
      BY <1>1, <1>8 DEF Minus, After
    <3> HIDE DEF y
    <3>3. b[x].dib <= b[y].dib + 1 /\ b[n].dib <= b[x].dib + 1
      BY <1>1, <2>1, <3>1 DEF Stepping
    <3> HIDE DEF n
    <3>4. b[x].dib \in -1..(C - 1) /\ b[y].dib \in -1..(C - 1) /\ b[n].dib \in -1..(C - 1)
      BY <2>1, <3>1
    <3>5. b1[y] = b[y] /\ b1[n] = b[n]
      BY <1>5, <3>1, <3>2
    <3>6. b[n].dib <= b[y].dib + 2
      <4> DEFINE atX == b[x].dib
                 atY == b[y].dib
                 atN == b[n].dib
      <4>1. atX \in Int /\ atY \in Int /\ atN \in Int /\ atX <= atY + 1 /\ atN <= atX + 1
        BY <3>3, <3>4
      <4> HIDE DEF atX, atY, atN
      <4>2. atN <= atY + 2
        BY <4>1
      <4> QED
        BY <4>2 DEF atY, atN
    <3> QED
      BY <3>5, <3>6 DEF y, n
  <2> QED
    BY <2>2, <2>3
<1>11. Holding(b1, C, G)
  <2>1. Holding(b1, C, Without(F, b[x]))
    BY <1>1, ClearHolding
  <2>2. Without(F, b[x]) = G
    BY <1>2 DEF Without
  <2> QED
    BY <2>1, <2>2
<1> DEFINE base == [map |-> m1, slot |-> x]
<1>12. base \in Shifts(C) /\ Hollow(base, z, h, G, C, c) /\ Closing(base, 0, z, C)
  <2>1. base.map = m1 /\ base.slot = x
    OBVIOUS
  <2>2. Minus(z, x, C) + 0 < C
    BY <1>1 DEF Minus
  <2> HIDE DEF m1
  <2>3. base \in Shifts(C)
    BY <1>6 DEF Shifts
  <2> HIDE DEF base, b1, C, G, c
  <2>4. Hollow(base, z, h, G, C, c)
    BY <1>5, <1>6, <1>8, <1>9, <1>10, <1>11, <2>1 DEF Hollow
  <2> QED
    BY <2>1, <2>2, <2>3, <2>4 DEF Closing
<1> HIDE DEF base, b1, G, c, b
<1>13. PICK turn : /\ turn[0] = base
                   /\ \A n \in 1..C : turn[n] = ShiftTurn(turn[n - 1])
                   /\ ShiftBack(m1, x) = turn[C].map
  <2> HIDE DEF m1, C
  <2> QED
    BY <1>1, <1>6, ShiftBackIs DEF base
<1> HIDE DEF m1, R
<1> DEFINE Good == [n \in 0..C |-> {s \in Shifts(C) : Hollow(s, z, h, G, C, c) /\ Closing(s, n, z, C)}]
<1>14. turn[0] \in Good[0]
  BY <1>1, <1>12, <1>13
<1>15. ASSUME NEW n \in 1..C, turn[n - 1] \in Good[n - 1]
       PROVE  turn[n] \in Good[n]
  <2> DEFINE s == turn[n - 1]
  <2>1. n - 1 \in 0..C /\ n \in 0..C /\ n - 1 \in Nat /\ (n - 1) + 1 = n
    BY <1>1
  <2>2. s \in Shifts(C) /\ Hollow(s, z, h, G, C, c) /\ Closing(s, n - 1, z, C)
    BY <1>15, <2>1
  <2>3. turn[n] = ShiftTurn(s)
    BY <1>13
  <2> HIDE DEF s, C
  <2>4. ShiftTurn(s) \in Shifts(C)
    BY <1>1, <2>2, ShiftIs
  <2>5. Hollow(ShiftTurn(s), z, h, G, C, c) /\ Closing(ShiftTurn(s), (n - 1) + 1, z, C)
    BY <1>1, <2>1, <2>2, ShiftKeeps
  <2> QED
    BY <2>1, <2>3, <2>4, <2>5
<1> DEFINE last == turn[C]
<1>16. last \in Shifts(C) /\ Hollow(last, z, h, G, C, c) /\ Closing(last, C, z, C)
  <2>1. last \in Good[C]
    <3> HIDE DEF Good, C
    <3>1. \A n \in 0..C : turn[n] \in Good[n]
      BY <1>1, <1>14, <1>15, LoopInvariant
    <3> QED
      BY <1>1, <3>1
  <2> QED
    BY <1>1, <2>1
<1> HIDE DEF Good, last
<1>17. /\ last.map \in Tables(C) /\ last.map.capacity = C /\ last.slot \in 0..(C - 1)
       /\ last.map.buckets \in [0..(C - 1) -> Cells]
  BY <1>16 DEF Shifts, Tables
<1>18. Stepping(last.map.buckets, C, C)
  <2> DEFINE b2 == last.map.buckets
             y == last.slot
  <2>1. b2[After(y, C)].dib <= 0
    <3>1. ~(Minus(z, y, C) + C < C)
      <4> HIDE DEF y
      <4> QED
        BY <1>1, <1>17 DEF Minus, y
    <3> QED
      BY <1>16, <3>1 DEF Closing
  <2>2. b2[y].dib = -1 /\ Stepping(b2, C, y)
    BY <1>5, <1>16 DEF Hollow
  <2>3. b2[After(y, C)].dib <= b2[y].dib + 1
    BY <2>1, <2>2
  <2> HIDE DEF b2, y, C
  <2> QED
    BY <2>2, <2>3 DEF Stepping, b2, y
<1>19. IsFiniteSet(G) /\ Cardinality(G) = c
  BY <1>1, FS_RemoveElement DEF G, c
<1>20. /\ last.map.count = c /\ Placed(last.map.buckets, C, h)
       /\ Holding(last.map.buckets, C, G)
  BY <1>16 DEF Hollow
<1>21. R = last.map
  BY <1>4, <1>13 DEF last
<1> HIDE DEF C
<1>22. TableHolds(R, h, G)
  BY <1>1, <1>17, <1>18, <1>19, <1>20, <1>21 DEF TableHolds
<1> QED
  BY <1>17, <1>20, <1>21, <1>22 DEF C, R, G, c

------------------------------------------------------------------------------
(* All *)

\* All goes over the slots in use, each once.
LEMMA OccupiedIs ==
  ASSUME NEW m, NEW h, NEW F, TableHolds(m, h, F)
  PROVE  /\ Occupied(m) \in Seq(0..(m.capacity - 1))
         /\ Len(Occupied(m)) = m.count
         /\ ToSet(Occupied(m)) = {x \in 0..(m.capacity - 1) : m.buckets[x].dib # -1}
<1> DEFINE C == m.capacity
           X == Seq(0..(C - 1))
           b == m.buckets
           step == [s \in (1..C) \X X |-> IF b[s[1] - 1].dib = -1 THEN s[2]
                                          ELSE Append(s[2], s[1] - 1)]
           used == CHOOSE f : f = [n \in 0..m.capacity |->
                      IF n = 0 THEN <<>>
                      ELSE IF m.buckets[n - 1].dib = -1 THEN f[n - 1]
                      ELSE Append(f[n - 1], n - 1)]
<1>1. /\ C \in Nat \ {0} /\ Holding(b, C, F) /\ IsFiniteSet(F) /\ m.count = Cardinality(F)
  BY DEF TableHolds
<1>2. <<>> \in X
  OBVIOUS
<1>3. step \in [(1..C) \X X -> X]
  <2>1. ASSUME NEW n \in 1..C, NEW q \in X
        PROVE  Append(q, n - 1) \in X
    <3>1. n - 1 \in 0..(C - 1)
      BY <1>1
    <3> QED
      BY <3>1
  <2> HIDE DEF X, b, C
  <2> QED
    BY <2>1
<1> HIDE DEF X, b, C
<1>4. PICK f : IsLoop(f, C, X, <<>>, step)
  <2> HIDE DEF step
  <2> QED
    BY <1>1, <1>2, <1>3, LoopExists
<1>5. ASSUME NEW n \in 1..C
      PROVE  f[n] = IF b[n - 1].dib = -1 THEN f[n - 1] ELSE Append(f[n - 1], n - 1)
  <2>1. <<n, f[n - 1]>> \in (1..C) \X X
    BY <1>1, <1>4 DEF IsLoop
  <2> QED
    BY <1>4, <2>1 DEF IsLoop
<1> HIDE DEF step
<1>6. f = [n \in 0..C |-> IF n = 0 THEN <<>>
                          ELSE IF b[n - 1].dib = -1 THEN f[n - 1]
                          ELSE Append(f[n - 1], n - 1)]
  <2>1. f = [n \in 0..C |-> f[n]] /\ f[0] = <<>>
    BY <1>4 DEF IsLoop
  <2>2. ASSUME NEW n \in 0..C
        PROVE  f[n] = IF n = 0 THEN <<>>
                      ELSE IF b[n - 1].dib = -1 THEN f[n - 1]
                      ELSE Append(f[n - 1], n - 1)
    <3>1. n # 0 => n \in 1..C
      BY <1>1
    <3> QED
      BY <1>5, <2>1, <3>1
  <2> QED
    BY <2>1, <2>2, Zenon
<1>7. used = [n \in 0..C |-> IF n = 0 THEN <<>>
                             ELSE IF b[n - 1].dib = -1 THEN used[n - 1]
                             ELSE Append(used[n - 1], n - 1)]
  BY <1>6 DEF b, C
<1>8. Occupied(m) = used[C]
  BY DEF Occupied, C
<1> HIDE DEF used
<1> DEFINE Good == [n \in 0..C |->
                      {q \in X : /\ Len(q) = Cardinality(PairsBefore(b, n))
                                 /\ ToSet(q) = {y \in 0..(n - 1) : b[y].dib # -1}}]
<1>9. used[0] \in Good[0]
  <2>1. used[0] = <<>> /\ 0 \in 0..C
    BY <1>1, <1>7
  <2>2. Len(<<>>) = Cardinality(PairsBefore(b, 0))
    <3>1. PairsBefore(b, 0) = {}
      BY <1>1, PairsSoFar
    <3>2. Cardinality({}) = 0
      BY FS_EmptySet
    <3> QED
      BY <3>1, <3>2
  <2>3. ToSet(<<>>) = {y \in 0..(0 - 1) : b[y].dib # -1}
    BY DEF ToSet
  <2> QED
    BY <1>2, <2>1, <2>2, <2>3
<1>10. ASSUME NEW n \in 1..C, used[n - 1] \in Good[n - 1]
       PROVE  used[n] \in Good[n]
  <2> DEFINE q == used[n - 1]
             G == PairsBefore(b, n - 1)
             p == Pair(b[n - 1])
  <2>1. n - 1 \in 0..C /\ n \in 0..C /\ n # 0 /\ n - 1 \in 0..(C - 1) /\ n - 1 \in Nat
    BY <1>1
  <2>2. /\ q \in X /\ Len(q) = Cardinality(G)
        /\ ToSet(q) = {y \in 0..((n - 1) - 1) : b[y].dib # -1}
    BY <1>10, <2>1
  <2>3. used[n] = IF b[n - 1].dib = -1 THEN q ELSE Append(q, n - 1)
    BY <1>7, <2>1
  <2>4. /\ PairsBefore(b, n) = IF b[n - 1].dib = -1 THEN G ELSE G \cup {p}
        /\ PairsBefore(b, n) \subseteq F
        /\ b[n - 1].dib # -1 => \A r \in G : r[1] # b[n - 1].key
    BY <1>1, PairsSoFar
  <2>5. 0..(n - 1) = (0..((n - 1) - 1)) \cup {n - 1}
    OBVIOUS
  <2> HIDE DEF q, G
  <2>6. CASE b[n - 1].dib = -1
    <3>1. ToSet(q) = {y \in 0..(n - 1) : b[y].dib # -1}
      BY <2>2, <2>5, <2>6
    <3> QED
      BY <2>1, <2>2, <2>3, <2>4, <2>6, <3>1
  <2>7. CASE b[n - 1].dib # -1
    <3>1. p \notin G
      BY <2>4, <2>7 DEF Pair
    <3> HIDE DEF p
    <3>2. G \subseteq F
      BY <2>4, <2>7
    <3>3. Cardinality(PairsBefore(b, n)) = Cardinality(G) + 1
      <4>1. IsFiniteSet(G)
        BY <1>1, <3>2, FS_Subset
      <4> QED
        BY <2>4, <2>7, <3>1, <4>1, FS_AddElement
    <3>4. Append(q, n - 1) \in X /\ Len(Append(q, n - 1)) = Len(q) + 1
      <4> HIDE DEF C
      <4> QED
        BY <2>1, <2>2 DEF X
    <3>5. ToSet(Append(q, n - 1)) = ToSet(q) \cup {n - 1}
      <4>1. DOMAIN q = 1..Len(q) /\ DOMAIN Append(q, n - 1) = 1..(Len(q) + 1) /\ Len(q) \in Nat
        BY <2>2, <3>4 DEF X
      <4>2. \A i \in 1..(Len(q) + 1) :
              Append(q, n - 1)[i] = IF i = Len(q) + 1 THEN n - 1 ELSE q[i]
        BY <2>2 DEF X
      <4>3. 1..(Len(q) + 1) = (1..Len(q)) \cup {Len(q) + 1} /\ Len(q) + 1 \notin 1..Len(q)
        BY <4>1
      <4>4. {Append(q, n - 1)[i] : i \in DOMAIN Append(q, n - 1)}
              = {q[i] : i \in 1..Len(q)} \cup {n - 1}
        BY <4>1, <4>2, <4>3
      <4> QED
        BY <4>1, <4>4 DEF ToSet
    <3>6. ToSet(Append(q, n - 1)) = {y \in 0..(n - 1) : b[y].dib # -1}
      BY <2>2, <2>5, <2>7, <3>5
    <3> QED
      BY <2>1, <2>2, <2>3, <2>7, <3>3, <3>4, <3>6
  <2> QED
    BY <2>6, <2>7
<1>11. used[C] \in Good[C]
  <2> HIDE DEF Good
  <2>1. \A n \in 0..C : used[n] \in Good[n]
    BY <1>1, <1>9, <1>10, LoopInvariant
  <2> QED
    BY <1>1, <2>1
<1>12. PairsBefore(b, C) = F
  BY <1>1, PairsSoFar
<1>13. /\ used[C] \in X /\ Len(used[C]) = Cardinality(F)
       /\ ToSet(used[C]) = {y \in 0..(C - 1) : b[y].dib # -1}
  BY <1>1, <1>11, <1>12
<1> QED
  BY <1>1, <1>8, <1>13 DEF X, b, C

------------------------------------------------------------------------------
(* The database *)

\* The capacities.
LEMMA DoubledIs ==
  /\ Doubled(0) = InitialCapacity
  /\ \A n \in Nat : Doubled(n + 1) = 2 * Doubled(n)
<1>1. InitialCapacity \in Int
  BY CapacityAssumption
<1>2. \A n : Doubled(n) = Doubling(InitialCapacity, n)
  BY DEF Doubled, Doubling
<1> QED
  BY <1>1, <1>2, DoublingIs

\* The merge of a partial update is a document.
LEMMA MergeTyped ==
  ASSUME NEW existing \in Docs, NEW partial \in Docs
  PROVE  MergeDoc(existing, partial) \in Docs
<1>1. PICK E \in SUBSET Fields : existing \in [E -> Vals]
  BY DEF Docs
<1>2. PICK P \in SUBSET Fields : partial \in [P -> Vals]
  BY DEF Docs
<1>3. MergeDoc(existing, partial) \in [E \cup P -> Vals]
  BY <1>1, <1>2 DEF MergeDoc
<1>4. E \cup P \in SUBSET Fields
  OBVIOUS
<1> QED
  BY <1>3, <1>4 DEF Docs

\* The dictionary a table stands for, and the pairs of a dictionary.
ContentsOf(m, h) == [id \in {i \in Ids : GetKey(m, h, i) # NoValue} |-> GetKey(m, h, id)]
PairsOf(d) == {<<id, d[id]>> : id \in DOMAIN d}

\* A table that holds the pairs of d stands for d.
LEMMA ContentsAre ==
  ASSUME NEW m, NEW h, NEW d, TableHolds(m, h, PairsOf(d)), d = [i \in DOMAIN d |-> d[i]],
         \A i \in Ids : h[i] \in Nat
  PROVE  /\ ContentsOf(m, h) = d
         /\ DOMAIN d \subseteq Ids
         /\ \A id \in DOMAIN d : d[id] \in Docs
         /\ \A id \in Ids : id \in DOMAIN d <=> SlotsOf(m, h, id) # {}
<1> DEFINE F == PairsOf(d)
<1>1. F \in SUBSET (Ids \X Docs)
  BY PairsHeld
<1>2. DOMAIN d \subseteq Ids /\ \A id \in DOMAIN d : d[id] \in Docs /\ <<id, d[id]>> \in F
  <2>1. \A id \in DOMAIN d : <<id, d[id]>> \in F
    BY DEF PairsOf
  <2> HIDE DEF F
  <2>2. \A id \in DOMAIN d : <<id, d[id]>> \in Ids \X Docs
    BY <1>1, <2>1
  <2> QED
    BY <2>1, <2>2
<1>3. \A p \in F : p[1] \in DOMAIN d /\ p[2] = d[p[1]]
  BY DEF PairsOf
<1> HIDE DEF F
<1>4. \A id \in Ids : /\ SlotsOf(m, h, id) # {} <=> \E p \in F : p[1] = id
                      /\ \A p \in F : p[1] = id => GetKey(m, h, id) = p[2]
                      /\ (\A p \in F : p[1] # id) => GetKey(m, h, id) = NoValue
  BY GetFinds DEF F
<1>5. \A id \in Ids : /\ id \in DOMAIN d <=> SlotsOf(m, h, id) # {}
                      /\ id \in DOMAIN d => GetKey(m, h, id) = d[id]
                      /\ id \notin DOMAIN d => GetKey(m, h, id) = NoValue
  <2> SUFFICES ASSUME NEW id \in Ids
               PROVE  /\ id \in DOMAIN d <=> SlotsOf(m, h, id) # {}
                      /\ id \in DOMAIN d => GetKey(m, h, id) = d[id]
                      /\ id \notin DOMAIN d => GetKey(m, h, id) = NoValue
    OBVIOUS
  <2>1. CASE id \in DOMAIN d
    <3> DEFINE p == <<id, d[id]>>
    <3>1. p \in F /\ p[1] = id /\ p[2] = d[id]
      BY <1>2, <2>1
    <3> HIDE DEF p
    <3> QED
      BY <1>4, <2>1, <3>1
  <2>2. CASE id \notin DOMAIN d
    <3>1. \A p \in F : p[1] # id
      BY <1>3, <2>2
    <3> QED
      BY <1>4, <2>2, <3>1
  <2> QED
    BY <2>1, <2>2
<1>6. {i \in Ids : GetKey(m, h, i) # NoValue} = DOMAIN d
  BY <1>2, <1>5, NoValueAssumption
<1>7. ContentsOf(m, h) = [id \in DOMAIN d |-> GetKey(m, h, id)]
  BY <1>6 DEF ContentsOf
<1>8. \A id \in DOMAIN d : GetKey(m, h, id) = d[id]
  BY <1>2, <1>5
<1>9. ContentsOf(m, h) = d
  BY <1>7, <1>8
<1> QED
  BY <1>2, <1>5, <1>9

\* What the calls keep: the table is well formed and holds what Get answers.
IInv ==
  /\ hash \in Hashes
  /\ TableHolds(map, hash, PairsOf(Contents))
  /\ Room
  /\ \E n \in 0..map.capacity : map.capacity = Doubled(n)

\* What the parts of the invariant say of the contents.
LEMMA ContentsTyped ==
  ASSUME IInv
  PROVE  /\ \A i \in Ids : hash[i] \in Nat
         /\ map.capacity \in Nat \ {0} /\ map.count \in Nat /\ map.count < map.capacity
         /\ Contents = [i \in DOMAIN Contents |-> Contents[i]]
         /\ \A id \in Ids : /\ Found(id) <=> id \in DOMAIN Contents
                            /\ id \in DOMAIN Contents => GetKey(map, hash, id) = Contents[id]
         /\ \A id \in Ids : id \in DOMAIN Contents <=> SlotsOf(map, hash, id) # {}
         /\ \A id \in DOMAIN Contents : id \in Ids /\ Contents[id] \in Docs
<1>1. \A i \in Ids : hash[i] \in Nat
  BY HashesAssumption DEF IInv
<1>2. map.capacity \in Nat \ {0} /\ map.count \in Nat
  BY FS_CardinalityType DEF IInv, TableHolds
<1>3. map.count < map.capacity
  BY <1>2 DEF IInv, Room
<1>4. Contents = [i \in DOMAIN Contents |-> Contents[i]]
  BY DEF Contents
<1>5. \A id \in Ids : /\ Found(id) <=> id \in DOMAIN Contents
                      /\ id \in DOMAIN Contents => GetKey(map, hash, id) = Contents[id]
  BY DEF Found, Contents
<1>6. /\ \A id \in Ids : id \in DOMAIN Contents <=> SlotsOf(map, hash, id) # {}
      /\ \A id \in DOMAIN Contents : id \in Ids /\ Contents[id] \in Docs
  <2>1. TableHolds(map, hash, PairsOf(Contents))
    BY DEF IInv
  <2> HIDE DEF Contents
  <2> QED
    BY <1>1, <1>4, <2>1, ContentsAre
<1> QED
  BY <1>1, <1>2, <1>3, <1>4, <1>5, <1>6

LEMMA InitHolds ==
  ASSUME Init
  PROVE  IInv /\ Contents = EmptyDoc
<1>1. \A i \in Ids : hash[i] \in Nat
  BY HashesAssumption DEF Init
<1>2. /\ TableHolds(map, hash, {}) /\ map.capacity = InitialCapacity
  BY CapacityAssumption, EmptyHolds DEF Init
<1>3. PairsOf(EmptyDoc) = {} /\ EmptyDoc = [i \in DOMAIN EmptyDoc |-> EmptyDoc[i]]
  BY DEF PairsOf, EmptyDoc
<1>4. Contents = EmptyDoc
  <2>1. TableHolds(map, hash, PairsOf(EmptyDoc))
    BY <1>2, <1>3
  <2>2. ContentsOf(map, hash) = EmptyDoc
    BY <1>1, <1>3, <2>1, ContentsAre
  <2> QED
    BY <2>2 DEF Contents, Found, ContentsOf
<1>5. Room
  BY <1>2, CapacityAssumption, FS_EmptySet DEF Room, TableHolds
<1>6. map.capacity = Doubled(0) /\ 0 \in 0..map.capacity
  BY <1>2, CapacityAssumption, DoubledIs
<1> QED
  BY <1>2, <1>3, <1>4, <1>5, <1>6 DEF IInv, Init

\* Insert and Update set the document of an id.
LEMMA SetStep ==
  ASSUME IInv, NEW id \in Ids, NEW v \in Docs,
         map' = SetKey(map, hash, id, v), hash' = hash
  PROVE  /\ IInv'
         /\ Contents' = [i \in DOMAIN Contents \cup {id} |-> IF i = id THEN v ELSE Contents[i]]
<1> DEFINE d == Contents
           d2 == [i \in DOMAIN d \cup {id} |-> IF i = id THEN v ELSE d[i]]
           R == SetKey(map, hash, id, v)
<1>1. \A i \in Ids : hash[i] \in Nat
  BY ContentsTyped
<1>2. TableHolds(map, hash, PairsOf(d)) /\ 10 * map.count <= 7 * map.capacity
  BY DEF IInv, Room
<1>3. PICK n \in 0..map.capacity : map.capacity = Doubled(n)
  BY DEF IInv
<1> HIDE DEF d
<1>4. /\ TableHolds(R, hash, SetPairs(PairsOf(d), id, v))
      /\ 10 * R.count <= 7 * R.capacity
      /\ R.capacity \in {map.capacity, 2 * map.capacity}
  BY <1>1, <1>2, SetKeyHolds
<1>5. SetPairs(PairsOf(d), id, v) = PairsOf(d2)
  <2>1. ASSUME NEW q \in SetPairs(PairsOf(d), id, v)
        PROVE  q \in PairsOf(d2)
    <3>1. CASE q = <<id, v>>
      BY <3>1 DEF PairsOf
    <3>2. CASE q # <<id, v>>
      <4>1. PICK i \in DOMAIN d : q = <<i, d[i]>> /\ i # id
        BY <3>2 DEF SetPairs, PairsOf
      <4>2. i \in DOMAIN d2 /\ d2[i] = d[i]
        BY <4>1
      <4> QED
        BY <4>1, <4>2 DEF PairsOf
    <3> QED
      BY <3>1, <3>2
  <2>2. ASSUME NEW i \in DOMAIN d2
        PROVE  <<i, d2[i]>> \in SetPairs(PairsOf(d), id, v)
    <3>1. CASE i = id
      BY <3>1 DEF SetPairs
    <3>2. CASE i # id
      BY <3>2 DEF SetPairs, PairsOf
    <3> QED
      BY <3>1, <3>2
  <2>3. PairsOf(d2) \subseteq SetPairs(PairsOf(d), id, v)
    <3> HIDE DEF d2
    <3> QED
      BY <2>2 DEF PairsOf
  <2> QED
    BY <2>1, <2>3
<1> HIDE DEF R
<1>6. ContentsOf(R, hash) = d2
  <2>1. d2 = [i \in DOMAIN d2 |-> d2[i]]
    OBVIOUS
  <2> HIDE DEF d2
  <2>2. TableHolds(R, hash, PairsOf(d2))
    BY <1>4, <1>5
  <2> QED
    BY <1>1, <2>1, <2>2, ContentsAre
<1>7. \E k \in 0..R.capacity : R.capacity = Doubled(k)
  <2>1. map.capacity \in Nat \ {0}
    BY ContentsTyped
  <2>2. CASE R.capacity = map.capacity
    BY <1>3, <2>2
  <2>3. CASE R.capacity = 2 * map.capacity
    <3>1. n \in Nat /\ n + 1 \in 0..R.capacity
      BY <2>1, <2>3
    <3>2. R.capacity = Doubled(n + 1)
      BY <1>3, <2>3, <3>1, DoubledIs
    <3> QED
      BY <3>1, <3>2
  <2> QED
    BY <1>4, <2>2, <2>3
<1>8. map' = R
  BY DEF R
<1>9. Contents' = d2
  BY <1>6, <1>8 DEF Contents, Found, ContentsOf
<1> HIDE DEF d2
<1>10. IInv'
  BY <1>4, <1>5, <1>7, <1>8, <1>9 DEF IInv, Room
<1> QED
  BY <1>9, <1>10 DEF d2, d

\* Delete drops it.
LEMMA DeleteStep ==
  ASSUME IInv, NEW id \in Ids, Delete(id)
  PROVE  /\ IInv'
         /\ id \in DOMAIN Contents
         /\ Contents' = [i \in DOMAIN Contents \ {id} |-> Contents[i]]
<1> DEFINE d == Contents
           d2 == [i \in DOMAIN d \ {id} |-> d[i]]
           R == DeleteKey(map, hash, id)
           p == <<id, d[id]>>
<1>1. \A i \in Ids : hash[i] \in Nat
  BY ContentsTyped
<1>2. TableHolds(map, hash, PairsOf(d)) /\ 10 * map.count <= 7 * map.capacity
  BY DEF IInv, Room
<1>3. id \in DOMAIN d
  BY ContentsTyped DEF Delete
<1>4. map.count < map.capacity /\ map.count \in Nat /\ map.capacity \in Nat \ {0}
  BY ContentsTyped
<1> HIDE DEF d
<1>5. p \in PairsOf(d) /\ p[1] = id
  BY <1>3 DEF PairsOf
<1>6. TableHolds(R, hash, PairsOf(d) \ {p}) /\ R.capacity = map.capacity /\ R.count = map.count - 1
  <2> HIDE DEF p
  <2> QED
    BY <1>1, <1>2, <1>4, <1>5, DeleteHolds
<1>7. PairsOf(d) \ {p} = PairsOf(d2)
  BY DEF PairsOf
<1> HIDE DEF R, p
<1>8. ContentsOf(R, hash) = d2
  <2>1. d2 = [i \in DOMAIN d2 |-> d2[i]]
    OBVIOUS
  <2> HIDE DEF d2
  <2>2. TableHolds(R, hash, PairsOf(d2))
    BY <1>6, <1>7
  <2> QED
    BY <1>1, <2>1, <2>2, ContentsAre
<1>9. map' = R /\ hash' = hash
  BY DEF R, Delete
<1>10. Contents' = d2
  BY <1>8, <1>9 DEF Contents, Found, ContentsOf
<1> HIDE DEF d2
<1>11. 10 * R.count <= 7 * R.capacity
  BY <1>2, <1>4, <1>6
<1>12. IInv'
  BY <1>6, <1>7, <1>9, <1>10, <1>11 DEF IInv, Room
<1> QED
  BY <1>3, <1>10, <1>12 DEF d2, d

\* The calls do to the contents what they do to a dictionary.
LEMMA CallsKeep ==
  ASSUME IInv, [Next]_vars
  PROVE  IInv' /\ [Dict!Next]_Contents
<1> DEFINE d == Contents
<1>2. /\ \A id \in Ids : Found(id) <=> id \in DOMAIN d
      /\ \A id \in Ids : id \in DOMAIN d => GetKey(map, hash, id) = d[id]
      /\ \A id \in DOMAIN d : id \in Ids /\ d[id] \in Docs
  BY ContentsTyped
<1>3. ASSUME NEW id \in Ids, NEW doc \in Docs, Insert(id, doc)
      PROVE  IInv' /\ Dict!Insert(id, doc)
  <2>1. map' = SetKey(map, hash, id, doc) /\ hash' = hash /\ id \notin DOMAIN d
    BY <1>2, <1>3 DEF Insert
  <2>2. IInv' /\ Contents' = [i \in DOMAIN d \cup {id} |-> IF i = id THEN doc ELSE d[i]]
    BY <2>1, SetStep
  <2> QED
    BY <2>1, <2>2 DEF Dict!Insert
<1>4. ASSUME NEW id \in Ids, NEW partial \in Docs, Update(id, partial)
      PROVE  IInv' /\ Dict!Update(id, partial)
  <2> DEFINE v == MergeDoc(d[id], partial)
  <2>1. id \in DOMAIN d /\ map' = SetKey(map, hash, id, v) /\ hash' = hash /\ v \in Docs
    BY <1>2, <1>4, MergeTyped DEF Update
  <2> HIDE DEF v
  <2>2. IInv' /\ Contents' = [i \in DOMAIN d \cup {id} |-> IF i = id THEN v ELSE d[i]]
    BY <2>1, SetStep
  <2>3. Contents' = [d EXCEPT ![id] = v]
    BY <2>1, <2>2
  <2> QED
    BY <2>1, <2>2, <2>3 DEF Dict!Update, Dict!MergeDoc, MergeDoc, v
<1>5. ASSUME NEW id \in Ids, Delete(id)
      PROVE  IInv' /\ Dict!Delete(id)
  <2>1. IInv' /\ id \in DOMAIN d /\ Contents' = [i \in DOMAIN d \ {id} |-> d[i]]
    BY <1>5, DeleteStep
  <2> QED
    BY <2>1 DEF Dict!Delete, Dict!Restrict, Restrict
<1>6. CASE UNCHANGED vars
  BY <1>6 DEF vars, IInv, Room, Contents, Found
<1> QED
  BY <1>3, <1>4, <1>5, <1>6 DEF Next, Dict!Next, Dict!Docs, Docs

------------------------------------------------------------------------------
(* Theorems *)

LEMMA InvHolds ==
  Spec => []IInv
<1>1. Init => IInv
  BY InitHolds
<1>2. IInv /\ [Next]_vars => IInv'
  BY CallsKeep
<1> QED
  BY <1>1, <1>2, PTL DEF Spec

\* The table stays well typed, its capacity a doubling of the initial one, through any
\* calls of engine/hashmap.go.
THEOREM TypeCorrect ==
  Spec => []TypeOK
<1>1. IInv => TypeOK
  <2> SUFFICES ASSUME IInv
               PROVE  TypeOK
    OBVIOUS
  <2> DEFINE C == map.capacity
             b == map.buckets
  <2>1. /\ C \in Nat \ {0} /\ b \in [0..(C - 1) -> Cells] /\ Placed(b, C, hash)
        /\ hash \in Hashes /\ \A i \in Ids : hash[i] \in Nat
        /\ \E n \in 0..C : C = Doubled(n)
        /\ map.count \in Nat
    BY ContentsTyped DEF IInv, TableHolds, Tables
  <2> HIDE DEF C, b
  <2>2. ASSUME NEW x \in 0..(C - 1)
        PROVE  b[x] \in Buckets
    <3>1. b[x] \in Cells /\ b[x].dib \in -1..(C - 1)
      BY <2>1, Dibs
    <3>2. CASE b[x].dib = -1
      BY <2>1, <3>2 DEF Placed, Buckets
    <3>3. CASE b[x].dib # -1
      <4>1. b[x].key \in Ids /\ b[x].value \in Docs /\ b[x].dib \in Nat
        BY <2>1, <3>1, <3>3 DEF Placed
      <4> QED
        BY <3>1, <4>1 DEF Cells, Buckets
    <3> QED
      BY <3>2, <3>3
  <2> QED
    BY <2>1, <2>2 DEF TypeOK, C, b
<1> QED
  BY <1>1, InvHolds, PTL

\* Displacement, the shift back of Delete and Rehash all keep what the early exit of
\* the probes rests on.
THEOREM ProbesMayStop ==
  Spec => []RobinHood
<1>1. IInv => RobinHood
  <2> SUFFICES ASSUME IInv
               PROVE  RobinHood
    OBVIOUS
  <2> DEFINE C == map.capacity
             b == map.buckets
  <2>1. /\ C \in Nat \ {0} /\ b \in [0..(C - 1) -> Cells] /\ Placed(b, C, hash)
        /\ Stepping(b, C, C) /\ \A i \in Ids : hash[i] \in Nat
    BY ContentsTyped DEF IInv, TableHolds, Tables
  <2> HIDE DEF C, b
  <2>2. ASSUME NEW x \in 0..(C - 1)
        PROVE  /\ b[x].dib # -1 => b[x].dib = (x - hash[b[x].key]) % C
               /\ b[(x + 1) % C].dib <= b[x].dib + 1
    <3>1. ASSUME b[x].dib # -1
          PROVE  b[x].dib = (x - hash[b[x].key]) % C
      <4>1. b[x].key \in Ids /\ b[x].dib = Minus(x, hash[b[x].key] % C, C)
        BY <2>1, <3>1 DEF Placed
      <4> QED
        BY <2>1, <4>1, SlotHash
    <3>2. b[(x + 1) % C].dib <= b[x].dib + 1
      <4>1. (x + 1) % C = After(x, C) /\ x # C
        BY <2>1, NextSlot
      <4> QED
        BY <2>1, <4>1 DEF Stepping
    <3> QED
      BY <3>1, <3>2
  <2>3. DOMAIN b = 0..(C - 1)
    BY <2>1
  <2> QED
    BY <2>2, <2>3 DEF RobinHood, C, b
<1> QED
  BY <1>1, InvHolds, PTL

\* Find, which goes over the slots, and Get, which probes, see the same documents.
THEOREM ProbesFind ==
  Spec => []EveryEntryFound
<1>1. IInv => EveryEntryFound
  <2> SUFFICES ASSUME IInv
               PROVE  EveryEntryFound
    OBVIOUS
  <2> DEFINE C == map.capacity
             b == map.buckets
             F == PairsOf(Contents)
  <2>1. TableHolds(map, hash, F) /\ \A i \in Ids : hash[i] \in Nat
    BY ContentsTyped DEF IInv
  <2> HIDE DEF F
  <2>2. Placed(b, C, hash) /\ Holding(b, C, F)
    BY <2>1 DEF TableHolds
  <2>3. /\ Occupied(map) \in Seq(0..(C - 1)) /\ Len(Occupied(map)) = map.count
        /\ ToSet(Occupied(map)) = {x \in 0..(C - 1) : b[x].dib # -1}
    BY <2>1, OccupiedIs
  <2>4. ASSUME NEW x \in ToSet(Occupied(map))
        PROVE  SlotsOf(map, hash, b[x].key) = {x}
    <3>1. x \in 0..(C - 1) /\ b[x].dib # -1 /\ b[x].key \in Ids
      BY <2>2, <2>3 DEF Placed
    <3>2. SlotsOf(map, hash, b[x].key)
            = {y \in 0..(C - 1) : b[y].dib # -1 /\ b[y].key = b[x].key}
      BY <2>1, <3>1, SlotsFound
    <3> HIDE DEF b, C
    <3> QED
      BY <2>2, <3>1, <3>2 DEF Holding
  <2>5. map.count = Len(All(map))
    <3> DEFINE q == Occupied(map)
    <3>1. q \in Seq(0..(C - 1)) /\ Len(q) = map.count /\ Len(q) \in Nat /\ DOMAIN q = 1..Len(q)
      BY <2>3
    <3>2. All(map) = [n \in 1..Len(q) |-> b[q[n]].value]
      BY <3>1 DEF All
    <3> HIDE DEF q, b
    <3>3. Len([n \in 1..Len(q) |-> b[q[n]].value]) = Len(q)
      BY <3>1
    <3> QED
      BY <3>1, <3>2, <3>3
  <2> QED
    BY <2>4, <2>5 DEF EveryEntryFound
<1> QED
  BY <1>1, InvHolds, PTL

\* The load of the table never exceeds seven tenths: there is always a free slot for the
\* loop of Set to end at.
THEOREM AlwaysRoom ==
  Spec => []Room
<1>1. IInv => Room
  BY DEF IInv
<1> QED
  BY <1>1, InvHolds, PTL

\* The in-memory mode implements the dictionary: each call changes what Get answers as
\* the call says, and for no other id.
THEOREM MapIsDictionary ==
  Spec => IsDictionary
<1>1. Init => Dict!Init
  BY InitHolds DEF Dict!Init, Dict!EmptyDoc, EmptyDoc
<1>2. IInv /\ [Next]_vars => [Dict!Next]_Contents
  BY CallsKeep
<1> QED
  BY <1>1, <1>2, InvHolds, PTL DEF Spec, IsDictionary, Dict!Spec
==============================================================================
