-------------------------- MODULE Collection_proofs --------------------------
(***************************************************************************)
(* What the data structures of the primary, the secondary and the range    *)
(* index hold, for any documents, ids, keys and filter, and what Find      *)
(* makes of them.  The structures are described by what they hold:         *)
(* PrimaryHolds(p, F), and for the lists and the trees a set of pairs of a *)
(* key and a record, ListsHold(sec, P) and TreesHold(ts, P).  Each call of *)
(* engine/index.go takes a structure that holds a set to one that holds    *)
(* the set with an element more or less.  The calls of the database keep   *)
(* the live records Placed in it under the keys they were filed by, and    *)
(* leave of the others what they cannot take out, which is all that a      *)
(* scan, a lookup or a walk can read.  Then come the two sorts: what a     *)
(* heap is and gives, and that both answer the same best.  The last part   *)
(* is about the shell: what its parser reads, word by word and turn by     *)
(* turn, and what is found for it.                                         *)
(***************************************************************************)
EXTENDS Shell, RangeTree_proofs, SequenceTheorems, FiniteSetTheorems

------------------------------------------------------------------------------
(* The binary searches *)

\* By id, without repetition.
SortedById(entries) == \A i, j \in DOMAIN entries : i < j => entries[i].id < entries[j].id

\* An entry of the index has an id, which is a number, and an offset.
LEMMA EntryTypes ==
  ASSUME NEW entries \in Seq(Entries), NEW k \in 1..Len(entries)
  PROVE  /\ k \in DOMAIN entries
         /\ entries[k] \in Entries
         /\ entries[k].id \in Ids /\ entries[k].id \in Nat
         /\ entries[k].offset \in Recs
<1>1. k \in DOMAIN entries /\ entries[k] \in Entries
  OBVIOUS
<1> QED
  BY <1>1, IdsAssumption DEF Entries

\* insertionPoint: the entries before the place found are below id, those from it on are not.
\* The interval halves, so that as many turns as there are entries, and one, are enough.
LEMMA InsertionPointFound ==
  ASSUME NEW entries \in Seq(Entries), NEW id \in Ids, SortedById(entries)
  PROVE  LET i == InsertionPoint(entries, id)
         IN  /\ i \in 1..(Len(entries) + 1)
             /\ \A k \in 1..(i - 1) : entries[k].id < id
             /\ \A k \in i..Len(entries) : entries[k].id >= id
<1> DEFINE N == Len(entries)
           State == [lo : Int, hi : Int]
           base == [lo |-> 1, hi |-> N + 1]
           step == [p \in (1..(N + 1)) \X State |-> InsertionTurn(entries, id, p[2])]
           turn == CHOOSE t : t = [n \in 0..(N + 1) |->
                                     IF n = 0 THEN [lo |-> 1, hi |-> N + 1]
                                     ELSE InsertionTurn(entries, id, t[n - 1])]
           Good == [n \in 0..(N + 1) |->
                      {s \in State : /\ 1 <= s.lo /\ s.lo <= s.hi /\ s.hi <= N + 1
                                     /\ s.hi - s.lo <= N - n \/ s.hi = s.lo
                                     /\ \A k \in 1..(s.lo - 1) : entries[k].id < id
                                     /\ \A k \in s.hi..N : entries[k].id >= id}]
<1>1. N \in Nat /\ N + 1 \in Nat
  OBVIOUS
<1>2. base \in State
  BY <1>1
<1>3. step \in [(1..(N + 1)) \X State -> State]
  <2>1. ASSUME NEW s \in State
        PROVE  InsertionTurn(entries, id, s) \in State
    BY DEF InsertionTurn
  <2> QED
    BY <2>1
<1>4. \E f : f = [n \in 0..(N + 1) |-> IF n = 0 THEN base ELSE InsertionTurn(entries, id, f[n - 1])]
  <2> HIDE DEF base, State
  <2>1. PICK f : IsLoop(f, N + 1, State, base, step)
    <3> HIDE DEF step, N
    <3> QED
      BY <1>1, <1>2, <1>3, LoopExists
  <2>2. ASSUME NEW n \in 1..(N + 1)
        PROVE  f[n] = InsertionTurn(entries, id, f[n - 1])
    <3>1. <<n, f[n - 1]>> \in (1..(N + 1)) \X State
      BY <1>1, <2>1, SMTT(30) DEF IsLoop
    <3> QED
      BY <2>1, <3>1 DEF IsLoop
  <2> HIDE DEF step, N
  <2>3. f = [n \in 0..(N + 1) |-> f[n]] /\ f[0] = base
    BY <2>1 DEF IsLoop
  <2>4. ASSUME NEW n \in 0..(N + 1)
        PROVE  f[n] = IF n = 0 THEN base ELSE InsertionTurn(entries, id, f[n - 1])
    <3>1. n # 0 => n \in 1..(N + 1)
      BY <1>1
    <3> QED
      BY <2>2, <2>3, <3>1
  <2>5. f = [n \in 0..(N + 1) |-> IF n = 0 THEN base ELSE InsertionTurn(entries, id, f[n - 1])]
    BY <2>3, <2>4, Zenon
  <2> QED
    BY <2>5
<1>5. turn = [n \in 0..(N + 1) |-> IF n = 0 THEN base ELSE InsertionTurn(entries, id, turn[n - 1])]
  BY <1>4
<1>6. InsertionPoint(entries, id) = turn[N + 1].lo
  BY DEF InsertionPoint
<1> HIDE DEF turn
<1>7. turn[0] \in Good[0]
  <2>1. turn[0] = base
    BY <1>1, <1>5
  <2> QED
    BY <1>1, <2>1
<1>8. ASSUME NEW n \in 1..(N + 1), turn[n - 1] \in Good[n - 1]
      PROVE  turn[n] \in Good[n]
  <2> DEFINE s == turn[n - 1]
             mid == (s.lo + s.hi) \div 2
  <2>1. n - 1 \in 0..(N + 1) /\ n \in 0..(N + 1) /\ n # 0
    BY <1>1
  <2>2. turn[n] = InsertionTurn(entries, id, s)
    BY <1>5, <2>1
  <2>3. /\ s \in State /\ 1 <= s.lo /\ s.lo <= s.hi /\ s.hi <= N + 1
        /\ s.hi - s.lo <= N - (n - 1) \/ s.hi = s.lo
        /\ \A k \in 1..(s.lo - 1) : entries[k].id < id
        /\ \A k \in s.hi..N : entries[k].id >= id
    BY <1>8, <2>1
  <2> HIDE DEF s, Good
  <2>4. CASE s.lo = s.hi
    <3>1. turn[n] = s
      BY <2>2, <2>3, <2>4 DEF InsertionTurn
    <3> QED
      BY <1>1, <2>1, <2>3, <2>4, <3>1 DEF Good
  <2>5. CASE s.lo < s.hi
    <3>1. mid \in Int /\ s.lo <= mid /\ mid < s.hi /\ mid \in 1..N /\ mid \in DOMAIN entries
      BY <1>1, <2>3, <2>5
    <3>2. \A k \in 1..N : entries[k].id \in Nat /\ k \in DOMAIN entries
      BY EntryTypes
    <3>3. id \in Nat
      BY IdsAssumption
    <3> HIDE DEF mid
    <3>4. CASE entries[mid].id < id
      <4>1. turn[n] = [s EXCEPT !.lo = mid + 1]
        BY <2>2, <2>3, <2>5, <3>4 DEF InsertionTurn, mid
      <4>2. turn[n] \in State /\ turn[n].lo = mid + 1 /\ turn[n].hi = s.hi
        BY <2>3, <3>1, <4>1
      <4>3. \A k \in 1..mid : entries[k].id < id
        BY <3>1, <3>2, <3>3, <3>4 DEF SortedById
      <4>4. /\ 1 <= mid + 1 /\ mid + 1 <= s.hi
            /\ s.hi - (mid + 1) <= N - n \/ s.hi = mid + 1
        BY <1>1, <2>3, <2>5, <3>1
      <4>5. \A k \in 1..((mid + 1) - 1) : entries[k].id < id
        BY <3>1, <4>3
      <4> QED
        BY <2>1, <2>3, <4>2, <4>4, <4>5 DEF Good
    <3>5. CASE ~(entries[mid].id < id)
      <4>1. turn[n] = [s EXCEPT !.hi = mid]
        BY <2>2, <2>3, <2>5, <3>5 DEF InsertionTurn, mid
      <4>2. turn[n] \in State /\ turn[n].lo = s.lo /\ turn[n].hi = mid
        BY <2>3, <3>1, <4>1
      <4>3. \A k \in mid..N : entries[k].id >= id
        BY <1>1, <3>1, <3>2, <3>3, <3>5 DEF SortedById
      <4> QED
        BY <1>1, <2>1, <2>3, <2>5, <3>1, <4>2, <4>3 DEF Good
    <3> QED
      BY <3>4, <3>5
  <2> QED
    BY <2>3, <2>4, <2>5
<1> HIDE DEF Good
<1>9. turn[N + 1] \in Good[N + 1]
  <2> HIDE DEF N
  <2>1. \A n \in 0..(N + 1) : turn[n] \in Good[n]
    BY <1>1, <1>7, <1>8, LoopInvariant
  <2> QED
    BY <1>1, <2>1
<1> QED
  BY <1>1, <1>6, <1>9 DEF Good

\* binarySearch finds the entry of id, or there is none.
LEMMA BinarySearchFinds ==
  ASSUME NEW entries \in Seq(Entries), NEW id \in Ids, SortedById(entries)
  PROVE  LET i == BinarySearch(entries, id)
         IN  \/ i \in 1..Len(entries) /\ entries[i].id = id
             \/ i = 0 /\ \A k \in 1..Len(entries) : entries[k].id # id
<1> DEFINE N == Len(entries)
           State == [lo : Int, hi : Int, found : Int]
           base == [lo |-> 1, hi |-> N, found |-> 0]
           step == [p \in (1..(N + 1)) \X State |-> SearchTurn(entries, id, p[2])]
           turn == CHOOSE t : t = [n \in 0..(N + 1) |->
                                     IF n = 0 THEN [lo |-> 1, hi |-> N, found |-> 0]
                                     ELSE SearchTurn(entries, id, t[n - 1])]
           Good == [n \in 0..(N + 1) |->
                      {s \in State :
                         \/ s.found \in 1..N /\ entries[s.found].id = id
                         \/ /\ s.found = 0
                            /\ 1 <= s.lo /\ s.lo <= s.hi + 1 /\ s.hi <= N
                            /\ s.hi - s.lo < N - n \/ s.lo = s.hi + 1
                            /\ \A k \in 1..(s.lo - 1) : entries[k].id < id
                            /\ \A k \in (s.hi + 1)..N : entries[k].id > id}]
<1>1. N \in Nat /\ N + 1 \in Nat
  OBVIOUS
<1>2. base \in State
  BY <1>1
<1>3. step \in [(1..(N + 1)) \X State -> State]
  <2>1. ASSUME NEW s \in State
        PROVE  SearchTurn(entries, id, s) \in State
    BY DEF SearchTurn
  <2> QED
    BY <2>1
<1>4. \E f : f = [n \in 0..(N + 1) |-> IF n = 0 THEN base ELSE SearchTurn(entries, id, f[n - 1])]
  <2> HIDE DEF base, State
  <2>1. PICK f : IsLoop(f, N + 1, State, base, step)
    <3> HIDE DEF step, N
    <3> QED
      BY <1>1, <1>2, <1>3, LoopExists
  <2>2. ASSUME NEW n \in 1..(N + 1)
        PROVE  f[n] = SearchTurn(entries, id, f[n - 1])
    <3>1. <<n, f[n - 1]>> \in (1..(N + 1)) \X State
      BY <1>1, <2>1, SMTT(30) DEF IsLoop
    <3> QED
      BY <2>1, <3>1 DEF IsLoop
  <2> HIDE DEF step, N
  <2>3. f = [n \in 0..(N + 1) |-> f[n]] /\ f[0] = base
    BY <2>1 DEF IsLoop
  <2>4. ASSUME NEW n \in 0..(N + 1)
        PROVE  f[n] = IF n = 0 THEN base ELSE SearchTurn(entries, id, f[n - 1])
    <3>1. n # 0 => n \in 1..(N + 1)
      BY <1>1
    <3> QED
      BY <2>2, <2>3, <3>1
  <2>5. f = [n \in 0..(N + 1) |-> IF n = 0 THEN base ELSE SearchTurn(entries, id, f[n - 1])]
    BY <2>3, <2>4, Zenon
  <2> QED
    BY <2>5
<1>5. turn = [n \in 0..(N + 1) |-> IF n = 0 THEN base ELSE SearchTurn(entries, id, turn[n - 1])]
  BY <1>4
<1>6. BinarySearch(entries, id) = turn[N + 1].found
  BY DEF BinarySearch
<1> HIDE DEF turn
<1>7. turn[0] \in Good[0]
  <2>1. turn[0] = base
    BY <1>1, <1>5
  <2> QED
    BY <1>1, <2>1
<1>8. ASSUME NEW n \in 1..(N + 1), turn[n - 1] \in Good[n - 1]
      PROVE  turn[n] \in Good[n]
  <2> DEFINE s == turn[n - 1]
             mid == (s.lo + s.hi) \div 2
  <2>1. n - 1 \in 0..(N + 1) /\ n \in 0..(N + 1) /\ n # 0
    BY <1>1
  <2>2. turn[n] = SearchTurn(entries, id, s)
    BY <1>5, <2>1
  <2>3. s \in State
    BY <1>8, <2>1
  <2>4. \/ s.found \in 1..N /\ entries[s.found].id = id
        \/ /\ s.found = 0
           /\ 1 <= s.lo /\ s.lo <= s.hi + 1 /\ s.hi <= N
           /\ s.hi - s.lo < N - (n - 1) \/ s.lo = s.hi + 1
           /\ \A k \in 1..(s.lo - 1) : entries[k].id < id
           /\ \A k \in (s.hi + 1)..N : entries[k].id > id
    BY <1>8, <2>1
  <2> HIDE DEF s, Good
  <2>5. CASE s.found # 0
    <3>1. turn[n] = s
      BY <2>2, <2>3, <2>5 DEF SearchTurn
    <3> QED
      BY <1>1, <2>1, <2>3, <2>4, <2>5, <3>1 DEF Good
  <2>6. CASE s.found = 0 /\ s.lo = s.hi + 1
    <3>1. turn[n] = s
      BY <2>2, <2>3, <2>6 DEF SearchTurn
    <3> QED
      BY <1>1, <2>1, <2>3, <2>4, <2>6, <3>1 DEF Good
  <2>7. CASE s.found = 0 /\ s.lo <= s.hi
    <3>1. mid \in Int /\ s.lo <= mid /\ mid <= s.hi /\ mid \in 1..N /\ mid # 0
      BY <1>1, <2>3, <2>4, <2>7
    <3>2. \A k \in 1..N : entries[k].id \in Nat /\ k \in DOMAIN entries
      BY EntryTypes
    <3>3. id \in Nat
      BY IdsAssumption
    <3> HIDE DEF mid
    <3>4. CASE entries[mid].id = id
      <4>1. turn[n] = [s EXCEPT !.found = mid]
        BY <2>2, <2>3, <2>7, <3>4 DEF SearchTurn, mid
      <4>2. turn[n] \in State /\ turn[n].found = mid
        BY <2>3, <3>1, <4>1
      <4> QED
        BY <2>1, <3>1, <3>4, <4>2 DEF Good
    <3>5. CASE entries[mid].id < id
      <4>1. turn[n] = [s EXCEPT !.lo = mid + 1]
        BY <2>2, <2>3, <2>7, <3>1, <3>2, <3>3, <3>5 DEF SearchTurn, mid
      <4>2. turn[n] \in State /\ turn[n].lo = mid + 1 /\ turn[n].hi = s.hi /\ turn[n].found = 0
        BY <2>3, <2>7, <3>1, <4>1
      <4>3. ASSUME NEW k \in 1..((mid + 1) - 1)
            PROVE  entries[k].id < id
        <5>1. k \in Int /\ mid \in Int /\ k <= mid /\ k \in 1..N
          BY <1>1, <3>1
        <5>2. CASE k = mid
          BY <3>5, <5>2
        <5>3. CASE k < mid
          <6>1. entries[k].id < entries[mid].id
            BY <1>1, <3>1, <5>1, <5>3 DEF SortedById
          <6> QED
            BY <1>1, <3>1, <3>2, <3>3, <3>5, <5>1, <6>1
        <5>4. k = mid \/ k < mid
          BY <5>1
        <5> QED
          BY <5>2, <5>3, <5>4, Zenon
      <4>4. /\ 1 <= mid + 1 /\ mid + 1 <= s.hi + 1 /\ s.hi <= N
            /\ s.hi - (mid + 1) < N - n \/ mid + 1 = s.hi + 1
        BY <1>1, <2>1, <2>3, <2>4, <2>7, <3>1
      <4>5. \A k \in (s.hi + 1)..N : entries[k].id > id
        BY <2>4, <2>7
      <4> QED
        BY <2>1, <4>2, <4>3, <4>4, <4>5 DEF Good
    <3>6. CASE entries[mid].id > id
      <4>1. turn[n] = [s EXCEPT !.hi = mid - 1]
        BY <2>2, <2>3, <2>7, <3>1, <3>2, <3>3, <3>6 DEF SearchTurn, mid
      <4>2. turn[n] \in State /\ turn[n].lo = s.lo /\ turn[n].hi = mid - 1 /\ turn[n].found = 0
        BY <2>3, <2>7, <3>1, <4>1
      <4>3. ASSUME NEW k \in ((mid - 1) + 1)..N
            PROVE  entries[k].id > id
        <5>1. k \in Int /\ mid \in Int /\ mid <= k /\ k \in 1..N
          BY <1>1, <3>1
        <5>2. CASE k = mid
          BY <3>6, <5>2
        <5>3. CASE mid < k
          <6>1. entries[mid].id < entries[k].id
            BY <1>1, <3>1, <5>1, <5>3 DEF SortedById
          <6> QED
            BY <1>1, <3>1, <3>2, <3>3, <3>6, <5>1, <6>1
        <5>4. k = mid \/ mid < k
          BY <5>1
        <5> QED
          BY <5>2, <5>3, <5>4, Zenon
      <4>4. /\ 1 <= s.lo /\ s.lo <= (mid - 1) + 1 /\ mid - 1 <= N
            /\ (mid - 1) - s.lo < N - n \/ s.lo = (mid - 1) + 1
        BY <1>1, <2>1, <2>3, <2>4, <2>7, <3>1
      <4>5. \A k \in 1..(s.lo - 1) : entries[k].id < id
        BY <2>4, <2>7
      <4> QED
        BY <2>1, <4>2, <4>3, <4>4, <4>5 DEF Good
    <3> QED
      BY <3>1, <3>2, <3>3, <3>4, <3>5, <3>6
  <2> QED
    BY <1>1, <2>3, <2>4, <2>5, <2>6, <2>7
<1> HIDE DEF Good
<1>9. turn[N + 1] \in Good[N + 1]
  <2> HIDE DEF N
  <2>1. \A n \in 0..(N + 1) : turn[n] \in Good[n]
    BY <1>1, <1>7, <1>8, LoopInvariant
  <2> QED
    BY <1>1, <2>1
<1>10. \/ turn[N + 1].found \in 1..N /\ entries[turn[N + 1].found].id = id
       \/ turn[N + 1].found = 0 /\ \A k \in 1..N : entries[k].id # id
  <2>1. \A k \in 1..N : entries[k].id \in Nat
    BY EntryTypes
  <2>2. id \in Nat
    BY IdsAssumption
  <2> QED
    BY <1>1, <1>9, <2>1, <2>2 DEF Good
<1> QED
  BY <1>6, <1>10

------------------------------------------------------------------------------
(* The primary index *)

\* p holds the entries of F: sorted, and each with its bits in the filter.
PrimaryHolds(p, F) ==
  /\ p \in [entries : Seq(Entries), bloom : SUBSET (0..(M - 1))]
  /\ SortedById(p.entries)
  /\ ToSet(p.entries) = F
  /\ \A e \in F : MayContain(p.bloom, e.id)

Entry(id, offset) == [id |-> id, offset |-> offset]

\* Add sets bits of the filter, clears none, and MayContain is true of what was added.
LEMMA BitsInFilter ==
  ASSUME NEW id \in Ids, NEW bloom \in SUBSET (0..(M - 1))
  PROVE  /\ BitsAdded(bloom, id) \in SUBSET (0..(M - 1))
         /\ bloom \subseteq BitsAdded(bloom, id)
         /\ MayContain(BitsAdded(bloom, id), id)
<1>1. H1[id] \in Nat /\ H2[id] \in Nat /\ Wrap \in Nat \ {0} /\ M \in Nat \ {0} /\ K \in Nat
  BY BloomAssumption
<1>2. ASSUME NEW i \in 0..(K - 1)
      PROVE  BitOf(id, i) \in 0..(M - 1)
  <2>1. i * Odd(H2[id]) \in Int
    BY <1>1 DEF Odd
  <2>2. H1[id] + i * Odd(H2[id]) \in Int
    BY <1>1, <2>1
  <2> DEFINE x == H1[id] + i * Odd(H2[id])
  <2> HIDE DEF x
  <2>3. x % Wrap \in Int
    BY <1>1, <2>2 DEF x
  <2> DEFINE y == x % Wrap
  <2> HIDE DEF y
  <2>4. y % M \in 0..(M - 1)
    BY <1>1, <2>3 DEF y
  <2> QED
    BY <2>4 DEF BitOf, x, y
<1> QED
  BY <1>2 DEF BitsAdded, MayContain

\* Lookup answers what the index holds: the filter hides nothing that is there.
LEMMA LookupOfHeld ==
  ASSUME NEW p, NEW F, PrimaryHolds(p, F), NEW id \in Ids
  PROVE  \/ \E e \in F : e.id = id /\ Lookup(p, id) = e.offset
         \/ Lookup(p, id) = NoOffset /\ \A e \in F : e.id # id
<1> DEFINE i == BinarySearch(p.entries, id)
<1>1. p.entries \in Seq(Entries) /\ SortedById(p.entries) /\ F = {p.entries[k] : k \in 1..Len(p.entries)}
  BY DEF PrimaryHolds, ToSet
<1>2. \/ i \in 1..Len(p.entries) /\ p.entries[i].id = id
      \/ i = 0 /\ \A k \in 1..Len(p.entries) : p.entries[k].id # id
  BY <1>1, BinarySearchFinds
<1> HIDE DEF i
<1>3. CASE i \in 1..Len(p.entries) /\ p.entries[i].id = id
  <2>1. p.entries[i] \in F
    BY <1>1, <1>3
  <2>2. MayContain(p.bloom, id)
    BY <1>3, <2>1 DEF PrimaryHolds
  <2>3. i # 0
    BY <1>3
  <2>4. Lookup(p, id) = p.entries[i].offset
    BY <2>2, <2>3 DEF Lookup, i
  <2> QED
    BY <1>3, <2>1, <2>4
<1>4. CASE i = 0 /\ \A k \in 1..Len(p.entries) : p.entries[k].id # id
  <2>1. Lookup(p, id) = NoOffset
    BY <1>4 DEF Lookup, i
  <2> QED
    BY <1>1, <1>4, <2>1
<1> QED
  BY <1>2, <1>3, <1>4

\* An entry more among the entries.
LEMMA InsertEntry ==
  ASSUME NEW s \in Seq(Entries), NEW i \in 1..(Len(s) + 1), NEW e \in Entries
  PROVE  LET t == InsertAt(s, i, e)
         IN  /\ t \in Seq(Entries)
             /\ Len(t) = Len(s) + 1
             /\ \A j \in 1..Len(t) :
                  t[j] = IF j < i THEN s[j] ELSE IF j = i THEN e ELSE s[j - 1]
BY InsertAtElements

\* Add files an entry, in the place of one of the same id if there is one.
LEMMA AddToHeld ==
  ASSUME NEW p, NEW F, PrimaryHolds(p, F), NEW id \in Ids, NEW offset \in Recs
  PROVE  PrimaryHolds(AddEntry(p, id, offset),
                      {e \in F : e.id # id} \cup {Entry(id, offset)})
<1> DEFINE s == p.entries
           N == Len(s)
           i == InsertionPoint(s, id)
           entry == Entry(id, offset)
           q == AddEntry(p, id, offset)
           G == {e \in F : e.id # id} \cup {entry}
<1>1. s \in Seq(Entries) /\ SortedById(s) /\ F = {s[k] : k \in 1..N} /\ N \in Nat
  BY DEF PrimaryHolds, ToSet
<1>11. \A j, k \in 1..N : j < k => s[j].id < s[k].id
  BY <1>1 DEF SortedById
<1>2. /\ i \in 1..(N + 1)
      /\ \A k \in 1..(i - 1) : s[k].id < id
      /\ \A k \in i..N : s[k].id >= id
  BY <1>1, InsertionPointFound
<1>3. entry \in Entries /\ entry.id = id
  BY DEF Entries, Entry
<1>4. id \in Nat /\ \A k \in 1..N : s[k].id \in Nat /\ s[k] \in Entries
  BY <1>1, EntryTypes, IdsAssumption
<1>5. /\ q.bloom = BitsAdded(p.bloom, id)
      /\ q = [entries |-> q.entries, bloom |-> q.bloom]
  BY DEF AddEntry
<1>6. q.entries = IF i <= N /\ s[i].id = id THEN ReplaceAt(s, i, entry) ELSE InsertAt(s, i, entry)
  BY DEF AddEntry, Entry
<1> HIDE DEF q, i
<1>7. q.entries \in Seq(Entries) /\ SortedById(q.entries) /\ ToSet(q.entries) = G
  <2>1. CASE i <= N /\ s[i].id = id
    <3> DEFINE t == ReplaceAt(s, i, entry)
    <3>1. /\ t \in Seq(Entries) /\ Len(t) = N
          /\ \A j \in 1..N : t[j] = IF j = i THEN entry ELSE s[j]
      BY <1>1, <1>2, <1>3, <2>1, ExceptSeq DEF ReplaceAt
    <3> HIDE DEF t
    <3>2. \A j \in 1..N : t[j].id = s[j].id
      BY <1>3, <2>1, <3>1
    <3>3. SortedById(t)
      BY <1>1, <3>1, <3>2 DEF SortedById
    <3>4. \A j \in 1..N : s[j].id = id => j = i
      BY <1>1, <1>2, <1>4, <2>1, SMTT(30) DEF SortedById
    <3>5. {t[j] : j \in 1..N} = G
      BY <1>1, <1>2, <1>3, <2>1, <3>1, <3>4
    <3> QED
      BY <1>6, <2>1, <3>1, <3>3, <3>5 DEF ToSet, t
  <2>2. CASE ~(i <= N /\ s[i].id = id)
    <3> DEFINE t == InsertAt(s, i, entry)
    <3>1. /\ t \in Seq(Entries) /\ Len(t) = N + 1
          /\ \A j \in 1..(N + 1) :
               t[j] = IF j < i THEN s[j] ELSE IF j = i THEN entry ELSE s[j - 1]
      <4>1. s \in Seq(Entries) /\ i \in 1..(Len(s) + 1) /\ entry \in Entries /\ Len(s) = N
        BY <1>1, <1>2, <1>3
      <4> HIDE DEF s, entry, G, N
      <4>2. /\ t \in Seq(Entries) /\ Len(t) = Len(s) + 1
            /\ \A j \in 1..Len(t) :
                 t[j] = IF j < i THEN s[j] ELSE IF j = i THEN entry ELSE s[j - 1]
        BY <4>1, InsertEntry, ZenonT(40)
      <4> HIDE DEF t
      <4> QED
        BY <4>1, <4>2
    <3> HIDE DEF t
    <3>2. \A k \in i..N : s[k].id > id
      <4>1. ASSUME NEW k \in i..N
            PROVE  s[k].id > id
        <5>1. i \in 1..N /\ k \in 1..N /\ s[i].id # id /\ s[i].id >= id
          BY <1>1, <1>2, <2>2
        <5>2. i = k \/ s[i].id < s[k].id
          BY <1>1, <1>11, <5>1
        <5> QED
          BY <1>4, <5>1, <5>2
      <4> QED
        BY <4>1
    <3>3. SortedById(t)
      <4>1. SUFFICES ASSUME NEW j \in 1..(N + 1), NEW k \in 1..(N + 1), j < k
                     PROVE  t[j].id < t[k].id
        BY <3>1 DEF SortedById
      <4>2. CASE k < i
        <5>1. j \in 1..N /\ k \in 1..N /\ t[j] = s[j] /\ t[k] = s[k]
          BY <1>1, <1>2, <3>1, <4>1, <4>2
        <5> QED
          BY <1>11, <4>1, <5>1
      <4>3. CASE k = i
        BY <1>1, <1>2, <1>3, <3>1, <4>1, <4>3, SMTT(30)
      <4>4. CASE k > i /\ j < i
        <5>1. s[j].id < id /\ s[k - 1].id > id /\ t[j] = s[j] /\ t[k] = s[k - 1]
          BY <1>1, <1>2, <3>1, <3>2, <4>1, <4>4
        <5>2. j \in 1..N /\ k - 1 \in 1..N
          BY <1>1, <1>2, <4>1, <4>4
        <5> QED
          BY <1>4, <5>1, <5>2
      <4>5. CASE k > i /\ j = i
        BY <1>1, <1>2, <1>3, <3>1, <3>2, <4>1, <4>5
      <4>6. CASE k > i /\ j > i
        <5>1. j - 1 \in 1..N /\ k - 1 \in 1..N /\ t[j] = s[j - 1] /\ t[k] = s[k - 1]
          BY <1>1, <1>2, <3>1, <4>1, <4>6
        <5> QED
          BY <1>1, <1>11, <4>1, <5>1
      <4> QED
        BY <1>1, <1>2, <4>1, <4>2, <4>3, <4>4, <4>5, <4>6
    <3>4. \A k \in 1..N : s[k].id # id
      BY <1>1, <1>2, <1>4, <3>2
    <3>5. {t[j] : j \in 1..(N + 1)} = G
      <4>1. ASSUME NEW j \in 1..(N + 1)
            PROVE  t[j] \in G
        <5>1. CASE j < i
          <6>1. t[j] = s[j] /\ j \in 1..N
            BY <1>1, <1>2, <3>1, <5>1
          <6> QED
            BY <1>1, <3>4, <6>1
        <5>2. CASE j = i
          BY <1>1, <1>2, <3>1, <5>2
        <5>3. CASE j > i
          <6>1. t[j] = s[j - 1] /\ j - 1 \in 1..N
            BY <1>1, <1>2, <3>1, <5>3
          <6> QED
            BY <1>1, <3>4, <6>1
        <5> QED
          BY <1>1, <1>2, <5>1, <5>2, <5>3
      <4>2. \A e \in G : \E j \in 1..(N + 1) : t[j] = e
        <5>1. t[i] = entry
          BY <1>1, <1>2, <3>1
        <5>2. ASSUME NEW k \in 1..N
              PROVE  \E j \in 1..(N + 1) : t[j] = s[k]
          <6>1. CASE k < i
            BY <1>1, <1>2, <3>1, <6>1
          <6>2. CASE k >= i
            <7>1. k + 1 \in 1..(N + 1) /\ ~(k + 1 < i) /\ k + 1 # i /\ (k + 1) - 1 = k
              BY <1>1, <1>2, <6>2
            <7> QED
              BY <3>1, <7>1
          <6> QED
            BY <1>1, <1>2, <6>1, <6>2
        <5> QED
          BY <1>1, <1>2, <5>1, <5>2
      <4> QED
        BY <4>1, <4>2
    <3>6. q.entries = t
      BY <1>6, <2>2 DEF t
    <3> HIDE DEF G
    <3>7. ToSet(t) = G
      BY <1>1, <3>1, <3>5 DEF ToSet
    <3> QED
      BY <3>1, <3>3, <3>6, <3>7
  <2> HIDE DEF G, s, N
  <2> QED
    BY <2>1, <2>2
<1>8. p.bloom \in SUBSET (0..(M - 1)) /\ \A e \in F : MayContain(p.bloom, e.id)
  BY DEF PrimaryHolds
<1>9. /\ q.bloom \in SUBSET (0..(M - 1)) /\ p.bloom \subseteq q.bloom
      /\ MayContain(q.bloom, id)
  BY <1>5, <1>8, BitsInFilter
<1>10. \A e \in G : MayContain(q.bloom, e.id)
  BY <1>3, <1>8, <1>9 DEF MayContain
<1> HIDE DEF G
<1> QED
  BY <1>5, <1>7, <1>9, <1>10 DEF PrimaryHolds, G, q

\* Remove takes the entry of id away, if there is one; its bits stay.
LEMMA RemoveFromHeld ==
  ASSUME NEW p, NEW F, PrimaryHolds(p, F), NEW id \in Ids
  PROVE  PrimaryHolds(RemoveEntry(p, id), {e \in F : e.id # id})
<1> DEFINE s == p.entries
           N == Len(s)
           i == BinarySearch(s, id)
           G == {e \in F : e.id # id}
<1>1. s \in Seq(Entries) /\ SortedById(s) /\ F = {s[k] : k \in 1..N} /\ N \in Nat
  BY DEF PrimaryHolds, ToSet
<1>11. \A j, k \in 1..N : j < k => s[j].id < s[k].id
  BY <1>1 DEF SortedById
<1>2. \/ i \in 1..N /\ s[i].id = id
      \/ i = 0 /\ \A k \in 1..N : s[k].id # id
  BY <1>1, BinarySearchFinds
<1>3. \A k \in 1..N : s[k].id \in Nat /\ s[k] \in Entries
  BY <1>1, EntryTypes
<1>4. CASE i = 0 /\ \A k \in 1..N : s[k].id # id
  <2>1. RemoveEntry(p, id) = p
    BY <1>4 DEF RemoveEntry
  <2>2. G = F
    BY <1>1, <1>4
  <2> QED
    BY <2>1, <2>2
<1>5. CASE i \in 1..N /\ s[i].id = id
  <2> DEFINE t == RemoveAt(s, i)
  <2>1. RemoveEntry(p, id) = [p EXCEPT !.entries = t]
    BY <1>5 DEF RemoveEntry
  <2>2. /\ t \in Seq(Entries) /\ Len(t) = N - 1
        /\ \A j \in 1..(N - 1) : t[j] = IF j < i THEN s[j] ELSE s[j + 1]
    BY <1>1, <1>5, RemoveAtElements
  <2> HIDE DEF t, i
  <2>3. SortedById(t)
    <3>1. SUFFICES ASSUME NEW j \in 1..(N - 1), NEW k \in 1..(N - 1), j < k
                   PROVE  t[j].id < t[k].id
      BY <2>2 DEF SortedById
    <3>2. CASE k < i
      <4>1. t[j] = s[j] /\ t[k] = s[k] /\ j \in 1..N /\ k \in 1..N
        BY <1>1, <1>5, <2>2, <3>1, <3>2
      <4> QED
        BY <1>11, <3>1, <4>1
    <3>3. CASE k >= i /\ j < i
      <4>1. t[j] = s[j] /\ t[k] = s[k + 1] /\ j \in 1..N /\ k + 1 \in 1..N /\ j < k + 1
        BY <1>1, <1>5, <2>2, <3>1, <3>3
      <4> QED
        BY <1>11, <4>1
    <3>4. CASE k >= i /\ j >= i
      <4>1. /\ t[j] = s[j + 1] /\ t[k] = s[k + 1]
            /\ j + 1 \in 1..N /\ k + 1 \in 1..N /\ j + 1 < k + 1
        BY <1>1, <1>5, <2>2, <3>1, <3>4
      <4> QED
        BY <1>11, <4>1
    <3> QED
      BY <1>5, <3>1, <3>2, <3>3, <3>4
  <2>4. \A j \in 1..N : s[j].id = id => j = i
    BY <1>1, <1>3, <1>5 DEF SortedById
  <2>5. {t[j] : j \in 1..(N - 1)} = G
    <3>1. ASSUME NEW j \in 1..(N - 1)
          PROVE  t[j] \in G
      <4>1. CASE j < i
        <5>1. t[j] = s[j] /\ j \in 1..N /\ j # i
          BY <1>1, <1>5, <2>2, <4>1
        <5> QED
          BY <1>1, <2>4, <5>1
      <4>2. CASE j >= i
        <5>1. t[j] = s[j + 1] /\ j + 1 \in 1..N /\ j + 1 # i
          BY <1>1, <1>5, <2>2, <4>2
        <5> QED
          BY <1>1, <2>4, <5>1
      <4> QED
        BY <1>5, <4>1, <4>2
    <3>2. ASSUME NEW k \in 1..N, s[k].id # id
          PROVE  \E j \in 1..(N - 1) : t[j] = s[k]
      <4>1. CASE k < i
        BY <1>1, <1>5, <2>2, <4>1
      <4>2. CASE k > i
        <5>1. k - 1 \in 1..(N - 1) /\ ~(k - 1 < i) /\ (k - 1) + 1 = k
          BY <1>1, <1>5, <4>2
        <5> QED
          BY <2>2, <5>1
      <4> QED
        BY <1>1, <1>5, <3>2, <4>1, <4>2
    <3> QED
      BY <1>1, <3>1, <3>2
  <2>6. p \in [entries : Seq(Entries), bloom : SUBSET (0..(M - 1))]
    BY DEF PrimaryHolds
  <2>7. /\ RemoveEntry(p, id) \in [entries : Seq(Entries), bloom : SUBSET (0..(M - 1))]
        /\ RemoveEntry(p, id).entries = t /\ RemoveEntry(p, id).bloom = p.bloom
    BY <2>1, <2>2, <2>6
  <2>8. ToSet(t) = G
    BY <2>2, <2>5 DEF ToSet
  <2>9. \A e \in G : MayContain(p.bloom, e.id)
    BY DEF PrimaryHolds
  <2> HIDE DEF G
  <2> QED
    BY <2>3, <2>7, <2>8, <2>9 DEF PrimaryHolds, G
<1> QED
  BY <1>2, <1>4, <1>5

\* A new index holds nothing.
LEMMA NoEntries ==
  PrimaryHolds(EmptyPrimary, {})
<1>1. /\ EmptyPrimary \in [entries : Seq(Entries), bloom : SUBSET (0..(M - 1))]
      /\ EmptyPrimary.entries = <<>>
  BY DEF EmptyPrimary
<1>2. SortedById(<<>>) /\ ToSet(<<>>) = {}
  BY DEF SortedById, ToSet
<1> QED
  BY <1>1, <1>2 DEF PrimaryHolds

\* An index filled entry by entry holds what was filed, in whatever order.
LEMMA AddAllHolds ==
  ASSUME NEW entries \in Seq(Entries),
         \A j, k \in 1..Len(entries) : entries[j].id = entries[k].id => j = k
  PROVE  PrimaryHolds(AddAll(entries), ToSet(entries))
<1> DEFINE N == Len(entries)
           State == {p \in [entries : Seq(Entries), bloom : SUBSET (0..(M - 1))] :
                       PrimaryHolds(p, ToSet(p.entries))}
           Turn(p, n) == AddEntry(p, entries[n].id, entries[n].offset)
           step == [s \in (1..N) \X State |-> Turn(s[2], s[1])]
           added == CHOOSE t : t = [n \in 0..N |-> IF n = 0 THEN EmptyPrimary
                                                   ELSE Turn(t[n - 1], n)]
           Good == [n \in 0..N |-> {p \in State : PrimaryHolds(p, {entries[k] : k \in 1..n})}]
<1>1. N \in Nat
  OBVIOUS
<1>2. PrimaryHolds(EmptyPrimary, {}) /\ EmptyPrimary \in State
  BY NoEntries DEF PrimaryHolds
<1>3. ASSUME NEW p \in State, NEW n \in 1..N
      PROVE  Turn(p, n) \in State
  <2>1. entries[n].id \in Ids /\ entries[n].offset \in Recs
    BY EntryTypes
  <2>2. PrimaryHolds(p, ToSet(p.entries))
    OBVIOUS
  <2> DEFINE id == entries[n].id
             offset == entries[n].offset
             F == ToSet(p.entries)
  <2> HIDE DEF id, offset, F, State
  <2>3. PrimaryHolds(AddEntry(p, id, offset), {e \in F : e.id # id} \cup {Entry(id, offset)})
    BY <2>1, <2>2, AddToHeld DEF id, offset, F
  <2>4. PrimaryHolds(Turn(p, n), {e \in F : e.id # id} \cup {Entry(id, offset)})
    BY <2>3 DEF id, offset, Turn
  <2> HIDE DEF Turn
  <2> QED
    BY <2>4 DEF PrimaryHolds, State
<1>4. step \in [(1..N) \X State -> State]
  BY <1>3
<1> HIDE DEF Turn
<1>5. \E f : f = [n \in 0..N |-> IF n = 0 THEN EmptyPrimary ELSE Turn(f[n - 1], n)]
  <2> HIDE DEF State
  <2>1. PICK f : IsLoop(f, N, State, EmptyPrimary, step)
    <3> HIDE DEF step, N
    <3> QED
      BY <1>1, <1>2, <1>4, LoopExists
  <2>2. ASSUME NEW n \in 1..N
        PROVE  f[n] = Turn(f[n - 1], n)
    <3>1. n \in 1..N /\ n - 1 \in 0..N /\ f[n - 1] \in State
      BY <1>1, <2>1 DEF IsLoop
    <3>2. <<n, f[n - 1]>> \in (1..N) \X State
      BY <3>1
    <3> QED
      BY <2>1, <3>2 DEF IsLoop
  <2> HIDE DEF step, N
  <2>3. f = [n \in 0..N |-> f[n]] /\ f[0] = EmptyPrimary
    BY <2>1 DEF IsLoop
  <2> QED
    BY <1>1, <2>2, <2>3
<1>6. added = [n \in 0..N |-> IF n = 0 THEN EmptyPrimary ELSE Turn(added[n - 1], n)]
  BY <1>5
<1>7. AddAll(entries) = added[N]
  BY DEF AddAll, Turn
<1> HIDE DEF added, N
<1>8. added[0] \in Good[0]
  <2>1. added[0] = EmptyPrimary /\ 0 \in 0..N
    BY <1>1, <1>6
  <2>2. {entries[k] : k \in 1..0} = {}
    OBVIOUS
  <2> HIDE DEF State
  <2> QED
    BY <1>2, <2>1, <2>2
<1>9. ASSUME NEW n \in 1..N, added[n - 1] \in Good[n - 1]
      PROVE  added[n] \in Good[n]
  <2> DEFINE F == {entries[k] : k \in 1..(n - 1)}
             e == entries[n]
  <2>1. n - 1 \in 0..N /\ n \in 0..N /\ n # 0
    BY <1>1
  <2>2. added[n] = Turn(added[n - 1], n)
    BY <1>6, <2>1
  <2>3. added[n - 1] \in State /\ PrimaryHolds(added[n - 1], F)
    BY <1>9, <2>1
  <2>4. e \in Entries /\ e.id \in Ids /\ e.offset \in Recs /\ e = Entry(e.id, e.offset)
    <3>1. e \in Entries /\ e.id \in Ids /\ e.offset \in Recs
      BY EntryTypes DEF N
    <3>2. e = [id |-> e.id, offset |-> e.offset]
      <4> HIDE DEF e
      <4> QED
        BY <3>1 DEF Entries
    <3> QED
      BY <3>1, <3>2 DEF Entry
  <2>5. PrimaryHolds(added[n], {d \in F : d.id # e.id} \cup {e})
    <3> HIDE DEF F, State, Good
    <3>1. PrimaryHolds(Turn(added[n - 1], n), {d \in F : d.id # e.id} \cup {Entry(e.id, e.offset)})
      <4> HIDE DEF e
      <4>1. PrimaryHolds(AddEntry(added[n - 1], e.id, e.offset), {d \in F : d.id # e.id} \cup {Entry(e.id, e.offset)})
        BY <2>3, <2>4, AddToHeld
      <4> QED
        BY <4>1 DEF Turn, e
    <3> QED
      BY <2>2, <2>4, <3>1
  <2>6. {d \in F : d.id # e.id} \cup {e} = {entries[k] : k \in 1..n}
    <3>1. \A k \in 1..(n - 1) : k \in 1..N /\ k # n
      BY <1>1
    <3>2. \A k \in 1..(n - 1) : entries[k].id # e.id
      BY <3>1 DEF N
    <3>3. 1..n = 1..(n - 1) \cup {n}
      BY <1>1
    <3> QED
      BY <3>2, <3>3
  <2>7. added[n] \in State
    BY <1>3, <2>2, <2>3
  <2> HIDE DEF State, F, e
  <2> QED
    BY <2>1, <2>5, <2>6, <2>7
<1>10. added[N] \in Good[N]
  <2> HIDE DEF Good
  <2>1. \A n \in 0..N : added[n] \in Good[n]
    BY <1>1, <1>8, <1>9, LoopInvariant
  <2> QED
    BY <1>1, <2>1
<1>11. ToSet(entries) = {entries[k] : k \in 1..N}
  BY DEF ToSet, N
<1> HIDE DEF State
<1> QED
  BY <1>1, <1>7, <1>10, <1>11

------------------------------------------------------------------------------
(* The secondary index *)

\* The list of a key, which may not be there.
ListOf(sec, key) == IF key \in DOMAIN sec THEN sec[key] ELSE <<>>

\* The pairs of a record that is filed under keys.
Filing(keys, rec) == keys \X {rec}

\* The lists hold the pairs of a key and a record that are in P, each once, and none is empty.
ListsHold(sec, P) ==
  /\ sec \in Postings
  /\ P \subseteq (Fields \X Prints) \X Recs
  /\ \A key \in DOMAIN sec : sec[key] # <<>>
  /\ \A key \in Fields \X Prints :
       /\ IsInjective(ListOf(sec, key))
       /\ ToSet(ListOf(sec, key)) = {rec \in Recs : <<key, rec>> \in P}

\* The keys of a document are fields with printed values.
LEMMA KeysTyped ==
  ASSUME NEW doc \in Docs
  PROVE  SecondaryKeys(doc) \subseteq Fields \X Prints
BY ValuesAssumption DEF Docs, SecondaryKeys

\* Lists of records by key...
LEMMA PostingsTyped ==
  ASSUME NEW sec \in Postings
  PROVE  /\ sec = [key \in DOMAIN sec |-> sec[key]]
         /\ DOMAIN sec \subseteq Fields \X Prints
         /\ \A key \in DOMAIN sec : sec[key] \in Seq(Recs)
         /\ \A key \in Fields \X Prints : ListOf(sec, key) \in Seq(Recs)
<1>1. PICK S \in SUBSET (Fields \X Prints) : sec \in [S -> Seq(Recs)]
  BY DEF Postings
<1> QED
  BY <1>1 DEF ListOf

\* ... and what it takes to be one.
LEMMA IsPostings ==
  ASSUME NEW S \in SUBSET (Fields \X Prints), NEW sec \in [S -> Seq(Recs)]
  PROVE  sec \in Postings
BY DEF Postings

\* A record more at the end of a list that does not hold it.
LEMMA AppendOnce ==
  ASSUME NEW s \in Seq(Recs), NEW rec \in Recs, IsInjective(s), rec \notin ToSet(s)
  PROVE  /\ Append(s, rec) \in Seq(Recs)
         /\ IsInjective(Append(s, rec))
         /\ ToSet(Append(s, rec)) = ToSet(s) \cup {rec}
         /\ Append(s, rec) # <<>>
<1>1. Len(Append(s, rec)) = Len(s) + 1 /\ Len(s) \in Nat
  OBVIOUS
<1>2. Append(s, rec) # <<>>
  BY <1>1
<1> QED
  BY <1>2, AppendElements

\* There is nothing in an empty list.
LEMMA EmptyList ==
  /\ <<>> \in Seq(Recs)
  /\ IsInjective(<<>>)
  /\ ToSet(<<>>) = {}
BY DEF IsInjective, ToSet

\* The inner loop of RemoveDoc keeps all but the record removed, in their order.
LEMMA FilteredWithout ==
  ASSUME NEW list \in Seq(Recs), IsInjective(list), NEW rec
  PROVE  /\ Filtered(list, rec) \in Seq(Recs)
         /\ IsInjective(Filtered(list, rec))
         /\ ToSet(Filtered(list, rec)) = ToSet(list) \ {rec}
<1> DEFINE N == Len(list)
           Others == {n \in 1..N : list[n] # rec}
           kept[n \in 0..N] == IF n = 0 THEN <<>>
                               ELSE IF list[n] = rec THEN kept[n - 1]
                               ELSE Append(kept[n - 1], list[n])
<1>1. N \in Nat /\ DOMAIN list = 1..N /\ list \in [1..N -> Recs]
  OBVIOUS
<1>2. Filtered(list, rec) = kept[N]
  BY DEF Filtered
<1>3. ASSUME NEW f, NEW n \in 0..N
      PROVE  (IF n = 0 THEN <<>> ELSE IF n \in Others THEN Append(f[n - 1], list[n]) ELSE f[n - 1])
             = (IF n = 0 THEN <<>> ELSE IF list[n] = rec THEN f[n - 1]
                ELSE Append(f[n - 1], list[n]))
  BY <1>1
<1> HIDE DEF N, Others
<1>4. PICK f : IsFilter(f, N, Others, list)
  BY <1>1, FilterExists
<1>5. f = [n \in 0..N |-> IF n = 0 THEN <<>> ELSE IF list[n] = rec THEN f[n - 1]
                          ELSE Append(f[n - 1], list[n])]
  BY <1>3, <1>4, Zenon DEF IsFilter
<1>6. kept = [n \in 0..N |-> IF n = 0 THEN <<>> ELSE IF list[n] = rec THEN kept[n - 1]
                             ELSE Append(kept[n - 1], list[n])]
  BY <1>5, Zenon
<1> HIDE DEF kept
<1>7. IsFilter(kept, N, Others, list)
  BY <1>3, <1>6, Zenon DEF IsFilter
<1>8. /\ kept[N] \in Seq(Recs)
      /\ ToSet(kept[N]) = Picked(N, Others, list)
      /\ Distinct(N, Others, list) => IsInjective(kept[N])
  BY <1>1, <1>7, FilterKeeps
<1>9. Distinct(N, Others, list)
  BY <1>1 DEF IsInjective, Distinct
<1>10. Picked(N, Others, list) = ToSet(list) \ {rec}
  BY <1>1 DEF ToSet, Others, Picked
<1>11. IsInjective(kept[N])
  BY <1>8, <1>9
<1>12. ToSet(kept[N]) = ToSet(list) \ {rec}
  BY <1>8, <1>10
<1> QED
  BY <1>2, <1>8, <1>11, <1>12

\* Who is under a key when a record is filed under some, or taken from under them.
LEMMA UnderKey ==
  ASSUME NEW P, NEW keys, NEW rec \in Recs, NEW key
  PROVE  /\ {r \in Recs : <<key, r>> \in P \cup Filing(keys, rec)} =
              IF key \in keys THEN {r \in Recs : <<key, r>> \in P} \cup {rec}
                              ELSE {r \in Recs : <<key, r>> \in P}
         /\ {r \in Recs : <<key, r>> \in P \ Filing(keys, rec)} =
              IF key \in keys THEN {r \in Recs : <<key, r>> \in P} \ {rec}
                              ELSE {r \in Recs : <<key, r>> \in P}
<1>1. \A r : <<key, r>> \in Filing(keys, rec) <=> key \in keys /\ r = rec
  BY DEF Filing
<1>2. CASE key \in keys
  BY <1>1, <1>2
<1>3. CASE key \notin keys
  BY <1>1, <1>3
<1> QED
  BY <1>2, <1>3

\* AddDoc puts a record that no list holds in the lists of the keys of a document.
LEMMA AddToLists ==
  ASSUME NEW sec, NEW P, ListsHold(sec, P), NEW doc \in Docs, NEW rec \in Recs,
         \A pair \in P : pair[2] # rec
  PROVE  ListsHold(SecondaryAdd(sec, doc, rec), P \cup Filing(SecondaryKeys(doc), rec))
<1> DEFINE keys == SecondaryKeys(doc)
           t == SecondaryAdd(sec, doc, rec)
           S == DOMAIN sec \cup keys
           Q == P \cup Filing(keys, rec)
<1>1. keys \subseteq Fields \X Prints
  BY KeysTyped
<1>2. /\ sec \in Postings /\ DOMAIN sec \subseteq Fields \X Prints
      /\ \A key \in Fields \X Prints : ListOf(sec, key) \in Seq(Recs)
  BY PostingsTyped DEF ListsHold
<1>3. ASSUME NEW key \in Fields \X Prints
      PROVE  /\ ListOf(t, key) = IF key \in keys THEN Append(ListOf(sec, key), rec)
                                               ELSE ListOf(sec, key)
             /\ key \in S => t[key] = ListOf(t, key)
  <2>1. t = [k \in S |-> ListOf(sec, k) \o (IF k \in keys THEN <<rec>> ELSE <<>>)]
    BY DEF SecondaryAdd, ListOf
  <2>2. ListOf(sec, key) \in Seq(Recs)
    BY <1>2
  <2>3. ListOf(sec, key) \o <<rec>> = Append(ListOf(sec, key), rec)
    BY <2>2, AppendIsConcat
  <2>4. ListOf(sec, key) \o <<>> = ListOf(sec, key)
    BY <2>2, ConcatEmptySeq
  <2> HIDE DEF t
  <2>5. CASE key \in keys
    <3>1. key \in DOMAIN t /\ t[key] = ListOf(sec, key) \o <<rec>>
      BY <2>1, <2>5
    <3> QED
      BY <2>3, <2>5, <3>1 DEF ListOf
  <2>6. CASE key \notin keys /\ key \in DOMAIN sec
    <3>1. key \in DOMAIN t /\ t[key] = ListOf(sec, key) \o <<>>
      BY <2>1, <2>6
    <3> QED
      BY <2>4, <2>6, <3>1 DEF ListOf
  <2>7. CASE key \notin S
    <3>1. key \notin DOMAIN t
      BY <2>1, <2>7
    <3> QED
      BY <2>7, <3>1 DEF ListOf
  <2> QED
    BY <2>5, <2>6, <2>7
<1>4. DOMAIN t = S /\ t = [k \in S |-> t[k]]
  BY DEF SecondaryAdd
<1> HIDE DEF t, keys
<1>5. ASSUME NEW key \in Fields \X Prints
      PROVE  /\ ListOf(t, key) \in Seq(Recs)
             /\ IsInjective(ListOf(t, key))
             /\ ToSet(ListOf(t, key)) = {r \in Recs : <<key, r>> \in Q}
             /\ key \in S => ListOf(t, key) # <<>>
  <2>1. /\ IsInjective(ListOf(sec, key))
        /\ ToSet(ListOf(sec, key)) = {r \in Recs : <<key, r>> \in P}
        /\ ListOf(sec, key) \in Seq(Recs)
    BY <1>2 DEF ListsHold
  <2>2. CASE key \in keys
    <3>1. rec \notin ToSet(ListOf(sec, key))
      <4>1. <<key, rec>> \in P => <<key, rec>>[2] # rec
        OBVIOUS
      <4> QED
        BY <2>1, <4>1
    <3>2. ListOf(t, key) = Append(ListOf(sec, key), rec)
      BY <1>3, <2>2
    <3>3. /\ ListOf(t, key) \in Seq(Recs) /\ IsInjective(ListOf(t, key))
          /\ ToSet(ListOf(t, key)) = ToSet(ListOf(sec, key)) \cup {rec}
          /\ ListOf(t, key) # <<>>
      BY <2>1, <3>1, <3>2, AppendOnce
    <3>4. {r \in Recs : <<key, r>> \in Q} = {r \in Recs : <<key, r>> \in P} \cup {rec}
      BY <2>2, UnderKey
    <3> QED
      BY <2>1, <3>3, <3>4
  <2>3. CASE key \notin keys
    <3>1. ListOf(t, key) = ListOf(sec, key)
      BY <1>3, <2>3
    <3>2. key \in S => key \in DOMAIN sec /\ ListOf(t, key) = sec[key] /\ sec[key] # <<>>
      BY <2>3, <3>1 DEF ListOf, ListsHold
    <3>3. {r \in Recs : <<key, r>> \in Q} = {r \in Recs : <<key, r>> \in P}
      BY <2>3, UnderKey
    <3> QED
      BY <2>1, <3>1, <3>2, <3>3
  <2> QED
    BY <2>2, <2>3
<1>6. S \subseteq Fields \X Prints
  BY <1>1, <1>2
<1>7. \A key \in S : t[key] \in Seq(Recs) /\ t[key] # <<>>
  BY <1>3, <1>5, <1>6
<1> HIDE DEF S
<1>8. t \in [S -> Seq(Recs)]
  BY <1>4, <1>7
<1>9. t \in Postings
  BY <1>6, <1>8, IsPostings
<1>10. Q \subseteq (Fields \X Prints) \X Recs
  BY <1>1 DEF ListsHold, Filing
<1> HIDE DEF Q
<1>11. ListsHold(t, Q)
  BY <1>4, <1>5, <1>7, <1>9, <1>10 DEF ListsHold
<1> QED
  BY <1>11 DEF t, Q, keys

\* RemoveDoc takes a record out of the lists of its keys, and lists that become empty out of the map.
LEMMA RemoveFromLists ==
  ASSUME NEW sec, NEW P, ListsHold(sec, P), NEW rec \in Recs
  PROVE  ListsHold(SecondaryRemove(sec, rec), P \ Filing(SecondaryKeys(rec.doc), rec))
<1> DEFINE keys == SecondaryKeys(rec.doc)
           t == SecondaryRemove(sec, rec)
           Kept(key) == IF key \in keys THEN Filtered(sec[key], rec) ELSE sec[key]
           S == {k \in DOMAIN sec : Kept(k) # <<>>}
           Q == P \ Filing(keys, rec)
<1>1. /\ sec \in Postings /\ DOMAIN sec \subseteq Fields \X Prints
      /\ \A key \in Fields \X Prints : ListOf(sec, key) \in Seq(Recs)
  BY PostingsTyped DEF ListsHold
<1>2. t = [key \in S |-> Kept(key)]
  BY DEF SecondaryRemove
<1> HIDE DEF t, keys
<1>3. ASSUME NEW key \in DOMAIN sec
      PROVE  /\ Kept(key) \in Seq(Recs)
             /\ IsInjective(Kept(key))
             /\ ToSet(Kept(key)) = {r \in Recs : <<key, r>> \in Q}
  <2>1. /\ sec[key] \in Seq(Recs) /\ IsInjective(sec[key])
        /\ ToSet(sec[key]) = {r \in Recs : <<key, r>> \in P}
    <3>1. sec[key] = ListOf(sec, key) /\ key \in Fields \X Prints
      BY <1>1 DEF ListOf
    <3> QED
      BY <1>1, <3>1 DEF ListsHold
  <2>2. CASE key \in keys
    <3>1. /\ Filtered(sec[key], rec) \in Seq(Recs) /\ IsInjective(Filtered(sec[key], rec))
          /\ ToSet(Filtered(sec[key], rec)) = ToSet(sec[key]) \ {rec}
      BY <2>1, FilteredWithout
    <3>2. {r \in Recs : <<key, r>> \in Q} = {r \in Recs : <<key, r>> \in P} \ {rec}
      BY <2>2, UnderKey
    <3> QED
      BY <2>1, <2>2, <3>1, <3>2
  <2>3. CASE key \notin keys
    <3>1. {r \in Recs : <<key, r>> \in Q} = {r \in Recs : <<key, r>> \in P}
      BY <2>3, UnderKey
    <3> QED
      BY <2>1, <2>3, <3>1
  <2> QED
    BY <2>2, <2>3
<1> HIDE DEF Kept
<1>4. ASSUME NEW key \in Fields \X Prints
      PROVE  /\ IsInjective(ListOf(t, key))
             /\ ToSet(ListOf(t, key)) = {r \in Recs : <<key, r>> \in Q}
  <2>1. CASE key \in S
    <3>1. ListOf(t, key) = Kept(key) /\ key \in DOMAIN sec
      BY <1>2, <2>1 DEF ListOf
    <3> QED
      BY <1>3, <3>1
  <2>2. CASE key \notin S
    <3>1. ListOf(t, key) = <<>>
      BY <1>2, <2>2 DEF ListOf
    <3>2. CASE key \in DOMAIN sec
      <4>1. Kept(key) = <<>>
        BY <2>2, <3>2
      <4> QED
        BY <1>3, <3>1, <3>2, <4>1
    <3>3. CASE key \notin DOMAIN sec
      <4>1. ToSet(ListOf(sec, key)) = {} /\ ListOf(sec, key) = <<>>
        BY <3>3, EmptyList DEF ListOf
      <4>2. {r \in Recs : <<key, r>> \in P} = {}
        BY <4>1 DEF ListsHold
      <4> QED
        BY <3>1, <4>2, EmptyList
    <3> QED
      BY <3>2, <3>3
  <2> QED
    BY <2>1, <2>2
<1>5. S \in SUBSET (Fields \X Prints) /\ t \in [S -> Seq(Recs)]
  BY <1>1, <1>2, <1>3
<1>6. t \in Postings
  <2> HIDE DEF S
  <2> QED
    BY <1>5, IsPostings
<1>7. \A key \in DOMAIN t : t[key] # <<>>
  BY <1>2
<1>8. Q \subseteq (Fields \X Prints) \X Recs
  BY DEF ListsHold
<1> HIDE DEF Q
<1>9. ListsHold(t, Q)
  BY <1>4, <1>6, <1>7, <1>8 DEF ListsHold
<1> QED
  BY <1>9 DEF t, Q, keys

\* What is saved is what is loaded: there is no empty list that loading would lose.
LEMMA LoadKeepsLists ==
  ASSUME NEW sec, NEW P, ListsHold(sec, P)
  PROVE  SecondaryLoad(sec) = sec
<1>1. sec = [key \in DOMAIN sec |-> sec[key]] /\ \A key \in DOMAIN sec : sec[key] # <<>>
  BY PostingsTyped DEF ListsHold
<1>2. {k \in DOMAIN sec : sec[k] # <<>>} = DOMAIN sec
  BY <1>1
<1> QED
  BY <1>1, <1>2 DEF SecondaryLoad

\* No lists hold no records.
LEMMA NoLists ==
  ListsHold(EmptyDoc, {}) /\ DOMAIN EmptyDoc = {}
<1>1. EmptyDoc \in [{} -> Seq(Recs)] /\ DOMAIN EmptyDoc = {}
  BY DEF EmptyDoc
<1>2. EmptyDoc \in Postings
  BY <1>1, IsPostings
<1>3. \A key \in Fields \X Prints : ListOf(EmptyDoc, key) = <<>>
  BY <1>1 DEF ListOf
<1> QED
  BY <1>1, <1>2, <1>3, EmptyList DEF ListsHold

\* The records that are read, each under the keys keysOf gives to its document.
Readings(keysOf, R) == UNION {Filing(keysOf[rec.doc], rec) : rec \in R}

\* The keys of the lists, and of the trees, by document.
ListKeys == [doc \in Docs |-> SecondaryKeys(doc)]
TreeKeys == [doc \in Docs |-> RangeKeys(doc)]

LEMMA OneMoreReading ==
  ASSUME NEW keysOf, NEW R, NEW rec
  PROVE  Readings(keysOf, R \cup {rec}) = Readings(keysOf, R) \cup Filing(keysOf[rec.doc], rec)
BY DEF Readings

LEMMA NoReadings ==
  ASSUME NEW keysOf
  PROVE  Readings(keysOf, {}) = {}
BY DEF Readings

\* A pair of the readings names a record that is read.
LEMMA ReadingsOf ==
  ASSUME NEW keysOf, NEW R, NEW pair \in Readings(keysOf, R)
  PROVE  /\ pair[2] \in R /\ pair[1] \in keysOf[pair[2].doc]
         /\ pair = <<pair[1], pair[2]>>
<1>1. PICK rec \in R : pair \in Filing(keysOf[rec.doc], rec)
  BY DEF Readings
<1> QED
  BY <1>1 DEF Filing

\* Lists filled record by record hold the records, in whatever order.
LEMMA AddDocsHolds ==
  ASSUME NEW recs \in Seq(Recs), IsInjective(recs)
  PROVE  ListsHold(AddDocs(recs), Readings(ListKeys, ToSet(recs)))
<1> DEFINE N == Len(recs)
           Turn(s, n) == SecondaryAdd(s, recs[n].doc, recs[n])
           step == [s \in (1..N) \X Postings |-> Turn(s[2], s[1])]
           added == CHOOSE t : t = [n \in 0..N |-> IF n = 0 THEN EmptyDoc ELSE Turn(t[n - 1], n)]
           Done(n) == Readings(ListKeys, {recs[k] : k \in 1..n})
           Good == [n \in 0..N |-> {s \in Postings : ListsHold(s, Done(n))}]
<1>1. N \in Nat /\ DOMAIN recs = 1..N /\ \A n \in 1..N : recs[n] \in Recs /\ recs[n].doc \in Docs
  <2>1. N \in Nat /\ DOMAIN recs = 1..N /\ \A n \in 1..N : recs[n] \in Recs
    OBVIOUS
  <2>2. \A rec \in Recs : rec.doc \in Docs
    BY DEF Recs
  <2> QED
    BY <2>1, <2>2
<1>2. ASSUME NEW s \in Postings, NEW rec \in Recs
      PROVE  SecondaryAdd(s, rec.doc, rec) \in Postings
  <2> DEFINE keys == SecondaryKeys(rec.doc)
             S == DOMAIN s \cup keys
  <2>1. S \in SUBSET (Fields \X Prints)
    BY PostingsTyped, KeysTyped DEF Recs
  <2>2. \A key \in S : ListOf(s, key) \in Seq(Recs)
    BY <2>1, PostingsTyped
  <2> HIDE DEF S, keys
  <2>3. SecondaryAdd(s, rec.doc, rec) = [key \in S |-> ListOf(s, key) \o (IF key \in keys THEN <<rec>> ELSE <<>>)]
    BY DEF SecondaryAdd, ListOf, S, keys
  <2>4. \A key \in S : ListOf(s, key) \o (IF key \in keys THEN <<rec>> ELSE <<>>) \in Seq(Recs)
    <3>1. <<rec>> \in Seq(Recs) /\ <<>> \in Seq(Recs)
      OBVIOUS
    <3> QED
      BY <2>2, <3>1, ConcatProperties
  <2>5. SecondaryAdd(s, rec.doc, rec) \in [S -> Seq(Recs)]
    BY <2>3, <2>4
  <2> QED
    BY <2>1, <2>5, IsPostings
<1>3. step \in [(1..N) \X Postings -> Postings]
  BY <1>1, <1>2
<1>4. EmptyDoc \in Postings
  BY NoLists DEF ListsHold
<1>5. \E f : f = [n \in 0..N |-> IF n = 0 THEN EmptyDoc ELSE Turn(f[n - 1], n)]
  <2> HIDE DEF Turn
  <2>1. N \in Nat
    BY <1>1
  <2>2. PICK f : IsLoop(f, N, Postings, EmptyDoc, step)
    <3> HIDE DEF step, N
    <3> QED
      BY <2>1, <1>3, <1>4, LoopExists
  <2>3. ASSUME NEW n \in 1..N
        PROVE  f[n] = Turn(f[n - 1], n)
    <3>1. <<n, f[n - 1]>> \in (1..N) \X Postings
      BY <2>1, <2>2 DEF IsLoop
    <3> QED
      BY <2>2, <3>1 DEF IsLoop
  <2> HIDE DEF step, N
  <2>4. f = [n \in 0..N |-> f[n]] /\ f[0] = EmptyDoc
    BY <2>2 DEF IsLoop
  <2>5. ASSUME NEW n \in 0..N
        PROVE  f[n] = IF n = 0 THEN EmptyDoc ELSE Turn(f[n - 1], n)
    BY <2>1, <2>3, <2>4
  <2>6. f = [n \in 0..N |-> IF n = 0 THEN EmptyDoc ELSE Turn(f[n - 1], n)]
    BY <2>4, <2>5, Zenon
  <2> QED
    BY <2>6
<1>6. added = [n \in 0..N |-> IF n = 0 THEN EmptyDoc ELSE Turn(added[n - 1], n)]
  BY <1>5
<1>7. AddDocs(recs) = added[N]
  BY DEF AddDocs
<1> HIDE DEF added, N, Done
<1>8. added[0] \in Good[0]
  <2>1. added[0] = EmptyDoc /\ 0 \in 0..N
    BY <1>1, <1>6
  <2>2. Done(0) = {}
    <3>1. {recs[k] : k \in 1..0} = {}
      OBVIOUS
    <3> QED
      BY <3>1, NoReadings DEF Done
  <2> QED
    BY <1>4, <2>1, <2>2, NoLists
<1>9. ASSUME NEW n \in 1..N, added[n - 1] \in Good[n - 1]
      PROVE  added[n] \in Good[n]
  <2> DEFINE R == {recs[k] : k \in 1..(n - 1)}
             s == added[n - 1]
             rec == recs[n]
  <2>1. n - 1 \in 0..N /\ n \in 0..N /\ n # 0
    BY <1>1
  <2>2. added[n] = SecondaryAdd(s, rec.doc, rec)
    BY <1>6, <2>1
  <2>3. ListsHold(s, Done(n - 1)) /\ rec \in Recs /\ rec.doc \in Docs
    BY <1>1, <1>9, <2>1
  <2>4. {recs[k] : k \in 1..n} = R \cup {rec} /\ rec \notin R
    <3>1. 1..n = 1..(n - 1) \cup {n} /\ \A k \in 1..(n - 1) : k \in 1..N /\ k # n
      BY <1>1
    <3>2. \A k \in 1..(n - 1) : recs[k] # rec
      BY <1>1, <3>1 DEF IsInjective
    <3> QED
      BY <3>1, <3>2
  <2>5. Done(n - 1) = Readings(ListKeys, R)
    BY DEF Done
  <2>6. Done(n) = Done(n - 1) \cup Filing(ListKeys[rec.doc], rec)
    <3>1. Done(n) = Readings(ListKeys, R \cup {rec})
      BY <2>4 DEF Done
    <3>2. Readings(ListKeys, R \cup {rec}) = Readings(ListKeys, R) \cup Filing(ListKeys[rec.doc], rec)
      BY OneMoreReading
    <3> QED
      BY <2>5, <3>1, <3>2, Zenon
  <2>7. ListKeys[rec.doc] = SecondaryKeys(rec.doc)
    BY <2>3 DEF ListKeys
  <2> HIDE DEF R, s, rec
  <2>8. \A pair \in Done(n - 1) : pair[2] # rec
    BY <2>4, <2>5, ReadingsOf
  <2>9. ListsHold(added[n], Done(n))
    BY <2>2, <2>3, <2>6, <2>7, <2>8, AddToLists
  <2>10. added[n] \in Postings
    BY <2>9 DEF ListsHold
  <2> QED
    BY <2>1, <2>9, <2>10
<1>10. added[N] \in Good[N]
  <2> HIDE DEF Good
  <2>1. \A n \in 0..N : added[n] \in Good[n]
    BY <1>1, <1>8, <1>9, LoopInvariant
  <2> QED
    BY <1>1, <2>1
<1>11. ToSet(recs) = {recs[k] : k \in 1..N}
  BY <1>1 DEF ToSet
<1> QED
  BY <1>1, <1>7, <1>10, <1>11 DEF Done

------------------------------------------------------------------------------
(* The trees of the range index *)

\* The pairs of P that are of a field.
OfField(P, f) == {e \in Keys \X Recs : <<<<f, e[1]>>, e[2]>> \in P}

\* The trees are sound, and they hold the pairs of P: a field with a number, and a record.
TreesHold(ts, P) ==
  /\ ts \in [Fields -> Sound]
  /\ P \subseteq (Fields \X Keys) \X Recs
  /\ \A f \in Fields : Filed(ts[f]) = OfField(P, f)

\* A number of a document is a key.
LEMMA NumbersTyped ==
  ASSUME NEW doc \in Docs
  PROVE  /\ DOMAIN doc \subseteq Fields
         /\ \A f \in NumericFields(doc) :
              f \in Fields /\ doc[f] \in NumericVals /\ Num[doc[f]] \in Keys
         /\ RangeKeys(doc) = {<<f, Num[doc[f]]>> : f \in NumericFields(doc)}
         /\ RangeKeys(doc) \subseteq Fields \X Keys
<1>1. DOMAIN doc \subseteq Fields
  BY DEF Docs
<1>2. \A f \in NumericFields(doc) :
        f \in Fields /\ doc[f] \in NumericVals /\ Num[doc[f]] \in Keys
  BY <1>1, TreesAssumption DEF NumericFields
<1>3. RangeKeys(doc) = {<<f, Num[doc[f]]>> : f \in NumericFields(doc)}
  BY DEF RangeKeys, NumericFields
<1>4. RangeKeys(doc) \subseteq Fields \X Keys
  BY <1>2, <1>3
<1> QED
  BY <1>1, <1>2, <1>3, <1>4

\* What the tree of a field has of a record that is filed under the numbers of a document.
LEMMA UnderField ==
  ASSUME NEW doc \in Docs, NEW rec \in Recs, NEW f \in Fields
  PROVE  OfField(Filing(RangeKeys(doc), rec), f) =
           IF f \in NumericFields(doc) THEN {<<Num[doc[f]], rec>>} ELSE {}
<1>1. ASSUME NEW e \in Keys \X Recs
      PROVE  <<<<f, e[1]>>, e[2]>> \in Filing(RangeKeys(doc), rec) <=>
               f \in NumericFields(doc) /\ e = <<Num[doc[f]], rec>>
  <2>1. <<f, e[1]>> \in RangeKeys(doc) <=> f \in NumericFields(doc) /\ e[1] = Num[doc[f]]
    BY NumbersTyped
  <2>2. e = <<Num[doc[f]], rec>> <=> e[1] = Num[doc[f]] /\ e[2] = rec
    OBVIOUS
  <2>3. <<<<f, e[1]>>, e[2]>> \in Filing(RangeKeys(doc), rec) <=>
          <<f, e[1]>> \in RangeKeys(doc) /\ e[2] = rec
    BY DEF Filing
  <2> QED
    BY <2>1, <2>2, <2>3
<1>2. ASSUME f \in NumericFields(doc)
      PROVE  <<Num[doc[f]], rec>> \in Keys \X Recs
  BY <1>2, NumbersTyped
<1> DEFINE mine == <<Num[doc[f]], rec>>
<1> HIDE DEF mine
<1>3. \A e \in Keys \X Recs : <<<<f, e[1]>>, e[2]>> \in Filing(RangeKeys(doc), rec) <=>
                                f \in NumericFields(doc) /\ e = mine
  BY <1>1 DEF mine
<1>4. f \in NumericFields(doc) => mine \in Keys \X Recs
  BY <1>2 DEF mine
<1>5. OfField(Filing(RangeKeys(doc), rec), f) =
        IF f \in NumericFields(doc) THEN {mine} ELSE {}
  BY <1>3, <1>4 DEF OfField
<1> QED
  BY <1>5 DEF mine

\* AddDoc of the range index files a record in the trees of the numbers of a document.
LEMMA AddToTrees ==
  ASSUME NEW ts, NEW P, TreesHold(ts, P), NEW doc \in Docs, NEW rec \in Recs
  PROVE  TreesHold(TreesAdd(ts, doc, rec), P \cup Filing(RangeKeys(doc), rec))
<1> DEFINE us == TreesAdd(ts, doc, rec)
           Q == P \cup Filing(RangeKeys(doc), rec)
<1>1. /\ ts \in [Fields -> Sound] /\ P \subseteq (Fields \X Keys) \X Recs
      /\ \A f \in Fields : Filed(ts[f]) = OfField(P, f)
  BY DEF TreesHold
<1>2. rec \in Offsets
  BY TreesAssumption
<1>3. ASSUME NEW f \in Fields
      PROVE  us[f] \in Sound /\ Filed(us[f]) = OfField(Q, f)
  <2>1. us[f] = IF f \in NumericFields(doc)
                  THEN AvlInsert(ts[f], Num[doc[f]], rec) ELSE ts[f]
    BY DEF TreesAdd
  <2> HIDE DEF us
  <2>4. OfField(Q, f) = OfField(P, f) \cup OfField(Filing(RangeKeys(doc), rec), f)
    BY DEF OfField
  <2>2. CASE f \in NumericFields(doc)
    <3>1. Num[doc[f]] \in Keys
      BY <2>2, NumbersTyped
    <3>2. ts[f] \in AllTrees /\ Search(ts[f]) /\ AllTight(ts[f])
      BY <1>1 DEF Sound
    <3>3. Inserts(ts[f], us[f], <<Num[doc[f]], rec>>)
      BY <1>2, <2>1, <2>2, <3>1, <3>2, InsertKeeps
    <3>4. us[f] \in Sound /\ Filed(us[f]) = Filed(ts[f]) \cup {<<Num[doc[f]], rec>>}
      BY <3>3 DEF Inserts, Sound
    <3>5. OfField(Q, f) = OfField(P, f) \cup {<<Num[doc[f]], rec>>}
      BY <2>2, <2>4, UnderField
    <3> QED
      BY <1>1, <3>4, <3>5
  <2>3. CASE f \notin NumericFields(doc)
    <3>1. OfField(Q, f) = OfField(P, f)
      BY <2>3, <2>4, UnderField
    <3> QED
      BY <1>1, <2>1, <2>3, <3>1
  <2> QED
    BY <2>2, <2>3
<1>4. us = [f \in Fields |-> us[f]]
  BY DEF TreesAdd
<1>5. Q \subseteq (Fields \X Keys) \X Recs
  BY <1>1, NumbersTyped DEF Filing
<1> HIDE DEF us, Q
<1>6. us \in [Fields -> Sound]
  BY <1>3, <1>4
<1>7. TreesHold(us, Q)
  BY <1>3, <1>5, <1>6 DEF TreesHold
<1> QED
  BY <1>7 DEF us, Q

\* RemoveDoc takes it out of the trees of the numbers of its own.
LEMMA RemoveFromTrees ==
  ASSUME NEW ts, NEW P, TreesHold(ts, P), NEW rec \in Recs
  PROVE  TreesHold(TreesRemove(ts, rec), P \ Filing(RangeKeys(rec.doc), rec))
<1> DEFINE us == TreesRemove(ts, rec)
           Q == P \ Filing(RangeKeys(rec.doc), rec)
<1>1. /\ ts \in [Fields -> Sound] /\ P \subseteq (Fields \X Keys) \X Recs
      /\ \A f \in Fields : Filed(ts[f]) = OfField(P, f)
  BY DEF TreesHold
<1>2. rec \in Offsets /\ rec.doc \in Docs
  BY TreesAssumption DEF Recs
<1>3. ASSUME NEW f \in Fields
      PROVE  us[f] \in Sound /\ Filed(us[f]) = OfField(Q, f)
  <2>1. us[f] = IF f \in NumericFields(rec.doc)
                  THEN AvlDelete(ts[f], Num[rec.doc[f]], rec) ELSE ts[f]
    BY DEF TreesRemove
  <2> HIDE DEF us
  <2>4. OfField(Q, f) = OfField(P, f) \ OfField(Filing(RangeKeys(rec.doc), rec), f)
    BY DEF OfField
  <2>2. CASE f \in NumericFields(rec.doc)
    <3>1. Num[rec.doc[f]] \in Keys
      BY <1>2, <2>2, NumbersTyped
    <3>2. ts[f] \in AllTrees /\ Search(ts[f]) /\ AllTight(ts[f])
      BY <1>1 DEF Sound
    <3>3. Removes(ts[f], us[f], {<<Num[rec.doc[f]], rec>>})
      BY <1>2, <2>1, <2>2, <3>1, <3>2, DeleteKeeps
    <3>4. us[f] \in Sound /\ Filed(us[f]) = Filed(ts[f]) \ {<<Num[rec.doc[f]], rec>>}
      BY <3>3 DEF Removes, Sound
    <3>5. OfField(Q, f) = OfField(P, f) \ {<<Num[rec.doc[f]], rec>>}
      BY <1>2, <2>2, <2>4, UnderField
    <3> QED
      BY <1>1, <3>4, <3>5
  <2>3. CASE f \notin NumericFields(rec.doc)
    <3>1. OfField(Q, f) = OfField(P, f)
      BY <1>2, <2>3, <2>4, UnderField
    <3> QED
      BY <1>1, <2>1, <2>3, <3>1
  <2> QED
    BY <2>2, <2>3
<1>4. us = [f \in Fields |-> us[f]]
  BY DEF TreesRemove
<1>5. Q \subseteq (Fields \X Keys) \X Recs
  BY <1>1
<1> HIDE DEF us, Q
<1>6. us \in [Fields -> Sound]
  BY <1>3, <1>4
<1>7. TreesHold(us, Q)
  BY <1>3, <1>5, <1>6 DEF TreesHold
<1> QED
  BY <1>7 DEF us, Q

\* A tree that is saved and loaded again files the same pairs.
LEMMA LoadKeepsTrees ==
  ASSUME NEW ts, NEW P, TreesHold(ts, P)
  PROVE  TreesHold([f \in Fields |-> AvlLoad(AvlCollect(ts[f]))], P)
<1> DEFINE us == [f \in Fields |-> AvlLoad(AvlCollect(ts[f]))]
<1>1. ts \in [Fields -> Sound]
  BY DEF TreesHold
<1>2. ASSUME NEW f \in Fields
      PROVE  us[f] \in Sound /\ Filed(us[f]) = Filed(ts[f])
  <2>1. AvlCollect(ts[f]) \in Seq(KeyedOffsets) /\ ToSet(AvlCollect(ts[f])) = Filed(ts[f])
    BY <1>1, SoundHas
  <2>2. us[f] = AvlLoad(AvlCollect(ts[f]))
    OBVIOUS
  <2> HIDE DEF us
  <2> QED
    BY <1>1, <2>1, <2>2, LoadKeeps
<1>3. us \in [Fields -> Sound]
  BY <1>2
<1> HIDE DEF us
<1>4. TreesHold(us, P)
  BY <1>2, <1>3 DEF TreesHold
<1> QED
  BY <1>4 DEF us

LEMMA NoTrees ==
  TreesHold(EmptyTrees, {})
<1>1. Nil \in Sound /\ Filed(Nil) = {}
  BY OfNil DEF Sound
<1>2. EmptyTrees \in [Fields -> Sound] /\ \A f \in Fields : EmptyTrees[f] = Nil
  BY <1>1 DEF EmptyTrees
<1>3. \A f \in Fields : OfField({}, f) = {}
  BY DEF OfField
<1> QED
  BY <1>1, <1>2, <1>3 DEF TreesHold

\* The records filed one by one, in any order, are those the trees hold.
LEMMA TreesOfRecsHold ==
  ASSUME NEW recs \in Seq(Recs)
  PROVE  TreesHold(TreesOfRecs(recs), Readings(TreeKeys, ToSet(recs)))
<1> DEFINE N == Len(recs)
           X == [Fields -> Sound]
           Turn(n, ts) == TreesAdd(ts, recs[n].doc, recs[n])
           step == [q \in (1..N) \X X |-> Turn(q[1], q[2])]
           added[n \in 0..N] ==
             IF n = 0 THEN EmptyTrees ELSE TreesAdd(added[n - 1], recs[n].doc, recs[n])
<1>1. N \in Nat /\ DOMAIN recs = 1..N /\ \A n \in 1..N : recs[n] \in Recs
  OBVIOUS
<1>2. TreesOfRecs(recs) = added[N]
  BY DEF TreesOfRecs
<1> HIDE DEF N, X
<1>3. ASSUME NEW ts \in X, NEW rec \in Recs
      PROVE  TreesAdd(ts, rec.doc, rec) \in X
  <2>1. ASSUME NEW f \in Fields
        PROVE  (IF f \in NumericFields(rec.doc)
                  THEN AvlInsert(ts[f], Num[rec.doc[f]], rec) ELSE ts[f]) \in Sound
    <3>1. ts[f] \in AllTrees /\ Search(ts[f]) /\ AllTight(ts[f])
      BY DEF Sound, X
    <3>2. CASE f \in NumericFields(rec.doc)
      <4>1. Num[rec.doc[f]] \in Keys /\ rec \in Offsets
        BY <3>2, NumbersTyped, TreesAssumption DEF Recs
      <4>2. Inserts(ts[f], AvlInsert(ts[f], Num[rec.doc[f]], rec), <<Num[rec.doc[f]], rec>>)
        BY <3>1, <4>1, InsertKeeps
      <4> QED
        BY <3>2, <4>2 DEF Inserts, Sound
    <3> QED
      BY <3>2 DEF X
  <2> QED
    BY <2>1 DEF TreesAdd, X
<1>4. EmptyTrees \in X
  BY NoTrees DEF TreesHold, X
<1> HIDE DEF Turn
<1>5. step \in [(1..N) \X X -> X]
  BY <1>1, <1>3 DEF Turn
<1>6. \A n \in 1..N, ts \in X : step[<<n, ts>>] = Turn(n, ts)
  OBVIOUS
<1> HIDE DEF step
<1>7. PICK g : IsLoop(g, N, X, EmptyTrees, step)
  BY <1>1, <1>4, <1>5, LoopExists
<1>8. ASSUME NEW n \in 0..N
      PROVE  g[n] = IF n = 0 THEN EmptyTrees ELSE Turn(n, g[n - 1])
  <2>1. CASE n = 0
    BY <1>7, <2>1 DEF IsLoop
  <2>2. CASE n # 0
    <3>1. n \in 1..N /\ n - 1 \in 0..N
      BY <1>1, <2>2
    <3> QED
      BY <1>6, <1>7, <2>2, <3>1 DEF IsLoop
  <2> QED
    BY <2>1, <2>2
<1>9. g = [n \in 0..N |-> g[n]]
  BY <1>7 DEF IsLoop
<1>10. g = [n \in 0..N |-> IF n = 0 THEN EmptyTrees ELSE TreesAdd(g[n - 1], recs[n].doc, recs[n])]
  BY <1>8, <1>9, Zenon DEF Turn
<1>11. added = [n \in 0..N |-> IF n = 0 THEN EmptyTrees
                               ELSE TreesAdd(added[n - 1], recs[n].doc, recs[n])]
  BY <1>10, Zenon
<1> HIDE DEF added
<1> DEFINE Done(n) == Readings(TreeKeys, {recs[i] : i \in 1..n})
           Good == [n \in 0..N |-> {ts \in X : TreesHold(ts, Done(n))}]
<1> HIDE DEF Done
<1>12. added[0] \in Good[0]
  <2>1. added[0] = EmptyTrees /\ 0 \in 0..N
    BY <1>1, <1>11
  <2>2. Done(0) = {}
    <3>1. {recs[i] : i \in 1..0} = {}
      OBVIOUS
    <3> QED
      BY <3>1, NoReadings DEF Done
  <2> QED
    BY <1>4, <2>1, <2>2, NoTrees
<1>13. ASSUME NEW n \in 1..N, added[n - 1] \in Good[n - 1]
       PROVE  added[n] \in Good[n]
  <2> DEFINE ts == added[n - 1]
             rec == recs[n]
             R == {recs[i] : i \in 1..(n - 1)}
  <2>1. n - 1 \in 0..N /\ n \in 0..N /\ n # 0
    BY <1>1
  <2>2. added[n] = TreesAdd(ts, rec.doc, rec)
    BY <1>11, <2>1
  <2>3. ts \in X /\ TreesHold(ts, Done(n - 1)) /\ rec \in Recs
    BY <1>1, <1>13, <2>1
  <2>4. Done(n) = Done(n - 1) \cup Filing(TreeKeys[rec.doc], rec)
    <3>1. {recs[i] : i \in 1..n} = R \cup {rec}
      <4>1. 1..n = 1..(n - 1) \cup {n}
        BY <1>1
      <4> QED
        BY <4>1
    <3>2. Readings(TreeKeys, R \cup {rec}) = Readings(TreeKeys, R) \cup Filing(TreeKeys[rec.doc], rec)
      BY OneMoreReading
    <3> QED
      BY <3>1, <3>2, Zenon DEF Done
  <2> HIDE DEF ts, rec, R
  <2>5. rec.doc \in Docs
    BY <2>3 DEF Recs
  <2>6. TreeKeys[rec.doc] = RangeKeys(rec.doc)
    BY <2>5 DEF TreeKeys
  <2>7. TreesHold(added[n], Done(n)) /\ added[n] \in X
    BY <1>3, <2>2, <2>3, <2>4, <2>5, <2>6, AddToTrees
  <2> QED
    BY <2>1, <2>7
<1>14. added[N] \in Good[N]
  <2> HIDE DEF Good
  <2>1. \A n \in 0..N : added[n] \in Good[n]
    BY <1>1, <1>12, <1>13, LoopInvariant
  <2> QED
    BY <1>1, <2>1
<1>15. ToSet(recs) = {recs[i] : i \in 1..N}
  BY <1>1 DEF ToSet
<1>16. TreesHold(added[N], Done(N))
  <2>1. N \in 0..N
    BY <1>1
  <2> QED
    BY <1>14, <2>1
<1> QED
  BY <1>2, <1>15, <1>16, Zenon DEF Done

------------------------------------------------------------------------------
(* The live documents, and what is kept of them under keys *)

\* A record of each of some ids.
RecMaps == {d \in UNION {[S -> Recs] : S \in SUBSET Ids} : \A id \in DOMAIN d : d[id].id = id}

\* The records d, which are finitely many, were filed as w: each under the document that
\* it reads as, or under one that is read back so.
FiledAs(d, w) ==
  /\ d \in RecMaps /\ IsFiniteSet(DOMAIN d)
  /\ w \in [DOMAIN d -> Docs]
  /\ \A id \in DOMAIN d : w[id] = d[id].doc \/ ReloadDoc(w[id]) = d[id].doc

\* The entries of the primary index for them.
EntriesOf(d) == {Entry(id, d[id]) : id \in DOMAIN d}

\* The keys that keysOf gives to the documents that read back as doc, but not to doc.
Stray(keysOf, doc) == (UNION {keysOf[e] : e \in WrittenFor(doc)}) \ keysOf[doc]

\* P has the records of d under the keys of the documents they were filed as and no others,
\* those not in d under stray keys only, and none of them under two keys of one field.
Placed(P, keysOf, d, w) ==
  /\ \A id \in DOMAIN d : \A pair \in P : pair[2] = d[id] => pair[1] \in keysOf[w[id]]
  /\ \A id \in DOMAIN d : \A key \in keysOf[w[id]] : <<key, d[id]>> \in P
  /\ \A pair \in P : (\A id \in DOMAIN d : pair[2] # d[id]) => pair[1] \in Stray(keysOf, pair[2].doc)
  /\ \A p, q \in P : p[2] = q[2] /\ p[1][1] = q[1][1] => p = q

\* The keys of a document are of different fields.
OnePerField(keysOf) == \A doc \in Docs : \A k, l \in keysOf[doc] : k[1] = l[1] => k = l

LEMMA KeysPerField ==
  OnePerField(ListKeys) /\ OnePerField(TreeKeys)
<1>1. OnePerField(ListKeys)
  <2> SUFFICES ASSUME NEW doc \in Docs, NEW k \in SecondaryKeys(doc), NEW l \in SecondaryKeys(doc),
                      k[1] = l[1]
               PROVE  k = l
    BY DEF OnePerField, ListKeys
  <2>1. k = <<k[1], Printed[doc[k[1]]]>> /\ l = <<l[1], Printed[doc[l[1]]]>>
    BY DEF SecondaryKeys
  <2> QED
    BY <2>1, Zenon
<1>2. OnePerField(TreeKeys)
  <2> SUFFICES ASSUME NEW doc \in Docs, NEW k \in RangeKeys(doc), NEW l \in RangeKeys(doc),
                      k[1] = l[1]
               PROVE  k = l
    BY DEF OnePerField, TreeKeys
  <2>1. k = <<k[1], Num[doc[k[1]]]>> /\ l = <<l[1], Num[doc[l[1]]]>>
    BY DEF RangeKeys
  <2> QED
    BY <2>1, Zenon
<1> QED
  BY <1>1, <1>2

\* map without id.
Without(map, id) == Restrict(map, DOMAIN map \ {id})

LEMMA WithoutHas ==
  ASSUME NEW map, NEW id
  PROVE  /\ DOMAIN Without(map, id) = DOMAIN map \ {id}
         /\ \A i \in DOMAIN map \ {id} : Without(map, id)[i] = map[i]
BY DEF Without, Restrict

\* What is put back for an id that was taken out might as well have replaced it.
LEMMA WithWithout ==
  ASSUME NEW map, NEW id, NEW x
  PROVE  With(Without(map, id), id, x) = With(map, id, x)
<1> DEFINE rest == Without(map, id)
<1>1. DOMAIN rest = DOMAIN map \ {id} /\ \A i \in DOMAIN map \ {id} : rest[i] = map[i]
  BY DEF Without, Restrict
<1> HIDE DEF rest
<1>2. DOMAIN rest \cup {id} = DOMAIN map \cup {id}
  BY <1>1
<1>3. With(rest, id, x) = With(map, id, x)
  BY <1>1, <1>2 DEF With
<1> QED
  BY <1>3 DEF rest

\* Live records are of different ids, and a function from some ids.
LEMMA FiledFun ==
  ASSUME NEW d, NEW w, FiledAs(d, w)
  PROVE  \E S \in SUBSET Ids : d \in [S -> Recs]
BY DEF FiledAs, RecMaps

LEMMA FiledIds ==
  ASSUME NEW d, NEW w, FiledAs(d, w)
  PROVE  \A id \in DOMAIN d : d[id].id = id
BY DEF FiledAs, RecMaps

\* A live record and the document it was filed as.
LEMMA RecFiled ==
  ASSUME NEW d, NEW w, FiledAs(d, w), NEW id \in DOMAIN d
  PROVE  /\ id \in Ids /\ d[id] \in Recs /\ d[id].doc \in Docs /\ d[id].id = id
         /\ w[id] \in Docs /\ Entry(id, d[id]) \in Entries
<1>1. PICK S \in SUBSET Ids : d \in [S -> Recs]
  BY FiledFun
<1>2. d[id].id = id
  BY FiledIds
<1>3. w[id] \in Docs
  BY DEF FiledAs
<1>4. d[id] \in Recs /\ id \in Ids
  BY <1>1
<1>5. d[id].doc \in Docs
  BY <1>4 DEF Recs
<1>6. Entry(id, d[id]) \in Entries
  BY <1>4 DEF Entry, Entries
<1> QED
  BY <1>2, <1>3, <1>4, <1>5, <1>6

\* An id is looked up as its live record, or as NoOffset.
LEMMA LookedUp ==
  ASSUME NEW p, NEW d, PrimaryHolds(p, EntriesOf(d)), NEW id \in Ids
  PROVE  Lookup(p, id) = IF id \in DOMAIN d THEN d[id] ELSE NoOffset
<1>1. \/ \E e \in EntriesOf(d) : e.id = id /\ Lookup(p, id) = e.offset
      \/ Lookup(p, id) = NoOffset /\ \A e \in EntriesOf(d) : e.id # id
  BY LookupOfHeld
<1>2. \A i \in DOMAIN d : Entry(i, d[i]) \in EntriesOf(d) /\ Entry(i, d[i]).id = i
  BY DEF EntriesOf, Entry
<1>3. \A e \in EntriesOf(d) : e.id \in DOMAIN d /\ e.offset = d[e.id]
  BY DEF EntriesOf, Entry
<1> QED
  BY <1>1, <1>2, <1>3

\* A record more, or a new one for its id, in the entries and among the records.
LEMMA EntriesWith ==
  ASSUME NEW d, NEW id, NEW rec
  PROVE  EntriesOf(With(d, id, rec)) = {e \in EntriesOf(d) : e.id # id} \cup {Entry(id, rec)}
<1> DEFINE c == With(d, id, rec)
<1>1. /\ DOMAIN c = DOMAIN d \cup {id} /\ c[id] = rec
      /\ \A i \in DOMAIN d : i # id => c[i] = d[i]
  BY DEF With
<1> HIDE DEF c
<1>2. EntriesOf(c) = {e \in EntriesOf(d) : e.id # id} \cup {Entry(id, rec)}
  BY <1>1 DEF EntriesOf, Entry
<1> QED
  BY <1>2 DEF c

LEMMA EntriesWithout ==
  ASSUME NEW d, NEW id
  PROVE  EntriesOf(Without(d, id)) = {e \in EntriesOf(d) : e.id # id}
<1> DEFINE c == Without(d, id)
<1>1. DOMAIN c = DOMAIN d \ {id} /\ \A i \in DOMAIN d \ {id} : c[i] = d[i]
  BY DEF Without, Restrict
<1> HIDE DEF c
<1>2. EntriesOf(c) = {e \in EntriesOf(d) : e.id # id}
  BY <1>1 DEF EntriesOf, Entry
<1> QED
  BY <1>2 DEF c

LEMMA FiledWith ==
  ASSUME NEW d, NEW w, FiledAs(d, w), NEW id \in Ids, NEW doc \in Docs, NEW rec \in Recs,
         rec.id = id, ReloadDoc(doc) = rec.doc
  PROVE  FiledAs(With(d, id, rec), With(w, id, doc))
<1> DEFINE c == With(d, id, rec)
           v == With(w, id, doc)
<1>1. /\ DOMAIN c = DOMAIN d \cup {id} /\ c[id] = rec
      /\ \A i \in DOMAIN d : i # id => c[i] = d[i]
  BY DEF With
<1>2. /\ DOMAIN v = DOMAIN d \cup {id} /\ v[id] = doc
      /\ \A i \in DOMAIN d : i # id => v[i] = w[i]
  <2>1. DOMAIN w = DOMAIN d
    BY DEF FiledAs
  <2> QED
    BY <2>1 DEF With
<1>3. c = [i \in DOMAIN c |-> c[i]] /\ v = [i \in DOMAIN v |-> v[i]]
  BY DEF With
<1> HIDE DEF c, v
<1>4. DOMAIN c \in SUBSET Ids /\ \A i \in DOMAIN c : c[i] \in Recs /\ c[i].id = i /\ v[i] \in Docs
  <2>1. \A i \in DOMAIN d : i \in Ids /\ d[i] \in Recs /\ d[i].id = i /\ w[i] \in Docs
    BY RecFiled
  <2> QED
    BY <1>1, <1>2, <2>1
<1>5. c \in [DOMAIN c -> Recs] /\ v \in [DOMAIN c -> Docs]
  BY <1>1, <1>2, <1>3, <1>4
<1>6. c \in RecMaps
  BY <1>4, <1>5 DEF RecMaps
<1>7. IsFiniteSet(DOMAIN c)
  BY <1>1, FS_AddElement DEF FiledAs
<1>8. \A i \in DOMAIN c : v[i] = c[i].doc \/ ReloadDoc(v[i]) = c[i].doc
  BY <1>1, <1>2 DEF FiledAs
<1>9. FiledAs(c, v)
  BY <1>5, <1>6, <1>7, <1>8 DEF FiledAs
<1> QED
  BY <1>9 DEF c, v

LEMMA FiledWithout ==
  ASSUME NEW d, NEW w, FiledAs(d, w), NEW id
  PROVE  FiledAs(Without(d, id), Without(w, id))
<1> DEFINE c == Without(d, id)
           v == Without(w, id)
<1>1. DOMAIN c = DOMAIN d \ {id} /\ \A i \in DOMAIN c : c[i] = d[i]
  BY DEF Without, Restrict
<1>2. DOMAIN v = DOMAIN d \ {id} /\ \A i \in DOMAIN c : v[i] = w[i]
  <2>1. DOMAIN w = DOMAIN d
    BY DEF FiledAs
  <2> QED
    BY <2>1 DEF Without, Restrict
<1>3. c = [i \in DOMAIN c |-> c[i]] /\ v = [i \in DOMAIN v |-> v[i]]
  BY DEF Without, Restrict
<1> HIDE DEF c, v
<1>4. DOMAIN c \in SUBSET Ids /\ \A i \in DOMAIN c : c[i] \in Recs /\ c[i].id = i /\ v[i] \in Docs
  <2>1. \A i \in DOMAIN d : i \in Ids /\ d[i] \in Recs /\ d[i].id = i /\ w[i] \in Docs
    BY RecFiled
  <2> QED
    BY <1>1, <1>2, <2>1
<1>5. c \in [DOMAIN c -> Recs] /\ v \in [DOMAIN c -> Docs]
  BY <1>1, <1>2, <1>3, <1>4
<1>6. c \in RecMaps
  BY <1>4, <1>5 DEF RecMaps
<1>7. IsFiniteSet(DOMAIN c)
  BY <1>1, FS_RemoveElement DEF FiledAs
<1>8. \A i \in DOMAIN c : v[i] = c[i].doc \/ ReloadDoc(v[i]) = c[i].doc
  BY <1>1, <1>2 DEF FiledAs
<1>9. FiledAs(c, v)
  BY <1>5, <1>6, <1>7, <1>8 DEF FiledAs
<1> QED
  BY <1>9 DEF c, v

\* Under the keys of its document as it reads, the record of an id is taken out, and what
\* stays of it is under stray keys.
LEMMA PlacedWithout ==
  ASSUME NEW keysOf, NEW X, NEW P \in SUBSET (X \X Recs), NEW d, NEW w,
         FiledAs(d, w), Placed(P, keysOf, d, w), NEW id \in DOMAIN d
  PROVE  Placed(P \ Filing(keysOf[d[id].doc], d[id]), keysOf, Without(d, id), Without(w, id))
<1> DEFINE c == Without(d, id)
           v == Without(w, id)
           old == d[id]
           Q == P \ Filing(keysOf[old.doc], old)
<1>1. DOMAIN c = DOMAIN d \ {id} /\ \A i \in DOMAIN c : c[i] = d[i] /\ v[i] = w[i]
  <2>1. DOMAIN w = DOMAIN d
    BY DEF FiledAs
  <2> QED
    BY <2>1 DEF Without, Restrict
<1>2. \A i \in DOMAIN c : d[i] # old
  <2>1. \A i \in DOMAIN d : d[i].id = i
    BY FiledIds
  <2> QED
    BY <1>1, <2>1
<1>3. \A pair \in P : pair \in Q <=> ~ (pair[2] = old /\ pair[1] \in keysOf[old.doc])
  <2>1. \A pair \in P : pair = <<pair[1], pair[2]>>
    OBVIOUS
  <2> QED
    BY <2>1 DEF Filing
<1>4. Q \subseteq P
  OBVIOUS
<1> HIDE DEF c, v, Q
<1>5. ASSUME NEW i \in DOMAIN c, NEW pair \in Q, pair[2] = c[i]
      PROVE  pair[1] \in keysOf[v[i]]
  BY <1>1, <1>4, <1>5 DEF Placed
<1>6. ASSUME NEW i \in DOMAIN c, NEW key \in keysOf[v[i]]
      PROVE  <<key, c[i]>> \in Q
  <2>1. <<key, c[i]>> \in P
    BY <1>1, <1>6 DEF Placed
  <2>2. <<key, c[i]>>[2] # old
    BY <1>1, <1>2
  <2> QED
    BY <1>3, <2>1, <2>2
<1>7. ASSUME NEW pair \in Q, \A i \in DOMAIN c : pair[2] # c[i]
      PROVE  pair[1] \in Stray(keysOf, pair[2].doc)
  <2>1. CASE pair[2] = old
    <3>1. pair[1] \in keysOf[w[id]] /\ pair[1] \notin keysOf[old.doc]
      BY <1>3, <1>4, <2>1 DEF Placed
    <3>2. w[id] \in Docs /\ (w[id] = old.doc \/ ReloadDoc(w[id]) = old.doc)
      BY RecFiled DEF FiledAs
    <3>3. w[id] \in WrittenFor(old.doc)
      BY <3>1, <3>2 DEF WrittenFor
    <3>4. keysOf[w[id]] \in {keysOf[e] : e \in WrittenFor(old.doc)}
      BY <3>3
    <3>5. pair[1] \in UNION {keysOf[e] : e \in WrittenFor(old.doc)}
      BY <3>1, <3>4
    <3>6. pair[1] \in Stray(keysOf, old.doc)
      BY <3>1, <3>5 DEF Stray
    <3> QED
      BY <2>1, <3>6
  <2>2. CASE pair[2] # old
    <3>1. \A i \in DOMAIN d : pair[2] # d[i]
      BY <1>1, <1>7, <2>2
    <3> QED
      BY <1>4, <3>1 DEF Placed
  <2> QED
    BY <2>1, <2>2
<1>8. \A p, q \in Q : p[2] = q[2] /\ p[1][1] = q[1][1] => p = q
  BY <1>4 DEF Placed
<1>9. Placed(Q, keysOf, c, v)
  BY <1>5, <1>6, <1>7, <1>8 DEF Placed
<1> QED
  BY <1>9 DEF Q, c, v

\* A record that nothing refers to is filed for a new id.
LEMMA PlacedWith ==
  ASSUME NEW keysOf, OnePerField(keysOf), NEW X, NEW P \in SUBSET (X \X Recs), NEW d, NEW w,
         FiledAs(d, w), Placed(P, keysOf, d, w), NEW id, id \notin DOMAIN d,
         NEW doc \in Docs, NEW rec \in Recs, rec.id = id, \A pair \in P : pair[2] # rec
  PROVE  Placed(P \cup Filing(keysOf[doc], rec), keysOf, With(d, id, rec), With(w, id, doc))
<1> DEFINE c == With(d, id, rec)
           v == With(w, id, doc)
           new == Filing(keysOf[doc], rec)
           Q == P \cup new
<1>1. /\ DOMAIN c = DOMAIN d \cup {id} /\ c[id] = rec /\ v[id] = doc
      /\ \A i \in DOMAIN d : i # id /\ c[i] = d[i] /\ v[i] = w[i]
  <2>1. DOMAIN w = DOMAIN d
    BY DEF FiledAs
  <2> QED
    BY <2>1 DEF With
<1>2. \A i \in DOMAIN d : d[i] # rec
  <2>1. \A i \in DOMAIN d : d[i].id = i
    BY FiledIds
  <2> QED
    BY <2>1
<1>3. \A pair : pair \in new => pair[2] = rec /\ pair[1] \in keysOf[doc] /\ pair = <<pair[1], rec>>
  BY DEF Filing
<1>4. \A key \in keysOf[doc] : <<key, rec>> \in new
  BY DEF Filing
<1>5. \A pair \in Q : pair \in P \/ pair \in new
  OBVIOUS
<1>6. P \subseteq Q /\ new \subseteq Q
  OBVIOUS
<1> HIDE DEF c, v, Q, new
<1>7. ASSUME NEW i \in DOMAIN c, NEW pair \in Q, pair[2] = c[i]
      PROVE  pair[1] \in keysOf[v[i]]
  <2>1. CASE i = id
    BY <1>1, <1>3, <1>5, <1>7, <2>1
  <2>2. CASE i # id
    <3>1. i \in DOMAIN d /\ pair[2] = d[i] /\ pair \in P
      BY <1>1, <1>2, <1>3, <1>5, <1>7, <2>2
    <3> QED
      BY <1>1, <3>1 DEF Placed
  <2> QED
    BY <2>1, <2>2
<1>8. ASSUME NEW i \in DOMAIN c, NEW key \in keysOf[v[i]]
      PROVE  <<key, c[i]>> \in Q
  <2>1. CASE i = id
    BY <1>1, <1>4, <1>6, <1>8, <2>1
  <2>2. CASE i # id
    <3>1. i \in DOMAIN d /\ key \in keysOf[w[i]]
      BY <1>1, <1>8, <2>2
    <3>2. <<key, d[i]>> \in P
      BY <3>1 DEF Placed
    <3> QED
      BY <1>1, <1>6, <3>1, <3>2
  <2> QED
    BY <2>1, <2>2
<1>9. ASSUME NEW pair \in Q, \A i \in DOMAIN c : pair[2] # c[i]
      PROVE  pair[1] \in Stray(keysOf, pair[2].doc)
  <2>1. pair[2] # rec /\ \A i \in DOMAIN d : pair[2] # d[i]
    BY <1>1, <1>9
  <2>2. pair \in P
    BY <1>3, <1>5, <2>1
  <2> QED
    BY <2>1, <2>2 DEF Placed
<1>10. ASSUME NEW p \in Q, NEW q \in Q, p[2] = q[2], p[1][1] = q[1][1]
       PROVE  p = q
  <2>1. CASE p \in P
    <3>1. q \in P
      BY <1>3, <1>5, <1>10, <2>1
    <3> QED
      BY <1>10, <2>1, <3>1 DEF Placed
  <2>2. CASE p \in new
    <3>1. q \in new
      BY <1>3, <1>5, <1>10, <2>2
    <3>2. p[1] = q[1]
      BY <1>3, <1>10, <2>2, <3>1 DEF OnePerField
    <3> QED
      BY <1>3, <2>2, <3>1, <3>2
  <2> QED
    BY <1>5, <2>1, <2>2
<1>11. Placed(Q, keysOf, c, v)
  BY <1>7, <1>8, <1>9, <1>10 DEF Placed
<1> QED
  BY <1>11 DEF Q, c, v, new

\* The live records filed as they read.
LEMMA PlacedAsRead ==
  ASSUME NEW keysOf, OnePerField(keysOf), NEW d, NEW w, FiledAs(d, w)
  PROVE  LET read == [id \in DOMAIN d |-> d[id].doc]
         IN  FiledAs(d, read) /\ Placed(Readings(keysOf, {d[id] : id \in DOMAIN d}), keysOf, d, read)
<1> DEFINE read == [id \in DOMAIN d |-> d[id].doc]
           R == {d[id] : id \in DOMAIN d}
           P == Readings(keysOf, R)
<1>1. FiledAs(d, read)
  <2>1. \A id \in DOMAIN d : d[id].doc \in Docs
    BY RecFiled
  <2>2. read \in [DOMAIN d -> Docs] /\ \A id \in DOMAIN d : read[id] = d[id].doc
    BY <2>1
  <2> HIDE DEF read
  <2> QED
    BY <2>2 DEF FiledAs
<1>2. \A pair \in P : pair[2] \in R /\ pair[1] \in keysOf[pair[2].doc] /\ pair = <<pair[1], pair[2]>>
  BY ReadingsOf
<1>3. ASSUME NEW id \in DOMAIN d, NEW key \in keysOf[d[id].doc]
      PROVE  <<key, d[id]>> \in P
  <2>1. <<key, d[id]>> \in Filing(keysOf[d[id].doc], d[id])
    BY <1>3 DEF Filing
  <2> QED
    BY <2>1 DEF Readings
<1>4. \A id \in DOMAIN d : read[id] = d[id].doc
  OBVIOUS
<1>5. \A r \in R : r.doc \in Docs /\ \E id \in DOMAIN d : r = d[id]
  <2>1. \A id \in DOMAIN d : d[id].doc \in Docs
    BY RecFiled
  <2> QED
    BY <2>1
<1> HIDE DEF P, R, read
<1>6. \A id \in DOMAIN d : \A pair \in P : pair[2] = d[id] => pair[1] \in keysOf[read[id]]
  BY <1>2, <1>4
<1>7. \A id \in DOMAIN d : \A key \in keysOf[read[id]] : <<key, d[id]>> \in P
  BY <1>3, <1>4
<1>8. \A pair \in P : \E id \in DOMAIN d : pair[2] = d[id]
  BY <1>2, <1>5
<1>9. ASSUME NEW p \in P, NEW q \in P, p[2] = q[2], p[1][1] = q[1][1]
      PROVE  p = q
  <2>1. p[2].doc \in Docs /\ p[1] \in keysOf[p[2].doc] /\ q[1] \in keysOf[p[2].doc]
    BY <1>2, <1>5, <1>9
  <2>2. p[1] = q[1]
    BY <1>9, <2>1 DEF OnePerField
  <2> QED
    BY <1>2, <1>9, <2>2, Zenon
<1>10. Placed(P, keysOf, d, read)
  BY <1>6, <1>7, <1>8, <1>9 DEF Placed
<1> QED
  BY <1>1, <1>10 DEF P, R, read


------------------------------------------------------------------------------
(* What is filed and what is taken out *)

\* The lists and the trees hold the records d, filed as w, and strays.
Held(s, ts, d, w) ==
  /\ FiledAs(d, w)
  /\ \E P : ListsHold(s, P) /\ Placed(P, ListKeys, d, w)
  /\ \E P : TreesHold(ts, P) /\ Placed(P, TreeKeys, d, w)

\* The documents written and read.
LEMMA ReloadTyped ==
  ASSUME NEW doc \in Docs
  PROVE  ReloadDoc(doc) \in Docs
<1>1. PICK F \in SUBSET Fields : doc \in [F -> Vals]
  BY DEF Docs
<1>2. ReloadDoc(doc) \in [F -> Vals]
  BY <1>1, ValuesAssumption DEF ReloadDoc
<1> QED
  BY <1>2 DEF Docs

LEMMA MergedTyped ==
  ASSUME NEW doc \in Docs, NEW partial \in Docs
  PROVE  MergeDoc(doc, partial) \in Docs
<1>1. PICK F \in SUBSET Fields : doc \in [F -> Vals]
  BY DEF Docs
<1>2. PICK G \in SUBSET Fields : partial \in [G -> Vals]
  BY DEF Docs
<1>3. MergeDoc(doc, partial) \in [F \cup G -> Vals]
  BY <1>1, <1>2 DEF MergeDoc
<1> QED
  BY <1>3 DEF Docs

\* A record in no list, and one in no tree, is in none of the pairs.
LEMMA Unlisted ==
  ASSUME NEW s, NEW P, ListsHold(s, P), NEW rec, rec \notin Listed(s)
  PROVE  \A pair \in P : pair[2] # rec
<1> SUFFICES ASSUME NEW pair \in P, pair[2] = rec
             PROVE  FALSE
  OBVIOUS
<1> DEFINE key == pair[1]
<1>1. key \in Fields \X Prints /\ rec \in Recs /\ <<key, rec>> \in P
  BY DEF ListsHold
<1>2. ToSet(ListOf(s, key)) = {r \in Recs : <<key, r>> \in P}
  BY <1>1 DEF ListsHold
<1>3. rec \in ToSet(ListOf(s, key))
  BY <1>1, <1>2
<1> HIDE DEF key
<1>4. CASE key \in DOMAIN s
  BY <1>3, <1>4 DEF ListOf, Listed
<1>5. CASE key \notin DOMAIN s
  <2>1. ListOf(s, key) = <<>>
    BY <1>5 DEF ListOf
  <2> QED
    BY <1>3, <2>1, EmptyList
<1> QED
  BY <1>4, <1>5

LEMMA Untreed ==
  ASSUME NEW ts, NEW P, TreesHold(ts, P), NEW rec, rec \notin Treed(ts)
  PROVE  \A pair \in P : pair[2] # rec
<1> SUFFICES ASSUME NEW pair \in P, pair[2] = rec
             PROVE  FALSE
  OBVIOUS
<1>1. PICK f \in Fields, k \in Keys, r \in Recs : pair = <<<<f, k>>, r>>
  BY DEF TreesHold
<1>2. r = rec /\ <<k, rec>> \in OfField(P, f)
  BY <1>1 DEF OfField
<1>3. ts[f] \in Sound /\ Filed(ts[f]) = OfField(P, f)
  BY DEF TreesHold
<1>4. <<k, rec>> \in ToSet(AvlCollect(ts[f]))
  BY <1>2, <1>3, SoundHas
<1>5. <<k, rec>>[2] = rec
  OBVIOUS
<1>6. rec \in {e[2] : e \in ToSet(AvlCollect(ts[f]))}
  BY <1>4, <1>5
<1> QED
  BY <1>6 DEF Treed

\* What the log gives a document that is written.
LEMMA WrittenIs ==
  ASSUME NEW id \in Ids, NEW doc \in Docs, NEW s, NEW ts, Room(id, doc, s, ts) # {}
  PROVE  LET rec == Written(Room(id, doc, s, ts))
         IN  /\ rec \in Recs /\ rec.id = id /\ rec.doc = ReloadDoc(doc)
             /\ rec \notin Listed(s) /\ rec \notin Treed(ts)
<1> DEFINE room == Room(id, doc, s, ts)
<1>1. Written(room) \in room
  BY DEF Written
<1>2. ASSUME NEW r \in room
      PROVE  r \in Recs /\ r.id = id /\ r.doc = ReloadDoc(doc) /\ r \notin Listed(s) /\ r \notin Treed(ts)
  <2>1. PICK at \in Places : r = Rec(id, ReloadDoc(doc), at)
    BY DEF Room
  <2>2. r \notin Listed(s) /\ r \notin Treed(ts)
    BY DEF Room
  <2>3. r \in Recs /\ r.id = id /\ r.doc = ReloadDoc(doc)
    BY <2>1, ReloadTyped DEF Rec, Recs
  <2> QED
    BY <2>2, <2>3
<1> HIDE DEF room
<1>3. LET rec == Written(room)
      IN  /\ rec \in Recs /\ rec.id = id /\ rec.doc = ReloadDoc(doc)
          /\ rec \notin Listed(s) /\ rec \notin Treed(ts)
  BY <1>1, <1>2
<1> QED
  BY <1>3 DEF room

\* A document more is filed.
LEMMA FileIn ==
  ASSUME NEW s, NEW ts, NEW d, NEW w, Held(s, ts, d, w),
         NEW id \in Ids, id \notin DOMAIN d, NEW doc \in Docs, NEW rec \in Recs, rec.id = id,
         rec.doc = ReloadDoc(doc), rec \notin Listed(s), rec \notin Treed(ts)
  PROVE  Held(SecondaryAdd(s, doc, rec), TreesAdd(ts, doc, rec), With(d, id, rec), With(w, id, doc))
<1> DEFINE c == With(d, id, rec)
           v == With(w, id, doc)
           lists == SecondaryAdd(s, doc, rec)
           us == TreesAdd(ts, doc, rec)
<1>1. PICK P : ListsHold(s, P) /\ Placed(P, ListKeys, d, w)
  BY DEF Held
<1>2. PICK Q : TreesHold(ts, Q) /\ Placed(Q, TreeKeys, d, w)
  BY DEF Held
<1>3. FiledAs(d, w)
  BY DEF Held
<1>4. FiledAs(c, v)
  BY <1>3, FiledWith
<1>5. \A pair \in P : pair[2] # rec
  BY <1>1, Unlisted
<1>6. \A pair \in Q : pair[2] # rec
  BY <1>2, Untreed
<1>7. P \in SUBSET ((Fields \X Prints) \X Recs) /\ Q \in SUBSET ((Fields \X Keys) \X Recs)
  BY <1>1, <1>2 DEF ListsHold, TreesHold
<1>8. ListKeys[doc] = SecondaryKeys(doc) /\ TreeKeys[doc] = RangeKeys(doc)
  BY DEF ListKeys, TreeKeys
<1>9. ListsHold(lists, P \cup Filing(SecondaryKeys(doc), rec))
  BY <1>1, <1>5, AddToLists
<1>10. TreesHold(us, Q \cup Filing(RangeKeys(doc), rec))
  BY <1>2, AddToTrees
<1>11. Placed(P \cup Filing(ListKeys[doc], rec), ListKeys, c, v)
  BY <1>1, <1>3, <1>5, <1>7, KeysPerField, PlacedWith
<1>12. Placed(Q \cup Filing(TreeKeys[doc], rec), TreeKeys, c, v)
  BY <1>2, <1>3, <1>6, <1>7, KeysPerField, PlacedWith
<1> HIDE DEF c, v, lists, us
<1>13. \E X : ListsHold(lists, X) /\ Placed(X, ListKeys, c, v)
  BY <1>8, <1>9, <1>11, Zenon
<1>14. \E X : TreesHold(us, X) /\ Placed(X, TreeKeys, c, v)
  BY <1>8, <1>10, <1>12, Zenon
<1>15. Held(lists, us, c, v)
  BY <1>4, <1>13, <1>14 DEF Held
<1> QED
  BY <1>15 DEF c, v, lists, us

\* What a live id reads as is taken out.
LEMMA TakeOut ==
  ASSUME NEW s, NEW ts, NEW d, NEW w, Held(s, ts, d, w), NEW id \in DOMAIN d
  PROVE  Held(SecondaryRemove(s, d[id]), TreesRemove(ts, d[id]), Without(d, id), Without(w, id))
<1> DEFINE c == Without(d, id)
           v == Without(w, id)
           rec == d[id]
           lists == SecondaryRemove(s, rec)
           us == TreesRemove(ts, rec)
<1>1. PICK P : ListsHold(s, P) /\ Placed(P, ListKeys, d, w)
  BY DEF Held
<1>2. PICK Q : TreesHold(ts, Q) /\ Placed(Q, TreeKeys, d, w)
  BY DEF Held
<1>3. FiledAs(d, w)
  BY DEF Held
<1>4. FiledAs(c, v)
  BY <1>3, FiledWithout
<1>5. rec \in Recs /\ rec.doc \in Docs
  BY <1>3, RecFiled
<1>6. P \in SUBSET ((Fields \X Prints) \X Recs) /\ Q \in SUBSET ((Fields \X Keys) \X Recs)
  BY <1>1, <1>2 DEF ListsHold, TreesHold
<1>7. ListKeys[rec.doc] = SecondaryKeys(rec.doc) /\ TreeKeys[rec.doc] = RangeKeys(rec.doc)
  BY <1>5 DEF ListKeys, TreeKeys
<1>8. ListsHold(lists, P \ Filing(SecondaryKeys(rec.doc), rec))
  BY <1>1, <1>5, RemoveFromLists
<1>9. TreesHold(us, Q \ Filing(RangeKeys(rec.doc), rec))
  BY <1>2, <1>5, RemoveFromTrees
<1>10. Placed(P \ Filing(ListKeys[rec.doc], rec), ListKeys, c, v)
  BY <1>1, <1>3, <1>6, PlacedWithout
<1>11. Placed(Q \ Filing(TreeKeys[rec.doc], rec), TreeKeys, c, v)
  BY <1>2, <1>3, <1>6, PlacedWithout
<1> HIDE DEF c, v, lists, us, rec
<1>12. \E X : ListsHold(lists, X) /\ Placed(X, ListKeys, c, v)
  BY <1>7, <1>8, <1>10, Zenon
<1>13. \E X : TreesHold(us, X) /\ Placed(X, TreeKeys, c, v)
  BY <1>7, <1>9, <1>11, Zenon
<1>14. Held(lists, us, c, v)
  BY <1>4, <1>12, <1>13 DEF Held
<1> QED
  BY <1>14 DEF c, v, lists, us, rec

------------------------------------------------------------------------------
(* Each step keeps the invariant *)

\* The inductive invariant: the primary index has an entry for each live record, and the
\* lists and the trees hold these records under the keys of the documents they were filed
\* as, and of others what could not be taken out.  That no record has two keys of one
\* field, the last part of Placed, is what makes the offsets of a range come but once.
IInv ==
  /\ Held(secondary, trees, docs, filed)
  /\ PrimaryHolds(primary, EntriesOf(docs))

\* A new collection.
LEMMA InitKeeps == Init => IInv
<1> SUFFICES ASSUME Init
             PROVE  IInv
  OBVIOUS
<1>1. /\ docs = EmptyDoc /\ filed = EmptyDoc /\ trees = EmptyTrees
      /\ primary = EmptyPrimary /\ secondary = EmptyDoc
  BY DEF Init, InitEntries
<1>2. DOMAIN docs = {}
  BY <1>1, NoLists
<1>3. EmptyDoc \in [{} -> Recs] /\ EmptyDoc \in [{} -> Docs]
  BY DEF EmptyDoc
<1>4. docs \in RecMaps
  <2>1. docs \in [{} -> Recs] /\ {} \in SUBSET Ids
    BY <1>1, <1>3
  <2> QED
    BY <1>2, <2>1 DEF RecMaps
<1>5. FiledAs(docs, filed)
  BY <1>1, <1>2, <1>3, <1>4, FS_EmptySet DEF FiledAs
<1>6. EntriesOf(docs) = {}
  BY <1>2 DEF EntriesOf
<1>7. ListsHold(secondary, {}) /\ TreesHold(trees, {})
  BY <1>1, NoLists, NoTrees
<1>8. \A keysOf : Placed({}, keysOf, docs, filed)
  BY <1>2 DEF Placed
<1>9. Held(secondary, trees, docs, filed)
  BY <1>5, <1>7, <1>8 DEF Held
<1> QED
  BY <1>1, <1>6, <1>9, NoEntries DEF IInv

\* Insert files a document under an id that is not taken.
LEMMA InsertStep ==
  ASSUME IInv, NEW id \in Ids, NEW doc \in Docs, Insert(id, doc)
  PROVE  IInv'
<1> DEFINE rec == Written(Room(id, doc, secondary, trees))
<1>1. Room(id, doc, secondary, trees) # {} /\ InsertEntries(id, doc, rec)
      /\ trees' = TreesAdd(trees, doc, rec)
  BY DEF Insert
<1>2. /\ rec \in Recs /\ rec.id = id /\ rec.doc = ReloadDoc(doc)
      /\ rec \notin Listed(secondary) /\ rec \notin Treed(trees)
  BY <1>1, WrittenIs
<1> HIDE DEF rec
<1>3. /\ Lookup(primary, id) = NoOffset
      /\ docs' = With(docs, id, rec) /\ filed' = With(filed, id, doc)
      /\ primary' = AddEntry(primary, id, rec)
      /\ secondary' = SecondaryAdd(secondary, doc, rec)
  BY <1>1 DEF InsertEntries
<1>4. Held(secondary, trees, docs, filed) /\ PrimaryHolds(primary, EntriesOf(docs))
  BY DEF IInv
<1>5. id \notin DOMAIN docs
  <2>1. Lookup(primary, id) = IF id \in DOMAIN docs THEN docs[id] ELSE NoOffset
    BY <1>4, LookedUp
  <2>2. id \in DOMAIN docs => docs[id] \in Recs
    BY <1>4, RecFiled DEF Held
  <2> QED
    BY <1>3, <2>1, <2>2, NoOffsetAssumption
<1>6. Held(secondary', trees', docs', filed')
  BY <1>1, <1>2, <1>3, <1>4, <1>5, FileIn
<1>7. PrimaryHolds(primary', EntriesOf(docs'))
  BY <1>2, <1>3, <1>4, AddToHeld, EntriesWith
<1> QED
  BY <1>6, <1>7 DEF IInv

\* A live id is looked up as its record.
LEMMA LiveLookedUp ==
  ASSUME IInv, NEW id \in Ids, Lookup(primary, id) # NoOffset
  PROVE  id \in DOMAIN docs /\ Lookup(primary, id) = docs[id]
BY LookedUp DEF IInv

\* Update takes the old record out as it reads, and files the merged document.
LEMMA UpdateStep ==
  ASSUME IInv, NEW id \in Ids, NEW partial \in Docs, Update(id, partial)
  PROVE  IInv'
<1> DEFINE old == docs[id]
           merged == MergeDoc(old.doc, partial)
           lists == SecondaryRemove(secondary, old)
           rest == TreesRemove(trees, old)
           rec == Written(Room(id, merged, lists, rest))
           d == Without(docs, id)
           w == Without(filed, id)
<1>1. id \in DOMAIN docs /\ Lookup(primary, id) = old
  BY LiveLookedUp DEF Update
<1>2. /\ Room(id, merged, lists, rest) # {}
      /\ UpdateEntries(old, merged, rec)
      /\ trees' = TreesAdd(rest, merged, rec)
  BY <1>1 DEF Update
<1>3. Held(secondary, trees, docs, filed) /\ PrimaryHolds(primary, EntriesOf(docs))
  BY DEF IInv
<1>4. old.doc \in Docs /\ old.id = id
  BY <1>1, <1>3, RecFiled DEF Held
<1>5. merged \in Docs
  BY <1>4, MergedTyped
<1>6. Held(lists, rest, d, w)
  BY <1>1, <1>3, TakeOut
<1>7. id \notin DOMAIN d
  BY WithoutHas
<1> HIDE DEF merged, lists, rest
<1>8. /\ rec \in Recs /\ rec.id = id /\ rec.doc = ReloadDoc(merged)
      /\ rec \notin Listed(lists) /\ rec \notin Treed(rest)
  BY <1>2, <1>5, WrittenIs
<1> HIDE DEF rec, old, d, w
<1>9. /\ docs' = With(docs, id, rec) /\ filed' = With(filed, id, merged)
      /\ primary' = AddEntry(primary, id, rec)
      /\ secondary' = SecondaryAdd(lists, merged, rec)
  BY <1>2, <1>4 DEF UpdateEntries, lists
<1>10. With(d, id, rec) = docs' /\ With(w, id, merged) = filed'
  <2>1. With(d, id, rec) = With(docs, id, rec)
    BY WithWithout DEF d
  <2>2. With(w, id, merged) = With(filed, id, merged)
    BY WithWithout DEF w
  <2> QED
    BY <1>9, <2>1, <2>2
<1>11. Held(SecondaryAdd(lists, merged, rec), TreesAdd(rest, merged, rec),
            With(d, id, rec), With(w, id, merged))
  BY <1>5, <1>6, <1>7, <1>8, FileIn
<1>12. Held(secondary', trees', docs', filed')
  BY <1>2, <1>9, <1>10, <1>11
<1>13. PrimaryHolds(primary', EntriesOf(docs'))
  BY <1>3, <1>8, <1>9, AddToHeld, EntriesWith
<1> QED
  BY <1>12, <1>13 DEF IInv

\* Delete drops the id, its entry and, as it reads, its record.
LEMMA DeleteStep ==
  ASSUME IInv, NEW id \in Ids, Delete(id)
  PROVE  IInv'
<1>1. id \in DOMAIN docs /\ Lookup(primary, id) = docs[id]
  BY LiveLookedUp DEF Delete, DeleteEntries
<1>2. Held(secondary, trees, docs, filed) /\ PrimaryHolds(primary, EntriesOf(docs))
  BY DEF IInv
<1>3. DOMAIN filed = DOMAIN docs
  BY <1>2 DEF Held, FiledAs
<1>4. /\ docs' = Without(docs, id) /\ filed' = Without(filed, id)
      /\ primary' = RemoveEntry(primary, id)
      /\ secondary' = SecondaryRemove(secondary, docs[id])
      /\ trees' = TreesRemove(trees, docs[id])
  BY <1>1 DEF Delete, DeleteEntries, Without
<1>5. Held(secondary', trees', docs', filed')
  BY <1>1, <1>2, <1>4, TakeOut
<1>6. PrimaryHolds(primary', EntriesOf(docs'))
  BY <1>2, <1>4, RemoveFromHeld, EntriesWithout
<1> QED
  BY <1>5, <1>6 DEF IInv

\* A start from index.json.
LEMMA LoadStep ==
  ASSUME IInv, LoadIndex
  PROVE  IInv'
<1> DEFINE s == primary.entries
           us == [f \in Fields |-> AvlLoad(AvlCollect(trees[f]))]
<1>1. Held(secondary, trees, docs, filed) /\ PrimaryHolds(primary, EntriesOf(docs))
  BY DEF IInv
<1>2. PICK P : ListsHold(secondary, P) /\ Placed(P, ListKeys, docs, filed)
  BY <1>1 DEF Held
<1>3. PICK Q : TreesHold(trees, Q) /\ Placed(Q, TreeKeys, docs, filed)
  BY <1>1 DEF Held
<1>4. s \in Seq(Entries) /\ SortedById(s) /\ ToSet(s) = EntriesOf(docs)
  BY <1>1 DEF PrimaryHolds
<1>5. /\ primary' = AddAll(s) /\ secondary' = SecondaryLoad(secondary)
      /\ docs' = docs /\ filed' = filed /\ trees' = us
  BY DEF LoadIndex, LoadEntries
<1>6. TreesHold(us, Q)
  BY <1>3, LoadKeepsTrees
<1> HIDE DEF s, us
<1>7. \A j, k \in 1..Len(s) : s[j].id = s[k].id => j = k
  BY <1>4, EntryTypes DEF SortedById
<1>8. PrimaryHolds(AddAll(s), EntriesOf(docs))
  BY <1>4, <1>7, AddAllHolds
<1>9. SecondaryLoad(secondary) = secondary
  BY <1>2, LoadKeepsLists
<1>10. Held(secondary, us, docs, filed)
  BY <1>1, <1>3, <1>6 DEF Held
<1> QED
  BY <1>5, <1>8, <1>9, <1>10 DEF IInv

\* An order of the live records holds each of them once.
LEMMA OrderOfRecords ==
  ASSUME NEW d, NEW w, FiledAs(d, w), NEW R, R = {d[id] : id \in DOMAIN d},
         NEW recs \in SetToSeqs(R)
  PROVE  recs \in Seq(Recs) /\ IsInjective(recs) /\ ToSet(recs) = R
<1> DEFINE n == Cardinality(R)
<1>1. IsFiniteSet(R)
  <2> DEFINE f == [id \in DOMAIN d |-> d[id]]
  <2>1. R = {f[x] : x \in DOMAIN d}
    OBVIOUS
  <2>2. f \in Surjection(DOMAIN d, R)
    BY <2>1 DEF Surjection
  <2>3. IsFiniteSet(DOMAIN d)
    BY DEF FiledAs
  <2> QED
    BY <2>2, <2>3, FS_Surjection
<1>2. n \in Nat
  BY <1>1, FS_CardinalityType
<1>3. recs \in [1..n -> R] /\ \A i, j \in 1..n : i # j => recs[i] # recs[j]
  BY DEF SetToSeqs
<1>4. R \subseteq Recs
  BY RecFiled
<1> HIDE DEF n
<1>5. recs \in Seq(Recs) /\ Len(recs) = n
  BY <1>2, <1>3, <1>4
<1>6. IsInjective(recs)
  BY <1>3 DEF IsInjective
<1>7. ToSet(recs) = {recs[i] : i \in 1..n}
  BY <1>3 DEF ToSet
<1>8. recs \in Injection(1..n, R)
  BY <1>3 DEF Injection, IsInjective
<1>9. IsFiniteSet(1..n) /\ Cardinality(1..n) = n
  BY <1>2, FS_Interval
<1>10. recs \in Surjection(1..n, R)
  BY <1>1, <1>8, <1>9, FS_Injection DEF n
<1>11. ToSet(recs) = R
  BY <1>3, <1>7, <1>10 DEF Surjection
<1> QED
  BY <1>5, <1>6, <1>11

\* The entries of the live records, in the order in which the records come.
LEMMA EntriesInOrder ==
  ASSUME NEW d, NEW w, FiledAs(d, w), NEW recs \in Seq(Recs), IsInjective(recs),
         ToSet(recs) = {d[id] : id \in DOMAIN d}
  PROVE  PrimaryHolds(AddAll([i \in DOMAIN recs |-> [id |-> recs[i].id, offset |-> recs[i]]]),
                      EntriesOf(d))
<1> DEFINE s == [i \in DOMAIN recs |-> [id |-> recs[i].id, offset |-> recs[i]]]
<1>1. DOMAIN recs = 1..Len(recs) /\ Len(recs) \in Nat
  OBVIOUS
<1>2. \A i \in 1..Len(recs) : recs[i] \in Recs /\ recs[i].id \in Ids
  <2>1. \A r \in Recs : r.id \in Ids
    BY DEF Recs
  <2> QED
    BY <2>1
<1>3. s \in Seq(Entries) /\ Len(s) = Len(recs)
  <2>1. \A i \in 1..Len(recs) : [id |-> recs[i].id, offset |-> recs[i]] \in Entries
    BY <1>2 DEF Entries
  <2> QED
    BY <1>1, <2>1
<1>4. \A i \in 1..Len(recs) : s[i] = Entry(recs[i].id, recs[i]) /\ s[i].id = recs[i].id
  BY <1>1 DEF Entry
<1>5. \A i \in 1..Len(recs) : \E id \in DOMAIN d : recs[i] = d[id]
  BY <1>1 DEF ToSet
<1>6. \A id \in DOMAIN d : \E i \in 1..Len(recs) : recs[i] = d[id]
  BY <1>1 DEF ToSet
<1>7. \A i, j \in 1..Len(recs) : recs[i] = recs[j] => i = j
  BY <1>1 DEF IsInjective
<1>8. \A id \in DOMAIN d : d[id].id = id
  BY FiledIds
<1> HIDE DEF s
<1>9. \A i \in 1..Len(recs) : recs[i].id \in DOMAIN d /\ recs[i] = d[recs[i].id]
  BY <1>5, <1>8
<1>10. \A j, k \in 1..Len(s) : s[j].id = s[k].id => j = k
  BY <1>3, <1>4, <1>7, <1>9
<1>11. ToSet(s) = EntriesOf(d)
  <2>1. ToSet(s) = {s[i] : i \in 1..Len(recs)}
    BY <1>3 DEF ToSet
  <2>2. \A i \in 1..Len(recs) : s[i] \in EntriesOf(d)
    BY <1>4, <1>9 DEF EntriesOf
  <2>3. \A id \in DOMAIN d : \E i \in 1..Len(recs) : s[i] = Entry(id, d[id])
    BY <1>4, <1>6, <1>8
  <2>4. \A e \in EntriesOf(d) : \E i \in 1..Len(recs) : s[i] = e
    BY <2>3 DEF EntriesOf
  <2> QED
    BY <2>1, <2>2, <2>4
<1>12. PrimaryHolds(AddAll(s), EntriesOf(d))
  BY <1>3, <1>10, <1>11, AddAllHolds
<1> QED
  BY <1>12 DEF s

\* A start from the log files the live records as they read, in any order.
LEMMA RebuildStep ==
  ASSUME IInv, RebuildFromWAL
  PROVE  IInv'
<1> DEFINE read == [id \in DOMAIN docs |-> docs[id].doc]
<1>1. FiledAs(docs, filed)
  BY DEF IInv, Held
<1>2. PICK recs \in SetToSeqs(Live) :
        RebuildEntries(recs, recs) /\ trees' = TreesOfRecs(recs)
  BY DEF RebuildFromWAL
<1>3. Live = {docs[id] : id \in DOMAIN docs}
  BY DEF Live
<1>4. recs \in Seq(Recs) /\ IsInjective(recs) /\ ToSet(recs) = Live
  BY <1>1, <1>2, <1>3, OrderOfRecords
<1>5. /\ primary' = AddAll([i \in DOMAIN recs |-> [id |-> recs[i].id, offset |-> recs[i]]])
      /\ secondary' = AddDocs(recs) /\ filed' = read /\ docs' = docs
  BY <1>2 DEF RebuildEntries
<1>6. PrimaryHolds(primary', EntriesOf(docs))
  BY <1>1, <1>3, <1>4, <1>5, EntriesInOrder
<1>7. ListsHold(secondary', Readings(ListKeys, Live))
  BY <1>4, <1>5, AddDocsHolds
<1>8. TreesHold(trees', Readings(TreeKeys, Live))
  BY <1>2, <1>4, TreesOfRecsHold
<1>9. FiledAs(docs, read) /\ Placed(Readings(ListKeys, Live), ListKeys, docs, read)
  BY <1>1, <1>3, KeysPerField, PlacedAsRead
<1>10. Placed(Readings(TreeKeys, Live), TreeKeys, docs, read)
  BY <1>1, <1>3, KeysPerField, PlacedAsRead
<1> HIDE DEF read
<1>11. Held(secondary', trees', docs, read)
  BY <1>7, <1>8, <1>9, <1>10, Zenon DEF Held
<1> QED
  BY <1>5, <1>6, <1>11 DEF IInv

LEMMA StepKeeps ==
  ASSUME IInv, [Next]_vars
  PROVE  IInv'
<1>1. CASE UNCHANGED vars
  <2>1. /\ docs' = docs /\ filed' = filed /\ primary' = primary
        /\ secondary' = secondary /\ trees' = trees
    BY <1>1 DEF vars
  <2>2. Held(secondary', trees', docs', filed') /\ PrimaryHolds(primary', EntriesOf(docs'))
    BY <2>1 DEF IInv
  <2> QED
    BY <2>2 DEF IInv
<1>2. CASE Next
  BY <1>2, InsertStep, UpdateStep, DeleteStep, LoadStep, RebuildStep DEF Next
<1> QED
  BY <1>1, <1>2

------------------------------------------------------------------------------
(* What the invariant says *)

\* A live record.
LEMMA LiveTyped ==
  ASSUME IInv, NEW r \in Live
  PROVE  r \in Recs /\ r.doc \in Docs /\ r.id \in Ids
<1>1. FiledAs(docs, filed)
  BY DEF IInv, Held
<1>2. PICK id \in DOMAIN docs : r = docs[id]
  BY DEF Live
<1>3. r \in Recs /\ r.doc \in Docs
  BY <1>1, <1>2, RecFiled
<1> QED
  BY <1>3 DEF Recs

\* A key that is stray for a document is one of another document that reads so.
LEMMA StrayIs ==
  ASSUME NEW keysOf, NEW doc, NEW key \in Stray(keysOf, doc)
  PROVE  key \notin keysOf[doc] /\ \E e \in Docs : key \in keysOf[e]
BY DEF Stray, WrittenFor

LEMMA StraysAre ==
  ASSUME NEW doc \in Docs
  PROVE  Strays(doc) = Stray(ListKeys, doc) /\ NumberStrays(doc) = Stray(TreeKeys, doc)
<1>1. \A e \in Docs : ListKeys[e] = SecondaryKeys(e) /\ TreeKeys[e] = RangeKeys(e)
  BY DEF ListKeys, TreeKeys
<1>2. \A e \in WrittenFor(doc) : e \in Docs
  BY DEF WrittenFor
<1>3. {ListKeys[e] : e \in WrittenFor(doc)} = {SecondaryKeys(e) : e \in WrittenFor(doc)}
  BY <1>1, <1>2
<1>4. {TreeKeys[e] : e \in WrittenFor(doc)} = {RangeKeys(e) : e \in WrittenFor(doc)}
  BY <1>1, <1>2
<1>5. Strays(doc) = Stray(ListKeys, doc)
  BY <1>1, <1>3 DEF Strays, Stray
<1>6. NumberStrays(doc) = Stray(TreeKeys, doc)
  BY <1>1, <1>4 DEF NumberStrays, Stray
<1> QED
  BY <1>5, <1>6

LEMMA LookedUpRight ==
  ASSUME IInv
  PROVE  LookupsExact
<1>1. PrimaryHolds(primary, EntriesOf(docs))
  BY DEF IInv
<1>2. \A i, j \in DOMAIN primary.entries :
        i < j => primary.entries[i].id < primary.entries[j].id
  BY <1>1 DEF PrimaryHolds, SortedById
<1>3. \A id \in Ids :
        Lookup(primary, id) = IF id \in DOMAIN docs THEN docs[id] ELSE NoOffset
  BY <1>1, LookedUp
<1> QED
  BY <1>2, <1>3 DEF LookupsExact

\* What a list of the secondary index holds.
LEMMA ListHas ==
  ASSUME IInv, NEW key \in Fields \X Prints
  PROVE  LET list == ListOf(secondary, key)
         IN  /\ list \in Seq(Recs) /\ IsInjective(list)
             /\ ToSet(list) \cap Live =
                  {docs[id] : id \in {i \in DOMAIN docs : key \in SecondaryKeys(filed[i])}}
             /\ \A rec \in ToSet(list) \ Live : rec \in Recs /\ key \in Stray(ListKeys, rec.doc)
             /\ key \in DOMAIN secondary => list # <<>>
<1> DEFINE list == ListOf(secondary, key)
           Having == {i \in DOMAIN docs : key \in SecondaryKeys(filed[i])}
<1>1. PICK P : ListsHold(secondary, P) /\ Placed(P, ListKeys, docs, filed)
  BY DEF IInv, Held
<1>2. FiledAs(docs, filed)
  BY DEF IInv, Held
<1>3. \A id \in DOMAIN docs : docs[id] \in Recs /\ filed[id] \in Docs
  BY <1>2, RecFiled
<1>4. /\ IsInjective(list) /\ ToSet(list) = {rec \in Recs : <<key, rec>> \in P}
      /\ secondary \in Postings /\ (key \in DOMAIN secondary => list # <<>>)
  BY <1>1 DEF ListsHold, ListOf
<1>5. list \in Seq(Recs)
  BY <1>4, PostingsTyped
<1>6. \A rec : <<key, rec>>[1] = key /\ <<key, rec>>[2] = rec
  OBVIOUS
<1>7. \A id \in DOMAIN docs : key \in SecondaryKeys(filed[id]) <=> <<key, docs[id]>> \in P
  <2>1. \A id \in DOMAIN docs : ListKeys[filed[id]] = SecondaryKeys(filed[id])
    BY <1>3 DEF ListKeys
  <2>2. \A id \in DOMAIN docs : <<key, docs[id]>> \in P => key \in ListKeys[filed[id]]
    BY <1>1, <1>6 DEF Placed
  <2>3. \A id \in DOMAIN docs : key \in ListKeys[filed[id]] => <<key, docs[id]>> \in P
    BY <1>1 DEF Placed
  <2> QED
    BY <2>1, <2>2, <2>3
<1>8. \A rec : rec \in Live <=> \E id \in DOMAIN docs : rec = docs[id]
  BY DEF Live
<1>9. ToSet(list) \cap Live = {docs[id] : id \in Having}
  <2> HIDE DEF list
  <2> QED
    BY <1>3, <1>4, <1>7, <1>8
<1>10. ASSUME NEW rec \in ToSet(list) \ Live
       PROVE  rec \in Recs /\ key \in Stray(ListKeys, rec.doc)
  <2>1. rec \in Recs /\ <<key, rec>> \in P /\ \A id \in DOMAIN docs : <<key, rec>>[2] # docs[id]
    BY <1>4, <1>6, <1>8, <1>10
  <2>2. <<key, rec>>[1] \in Stray(ListKeys, <<key, rec>>[2].doc)
    BY <1>1, <2>1 DEF Placed
  <2> QED
    BY <1>6, <2>1, <2>2
<1> QED
  BY <1>4, <1>5, <1>9, <1>10

LEMMA ListsRight ==
  ASSUME IInv
  PROVE  ListsRepresent
<1> SUFFICES ASSUME NEW key \in Fields \X Prints
             PROVE  LET list == SecondaryLookup(secondary, key[1], key[2])
                    IN  /\ ToSet(list) \cap Live =
                             {docs[id] : id \in {i \in DOMAIN docs : key \in SecondaryKeys(filed[i])}}
                        /\ \A rec \in ToSet(list) \ Live : key \in Strays(rec.doc)
                        /\ IsInjective(list)
                        /\ key \in DOMAIN secondary => list # <<>>
  BY DEF ListsRepresent
<1>1. key = <<key[1], key[2]>>
  OBVIOUS
<1>2. SecondaryLookup(secondary, key[1], key[2]) = ListOf(secondary, key)
  BY <1>1 DEF SecondaryLookup, ListOf
<1>3. \A rec \in Recs : rec.doc \in Docs
  BY DEF Recs
<1>4. \A rec \in ToSet(ListOf(secondary, key)) \ Live : key \in Strays(rec.doc)
  BY <1>3, ListHas, StraysAre
<1> QED
  BY <1>2, <1>4, ListHas

\* What a tree of the range index holds.
LEMMA TreeHas ==
  ASSUME IInv, NEW f \in Fields
  PROVE  /\ trees[f] \in Sound /\ DOMAIN trees = Fields
         /\ ToSet(AvlCollect(trees[f])) \subseteq Keys \X Recs
         /\ \A pair \in ToSet(AvlCollect(trees[f])) : \A id \in DOMAIN docs :
              pair[2] = docs[id] =>
                f \in NumericFields(filed[id]) /\ pair[1] = Num[filed[id][f]]
         /\ \A id \in DOMAIN docs : f \in NumericFields(filed[id]) =>
              <<Num[filed[id][f]], docs[id]>> \in ToSet(AvlCollect(trees[f]))
         /\ \A pair \in ToSet(AvlCollect(trees[f])) :
              pair[2] \notin Live => <<f, pair[1]>> \in Stray(TreeKeys, pair[2].doc)
         /\ \A p, q \in ToSet(AvlCollect(trees[f])) : p[2] = q[2] => p = q
<1> DEFINE S == ToSet(AvlCollect(trees[f]))
<1>1. PICK P : TreesHold(trees, P) /\ Placed(P, TreeKeys, docs, filed)
  BY DEF IInv, Held
<1>2. FiledAs(docs, filed)
  BY DEF IInv, Held
<1>3. \A id \in DOMAIN docs : docs[id] \in Recs /\ filed[id] \in Docs
  BY <1>2, RecFiled
<1>4. trees[f] \in Sound /\ Filed(trees[f]) = OfField(P, f) /\ DOMAIN trees = Fields
  BY <1>1 DEF TreesHold
<1>5. S = OfField(P, f)
  BY <1>4, SoundHas
<1> HIDE DEF S
<1>6. \A e \in S : e \in Keys \X Recs /\ <<<<f, e[1]>>, e[2]>> \in P
  BY <1>5 DEF OfField
<1>7. \A e \in Keys \X Recs : <<<<f, e[1]>>, e[2]>> \in P => e \in S
  BY <1>5 DEF OfField
<1>8. ASSUME NEW id \in DOMAIN docs
      PROVE  /\ TreeKeys[filed[id]] = {<<g, Num[filed[id][g]]>> : g \in NumericFields(filed[id])}
             /\ \A g \in NumericFields(filed[id]) : Num[filed[id][g]] \in Keys
  <2>1. filed[id] \in Docs
    BY <1>3
  <2>2. TreeKeys[filed[id]] = RangeKeys(filed[id])
    BY <2>1 DEF TreeKeys
  <2> QED
    BY <2>1, <2>2, NumbersTyped
<1>9. ASSUME NEW pair \in S, NEW id \in DOMAIN docs, pair[2] = docs[id]
      PROVE  f \in NumericFields(filed[id]) /\ pair[1] = Num[filed[id][f]]
  <2> DEFINE e == <<<<f, pair[1]>>, pair[2]>>
  <2>1. e \in P /\ e[1] = <<f, pair[1]>> /\ e[2] = docs[id]
    BY <1>6, <1>9
  <2> HIDE DEF e
  <2>2. e[1] \in TreeKeys[filed[id]]
    BY <1>1, <2>1 DEF Placed
  <2>3. PICK g \in NumericFields(filed[id]) : <<f, pair[1]>> = <<g, Num[filed[id][g]]>>
    BY <1>8, <2>1, <2>2
  <2> QED
    BY <2>3
<1>10. ASSUME NEW id \in DOMAIN docs, f \in NumericFields(filed[id])
       PROVE  <<Num[filed[id][f]], docs[id]>> \in S
  <2> DEFINE n == Num[filed[id][f]]
  <2>1. <<f, n>> \in TreeKeys[filed[id]] /\ n \in Keys /\ docs[id] \in Recs
    BY <1>3, <1>8, <1>10
  <2> HIDE DEF n
  <2>2. <<<<f, n>>, docs[id]>> \in P
    BY <1>1, <2>1 DEF Placed
  <2>3. <<n, docs[id]>> \in Keys \X Recs /\ <<n, docs[id]>>[1] = n /\ <<n, docs[id]>>[2] = docs[id]
    BY <2>1
  <2>4. <<n, docs[id]>> \in S
    BY <1>7, <2>2, <2>3
  <2> QED
    BY <2>4 DEF n
<1>11. ASSUME NEW pair \in S, pair[2] \notin Live
       PROVE  <<f, pair[1]>> \in Stray(TreeKeys, pair[2].doc)
  <2> DEFINE e == <<<<f, pair[1]>>, pair[2]>>
  <2>1. e \in P /\ e[1] = <<f, pair[1]>> /\ e[2] = pair[2]
    BY <1>6
  <2>2. \A id \in DOMAIN docs : pair[2] # docs[id]
    BY <1>11 DEF Live
  <2> HIDE DEF e
  <2>3. e[1] \in Stray(TreeKeys, e[2].doc)
    BY <1>1, <2>1, <2>2 DEF Placed
  <2> QED
    BY <2>1, <2>3
<1>12. ASSUME NEW p \in S, NEW q \in S, p[2] = q[2]
       PROVE  p = q
  <2> DEFINE d == <<<<f, p[1]>>, p[2]>>
             e == <<<<f, q[1]>>, q[2]>>
  <2>1. d \in P /\ e \in P /\ d[2] = e[2] /\ d[1][1] = e[1][1]
    BY <1>6, <1>12
  <2>2. p \in Keys \X Recs /\ q \in Keys \X Recs
    BY <1>6
  <2>6. p = <<p[1], p[2]>>
    BY <2>2
  <2>7. q = <<q[1], q[2]>>
    BY <2>2
  <2>8. d[1] = <<f, p[1]>>
    OBVIOUS
  <2>9. e[1] = <<f, q[1]>>
    OBVIOUS
  <2> HIDE DEF d, e
  <2>3. d = e
    BY <1>1, <2>1 DEF Placed
  <2>4. <<f, p[1]>> = <<f, q[1]>>
    BY <2>3, <2>8, <2>9
  <2>5. p[1] = q[1]
    BY <2>4
  <2> QED
    BY <1>12, <2>5, <2>6, <2>7
<1>13. S \subseteq Keys \X Recs
  BY <1>6
<1> QED
  BY <1>4, <1>9, <1>10, <1>11, <1>12, <1>13 DEF S

LEMMA TreesRight ==
  ASSUME IInv
  PROVE  TreesRepresent
<1> SUFFICES ASSUME NEW f \in Fields
             PROVE  LET pairs == AvlCollect(trees[f])
                        numbered == {i \in DOMAIN docs : f \in NumericFields(filed[i])}
                    IN  /\ {pair \in ToSet(pairs) : pair[2] \in Live} =
                             {<<Num[filed[id][f]], docs[id]>> : id \in numbered}
                        /\ \A pair \in ToSet(pairs) :
                             pair[2] \notin Live => <<f, pair[1]>> \in NumberStrays(pair[2].doc)
                        /\ \A i, j \in DOMAIN pairs : pairs[i][2] = pairs[j][2] => i = j
  BY DEF TreesRepresent
<1> DEFINE pairs == AvlCollect(trees[f])
           numbered == {i \in DOMAIN docs : f \in NumericFields(filed[i])}
<1>1. /\ trees[f] \in Sound
      /\ ToSet(pairs) \subseteq Keys \X Recs
      /\ \A pair \in ToSet(pairs) : \A id \in DOMAIN docs :
           pair[2] = docs[id] => f \in NumericFields(filed[id]) /\ pair[1] = Num[filed[id][f]]
      /\ \A id \in DOMAIN docs : f \in NumericFields(filed[id]) =>
           <<Num[filed[id][f]], docs[id]>> \in ToSet(pairs)
      /\ \A pair \in ToSet(pairs) :
           pair[2] \notin Live => <<f, pair[1]>> \in Stray(TreeKeys, pair[2].doc)
      /\ \A p, q \in ToSet(pairs) : p[2] = q[2] => p = q
  BY TreeHas
<1>2. pairs \in Seq(KeyedOffsets) /\ IsInjective(pairs)
  BY <1>1, SoundHas DEF Lists
<1> HIDE DEF pairs
<1>3. \A pair \in ToSet(pairs) : pair = <<pair[1], pair[2]>> /\ pair[2].doc \in Docs
  BY <1>1 DEF Recs
<1>4. ASSUME NEW pair \in ToSet(pairs), pair[2] \in Live
      PROVE  \E id \in numbered : pair = <<Num[filed[id][f]], docs[id]>>
  <2>1. PICK id \in DOMAIN docs : pair[2] = docs[id]
    BY <1>4 DEF Live
  <2>2. f \in NumericFields(filed[id]) /\ pair[1] = Num[filed[id][f]]
    BY <1>1, <2>1
  <2>3. pair = <<Num[filed[id][f]], docs[id]>>
    BY <1>3, <2>1, <2>2, Zenon
  <2> QED
    BY <2>2, <2>3
<1>5. ASSUME NEW id \in numbered
      PROVE  /\ <<Num[filed[id][f]], docs[id]>> \in ToSet(pairs)
             /\ <<Num[filed[id][f]], docs[id]>>[2] \in Live
  BY <1>1 DEF Live
<1> HIDE DEF numbered
<1>6. {pair \in ToSet(pairs) : pair[2] \in Live} = {<<Num[filed[id][f]], docs[id]>> : id \in numbered}
  BY <1>4, <1>5
<1>7. \A pair \in ToSet(pairs) :
        pair[2] \notin Live => <<f, pair[1]>> \in NumberStrays(pair[2].doc)
  BY <1>1, <1>3, StraysAre
<1>8. ASSUME NEW i \in DOMAIN pairs, NEW j \in DOMAIN pairs, pairs[i][2] = pairs[j][2]
      PROVE  i = j
  <2>1. pairs[i] \in ToSet(pairs) /\ pairs[j] \in ToSet(pairs)
    BY DEF ToSet
  <2>2. pairs[i] = pairs[j]
    BY <1>1, <1>8, <2>1
  <2> QED
    BY <1>2, <2>2 DEF IsInjective
<1> QED
  BY <1>6, <1>7, <1>8 DEF pairs, numbered

------------------------------------------------------------------------------
(* What Find finds *)

\* FilterKeeps, of records and of offsets.
LEMMA RecsKept ==
  ASSUME NEW N \in Nat, NEW T, NEW v \in [1..N -> Recs], NEW f, IsFilter(f, N, T, v)
  PROVE  /\ f[N] \in Seq(Recs)
         /\ ToSet(f[N]) = Picked(N, T, v)
         /\ Distinct(N, T, v) => IsInjective(f[N])
BY FilterKeeps

LEMMA OffsetsKept ==
  ASSUME NEW N \in Nat, NEW T, NEW v \in [1..N -> Offsets], NEW f, IsFilter(f, N, T, v)
  PROVE  /\ f[N] \in Seq(Offsets)
         /\ ToSet(f[N]) = Picked(N, T, v)
         /\ Distinct(N, T, v) => IsInjective(f[N])
BY FilterKeeps

\* The choice from a listing holds the offsets under the keys of the set, each once if
\* no offset is listed twice.
LEMMA ChosenAre ==
  ASSUME NEW s \in Seq(KeyedOffsets), NEW S,
         \A i, j \in 1..Len(s) : s[i][2] = s[j][2] => i = j
  PROVE  /\ Chosen(s, S) \in Seq(Offsets)
         /\ IsInjective(Chosen(s, S))
         /\ ToSet(Chosen(s, S)) = {e[2] : e \in {d \in ToSet(s) : d[1] \in S}}
<1> DEFINE N == Len(s)
           In == {n \in 1..N : s[n][1] \in S}
           v == [n \in 1..N |-> s[n][2]]
<1>1. N \in Nat /\ DOMAIN s = 1..N /\ \A n \in 1..N : s[n] \in KeyedOffsets
  OBVIOUS
<1>2. v \in [1..N -> Offsets]
  BY <1>1 DEF KeyedOffsets
<1>3. PICK f : /\ f \in [0..N -> Seq(Offsets)]
               /\ f[0] = <<>>
               /\ \A n \in 1..N :
                    f[n] = IF s[n][1] \in S THEN Append(f[n - 1], s[n][2]) ELSE f[n - 1]
               /\ Chosen(s, S) = f[N]
  BY ChosenRuns
<1>4. \A n \in 1..N : (n \in In <=> s[n][1] \in S) /\ v[n] = s[n][2]
  OBVIOUS
<1>5. Distinct(N, In, v)
  BY <1>4 DEF Distinct
<1>6. Picked(N, In, v) = {e[2] : e \in {d \in ToSet(s) : d[1] \in S}}
  BY <1>1, <1>4 DEF Picked, ToSet
<1> HIDE DEF N, In, v
<1>7. ASSUME NEW n \in 0..N
      PROVE  f[n] = IF n = 0 THEN <<>>
                    ELSE IF n \in In THEN Append(f[n - 1], v[n]) ELSE f[n - 1]
  <2>1. n = 0 \/ n \in 1..N
    BY <1>1
  <2> QED
    BY <1>3, <1>4, <2>1
<1>8. f = [n \in 0..N |-> f[n]]
  BY <1>3
<1>9. IsFilter(f, N, In, v)
  BY <1>7, <1>8, Zenon DEF IsFilter
<1>10. /\ f[N] \in Seq(Offsets) /\ ToSet(f[N]) = Picked(N, In, v)
       /\ Distinct(N, In, v) => IsInjective(f[N])
  <2>1. N \in Nat
    BY <1>1
  <2> QED
    BY <1>2, <1>9, <2>1, OffsetsKept
<1> QED
  BY <1>3, <1>5, <1>6, <1>10

\* The loop of matchesAll keeps the candidates that match, each as often as it came.
LEMMA MatchedAre ==
  ASSUME NEW recs \in Seq(Recs), IsInjective(recs), NEW filters
  PROVE  LET found == Matching(recs, filters)
         IN  /\ found \in Seq(Recs) /\ IsInjective(found)
             /\ ToSet(found) = {r \in ToSet(recs) : MatchesAll(r, filters)}
             /\ Len(found) = Cardinality(ToSet(found))
<1> DEFINE N == Len(recs)
           In == {n \in 1..N : MatchesAll(recs[n], filters)}
           matched[n \in 0..N] ==
             IF n = 0 THEN <<>>
             ELSE IF MatchesAll(recs[n], filters) THEN Append(matched[n - 1], recs[n])
             ELSE matched[n - 1]
<1>1. N \in Nat /\ DOMAIN recs = 1..N /\ recs \in [1..N -> Recs]
  OBVIOUS
<1>2. Matching(recs, filters) = matched[N]
  BY DEF Matching
<1>3. ASSUME NEW f, NEW n \in 0..N
      PROVE  (IF n = 0 THEN <<>> ELSE IF n \in In THEN Append(f[n - 1], recs[n]) ELSE f[n - 1])
             = (IF n = 0 THEN <<>>
                ELSE IF MatchesAll(recs[n], filters) THEN Append(f[n - 1], recs[n])
                ELSE f[n - 1])
  BY <1>1
<1>4. Distinct(N, In, recs)
  BY <1>1 DEF IsInjective, Distinct
<1>5. Picked(N, In, recs) = {r \in ToSet(recs) : MatchesAll(r, filters)}
  BY <1>1 DEF ToSet, Picked
<1> HIDE DEF N, In
<1>6. PICK f : IsFilter(f, N, In, recs)
  BY <1>1, FilterExists
<1>7. f = [n \in 0..N |-> IF n = 0 THEN <<>>
                          ELSE IF MatchesAll(recs[n], filters) THEN Append(f[n - 1], recs[n])
                          ELSE f[n - 1]]
  BY <1>3, <1>6, Zenon DEF IsFilter
<1>8. matched = [n \in 0..N |-> IF n = 0 THEN <<>>
                          ELSE IF MatchesAll(recs[n], filters) THEN Append(matched[n - 1], recs[n])
                          ELSE matched[n - 1]]
  BY <1>7, Zenon
<1> HIDE DEF matched
<1>9. IsFilter(matched, N, In, recs)
  BY <1>3, <1>8, Zenon DEF IsFilter
<1>10. /\ matched[N] \in Seq(Recs) /\ ToSet(matched[N]) = Picked(N, In, recs)
       /\ IsInjective(matched[N])
  <2>1. N \in Nat /\ recs \in [1..N -> Recs]
    BY <1>1
  <2>2. /\ matched[N] \in Seq(Recs) /\ ToSet(matched[N]) = Picked(N, In, recs)
        /\ Distinct(N, In, recs) => IsInjective(matched[N])
    BY <1>9, <2>1, RecsKept
  <2> QED
    BY <1>4, <2>2
<1>11. Cardinality(ToSet(matched[N])) = Len(matched[N])
  BY <1>10, InjectiveLength
<1> QED
  BY <1>2, <1>5, <1>10, <1>11

\* A full scan reads every live record once.
\* A full scan reads every live record once.
LEMMA ScanReads ==
  ASSUME IInv
  PROVE  /\ Scan(primary) \in Seq(Recs) /\ IsInjective(Scan(primary))
         /\ ToSet(Scan(primary)) = Live
<1> DEFINE s == primary.entries
           N == Len(s)
<1>1. s \in Seq(Entries) /\ SortedById(s) /\ ToSet(s) = EntriesOf(docs)
  BY DEF IInv, PrimaryHolds
<1>2. N \in Nat /\ DOMAIN s = 1..N /\ \A i \in 1..N : s[i] \in Entries
  BY <1>1
<1>3. Scan(primary) = [i \in 1..N |-> s[i].offset]
  BY <1>2 DEF Scan
<1>4. \A e \in EntriesOf(docs) : e.id \in Nat /\ e.offset.id = e.id /\ e.offset \in Live
  <2>1. FiledAs(docs, filed)
    BY DEF IInv, Held
  <2>2. \A i \in DOMAIN docs : i \in Nat /\ docs[i].id = i
    BY <2>1, RecFiled, IdsAssumption
  <2> QED
    BY <2>2 DEF EntriesOf, Entry, Live
<1>5. ASSUME NEW r \in Live
      PROVE  \E e \in EntriesOf(docs) : e.offset = r
  <2>1. PICK id \in DOMAIN docs : r = docs[id]
    BY DEF Live
  <2>2. Entry(id, r) \in EntriesOf(docs) /\ Entry(id, r).offset = r
    BY <2>1 DEF EntriesOf, Entry
  <2> QED
    BY <2>2
<1> HIDE DEF s
<1>6. \A i \in 1..N : s[i] \in EntriesOf(docs)
  BY <1>1, <1>2 DEF ToSet
<1>7. \A i, j \in 1..N : s[i].id = s[j].id => i = j
  <2>1. \A i, j \in 1..N : i < j => s[i].id < s[j].id
    BY <1>1, <1>2 DEF SortedById
  <2>2. \A i \in 1..N : s[i].id \in Nat
    BY <1>4, <1>6
  <2> QED
    BY <1>2, <2>1, <2>2
<1>8. \A i \in 1..N : s[i].offset \in Recs
  BY <1>2 DEF Entries
<1> HIDE DEF N
<1> DEFINE c == [i \in 1..N |-> s[i].offset]
<1>9. c \in Seq(Recs) /\ DOMAIN c = 1..N
  BY <1>2, <1>8
<1>10. IsInjective(c)
  BY <1>4, <1>6, <1>7 DEF IsInjective
<1>11. ToSet(c) = Live
  <2>1. ToSet(c) = {s[i].offset : i \in 1..N}
    BY <1>9 DEF ToSet
  <2>2. \A e \in EntriesOf(docs) : \E i \in 1..N : s[i] = e
    BY <1>1, <1>2 DEF ToSet
  <2>3. \A r \in Live : \E i \in 1..N : s[i].offset = r
    BY <1>5, <2>2
  <2>4. \A i \in 1..N : s[i].offset \in Live
    BY <1>4, <1>6
  <2> QED
    BY <2>1, <2>3, <2>4
<1> QED
  BY <1>3, <1>9, <1>10, <1>11

\* A walk of a tree reads the offsets under the numbers in range.
LEMMA RangeReads ==
  ASSUME IInv, NEW f \in Fields, NEW min \in Int, NEW max \in Int
  PROVE  LET found == AvlRange(trees[f], min, max)
         IN  /\ found \in Seq(Recs) /\ IsInjective(found)
             /\ ToSet(found) =
                  {e[2] : e \in {d \in ToSet(AvlCollect(trees[f])) : d[1] \in min..max}}
<1> DEFINE s == AvlCollect(trees[f])
           S == min..max
<1>1. /\ trees[f] \in Sound
      /\ \A p, q \in ToSet(s) : p[2] = q[2] => p = q
  BY TreeHas
<1>2. s \in Seq(KeyedOffsets) /\ IsInjective(s) /\ trees[f] \in AllTrees /\ Search(trees[f])
  BY <1>1, SoundHas DEF Lists
<1>3. AvlRange(trees[f], min, max) = Chosen(s, S)
  BY <1>2, RangeChooses
<1> HIDE DEF s
<1>4. ASSUME NEW i \in 1..Len(s), NEW j \in 1..Len(s), s[i][2] = s[j][2]
      PROVE  i = j
  <2>1. s[i] \in ToSet(s) /\ s[j] \in ToSet(s) /\ DOMAIN s = 1..Len(s)
    BY <1>2 DEF ToSet
  <2>2. s[i] = s[j]
    BY <1>1, <1>4, <2>1
  <2> QED
    BY <1>2, <2>1, <2>2 DEF IsInjective
<1>5. /\ Chosen(s, S) \in Seq(Offsets) /\ IsInjective(Chosen(s, S))
      /\ ToSet(Chosen(s, S)) = {e[2] : e \in {d \in ToSet(s) : d[1] \in S}}
  BY <1>2, <1>4, ChosenAre
<1> QED
  BY <1>3, <1>5, TreesAssumption DEF s

\* The strategy: what ExecuteFind reads for one filter and for two.
LEMMA CandidatesAre ==
  ASSUME NEW f
  PROVE  /\ f.op = "eq" => Candidates(ix, <<f>>) = SecondaryLookup(secondary, f.field, f.value)
         /\ f.op \in RangeOps => Candidates(ix, <<f>>) = RangeQuery(trees, f.field, f.op, f.value)
         /\ f.op = "other" => Candidates(ix, <<f>>) = Scan(primary)
         /\ \A g : Candidates(ix, <<f, g>>) = Scan(primary)
<1>1. Len(<<f>>) = 1 /\ <<f>>[1] = f /\ \A g : Len(<<f, g>>) = 2
  OBVIOUS
<1>2. ix.primary = primary /\ ix.secondary = secondary /\ ix.trees = trees
  BY DEF ix
<1>3. ASSUME f.op = "eq"
      PROVE  Candidates(ix, <<f>>) = SecondaryLookup(secondary, f.field, f.value)
  <2>1. f.op \notin RangeOps
    BY <1>3 DEF RangeOps
  <2> QED
    BY <1>1, <1>2, <1>3, <2>1 DEF Candidates
<1>4. ASSUME f.op \in RangeOps
      PROVE  Candidates(ix, <<f>>) = RangeQuery(trees, f.field, f.op, f.value)
  <2>1. f.op # "eq"
    BY <1>4 DEF RangeOps
  <2> QED
    BY <1>1, <1>2, <1>4, <2>1 DEF Candidates
<1>5. ASSUME f.op = "other"
      PROVE  Candidates(ix, <<f>>) = Scan(primary)
  <2>1. f.op # "eq" /\ f.op \notin RangeOps
    BY <1>5 DEF RangeOps
  <2> QED
    BY <1>1, <1>2, <2>1 DEF Candidates
<1>6. ASSUME NEW g
      PROVE  Candidates(ix, <<f, g>>) = Scan(primary)
  <2>1. Len(<<f, g>>) # 1
    BY <1>1
  <2> QED
    BY <1>2, <2>1 DEF Candidates
<1> QED
  BY <1>3, <1>4, <1>5, <1>6

LEMMA MatchesAllOf ==
  ASSUME NEW r, NEW f
  PROVE  /\ MatchesAll(r, <<f>>) <=> Matches(r, f)
         /\ \A g : MatchesAll(r, <<f, g>>) <=> Matches(r, f) /\ Matches(r, g)
<1>1. MatchesAll(r, <<f>>) <=> Matches(r, f)
  <2>1. DOMAIN <<f>> = {1} /\ <<f>>[1] = f
    OBVIOUS
  <2> QED
    BY <2>1, Zenon DEF MatchesAll
<1>2. ASSUME NEW g
      PROVE  MatchesAll(r, <<f, g>>) <=> Matches(r, f) /\ Matches(r, g)
  <2>1. DOMAIN <<f, g>> = {1, 2} /\ <<f, g>>[1] = f /\ <<f, g>>[2] = g
    OBVIOUS
  <2> QED
    BY <2>1, Zenon DEF MatchesAll
<1> QED
  BY <1>1, <1>2

\* What a strategy that reads the records C once each makes of the filters.
LEMMA FoundAmong ==
  ASSUME NEW filters, NEW C, ToSet(Candidates(ix, filters)) = C,
         Candidates(ix, filters) \in Seq(Recs), IsInjective(Candidates(ix, filters))
  PROVE  /\ Matched(ix, filters) \in Seq(Recs) /\ IsInjective(Matched(ix, filters))
         /\ Len(Matched(ix, filters)) = Cardinality(ToSet(Matched(ix, filters)))
         /\ ToSet(Matched(ix, filters)) = {r \in C : MatchesAll(r, filters)}
BY MatchedAre DEF Matched

\* Two filters are answered by a scan.
LEMMA BothScanned ==
  ASSUME IInv, NEW f, NEW g \in IdFilters
  PROVE  LET both == Matched(ix, <<f, g>>)
         IN  /\ Len(both) = Cardinality(ToSet(both))
             /\ ToSet(both) = {rec \in Scanned(f) : rec.id = g.value}
<1>1. Candidates(ix, <<f, g>>) = Scan(primary)
  BY CandidatesAre
<1>2. /\ Len(Matched(ix, <<f, g>>)) = Cardinality(ToSet(Matched(ix, <<f, g>>)))
      /\ ToSet(Matched(ix, <<f, g>>)) = {r \in Live : MatchesAll(r, <<f, g>>)}
  BY <1>1, ScanReads, FoundAmong
<1>3. \A r \in Live : MatchesAll(r, <<f, g>>) <=> Matches(r, f) /\ Matches(r, g)
  BY MatchesAllOf
<1>4. g.field = IdField /\ g.op = "eq"
  BY DEF IdFilters
<1>5. \A r : Matches(r, g) <=> r.id = g.value
  BY <1>4 DEF Matches, Has, PrintOf
<1> QED
  BY <1>2, <1>3, <1>5 DEF Scanned

\* Where a range filter looks in the tree of its field.
LEMMA RangeBounds ==
  ASSUME NEW f, f.op \in RangeOps, f.field \in Fields, DOMAIN trees = Fields,
         f.op # "between" => f.value \in Keys,
         f.op = "between" => f.value \in Keys \X Keys
  PROVE  \E min, max \in Int :
           /\ RangeQuery(trees, f.field, f.op, f.value) = AvlRange(trees[f.field], min, max)
           /\ \A k \in Keys : k \in min..max <=> Reached(f, k)
<1> DEFINE field == f.field
           value == f.value
           tree == trees[f.field]
<1>1. MinKey \in Int /\ MaxKey \in Int
  BY KeysAssumption
<1>2. field \in DOMAIN trees
  OBVIOUS
<1>3. ASSUME NEW k \in Keys
      PROVE  k \in Int /\ Above[k] \in Int /\ Above[k] >= k /\ Below[k] \in Int /\ Below[k] =< k
  BY KeysAssumption
<1>4. \A op : RangeQuery(trees, field, op, value) =
                CASE op = "gt" -> GreaterThan(tree, value)
                  [] op = "gte" -> AvlRange(tree, value, MaxKey)
                  [] op = "lt" -> LessThan(tree, value)
                  [] op = "lte" -> AvlRange(tree, MinKey, value)
                  [] op = "between" -> AvlRange(tree, value[1], value[2])
  BY <1>2, Zenon DEF RangeQuery
<1>5. CASE f.op = "gt"
  <2>1. RangeQuery(trees, field, f.op, value) = AvlRange(tree, Above[value], MaxKey)
    BY <1>4, <1>5 DEF GreaterThan
  <2>2. value \in Int /\ Above[value] \in Int /\ Above[value] >= value
        /\ Below[value] \in Int /\ Below[value] =< value
    BY <1>3, <1>5
  <2>3. ASSUME NEW k \in Keys
        PROVE  k \in Above[value]..MaxKey <=> Reached(f, k)
    <3>1. k \in Int
      BY <1>3
    <3>2. Reached(f, k) <=> /\ k <= MaxKey
                            /\ (k > value /\ ~ Near(value, k)) \/ (k = value /\ Above[k] = k)
      BY <1>5 DEF Reached
    <3>3. Near(value, k) <=> k # value /\ k >= Below[value] + 1 /\ k <= Above[value] - 1
      BY <2>2, <3>1 DEF Near
    <3>4. k = value => Above[k] = Above[value]
      OBVIOUS
    <3>5. CASE k = value
      <4>1. Reached(f, k) <=> k <= MaxKey /\ Above[value] = value
        BY <1>1, <2>2, <3>1, <3>2, <3>4, <3>5
      <4> HIDE DEF value
      <4> QED
        BY <1>1, <2>2, <3>5, <4>1
    <3>6. CASE k # value
      <4>1. Reached(f, k) <=> k <= MaxKey /\ k > value /\ ~ Near(value, k)
        BY <3>2, <3>6
      <4> HIDE DEF value
      <4> QED
        BY <1>1, <2>2, <3>1, <3>3, <3>6, <4>1
    <3> QED
      BY <3>5, <3>6
  <2> QED
    BY <1>1, <2>1, <2>2, <2>3
<1>6. CASE f.op = "lt"
  <2>1. RangeQuery(trees, field, f.op, value) = AvlRange(tree, MinKey, Below[value])
    BY <1>4, <1>6 DEF LessThan
  <2>2. value \in Int /\ Above[value] \in Int /\ Above[value] >= value
        /\ Below[value] \in Int /\ Below[value] =< value
    BY <1>3, <1>6
  <2>3. ASSUME NEW k \in Keys
        PROVE  k \in MinKey..Below[value] <=> Reached(f, k)
    <3>1. k \in Int
      BY <1>3
    <3>2. Reached(f, k) <=> /\ k >= MinKey
                            /\ (k < value /\ ~ Near(value, k)) \/ (k = value /\ Below[k] = k)
      BY <1>6 DEF Reached
    <3>3. Near(value, k) <=> k # value /\ k >= Below[value] + 1 /\ k <= Above[value] - 1
      BY <2>2, <3>1 DEF Near
    <3>4. k = value => Below[k] = Below[value]
      OBVIOUS
    <3>5. CASE k = value
      <4>1. Reached(f, k) <=> k >= MinKey /\ Below[value] = value
        BY <1>1, <2>2, <3>1, <3>2, <3>4, <3>5
      <4> HIDE DEF value
      <4> QED
        BY <1>1, <2>2, <3>5, <4>1
    <3>6. CASE k # value
      <4>1. Reached(f, k) <=> k >= MinKey /\ k < value /\ ~ Near(value, k)
        BY <3>2, <3>6
      <4> HIDE DEF value
      <4> QED
        BY <1>1, <2>2, <3>1, <3>3, <3>6, <4>1
    <3> QED
      BY <3>5, <3>6
  <2> QED
    BY <1>1, <2>1, <2>2, <2>3
<1>7. CASE f.op = "gte"
  <2>1. RangeQuery(trees, field, f.op, value) = AvlRange(tree, value, MaxKey)
    BY <1>4, <1>7
  <2>2. value \in Int
    BY <1>3, <1>7
  <2>3. \A k \in Keys : Reached(f, k) <=> k <= MaxKey /\ k >= value
    BY <1>7 DEF Reached
  <2>4. \A k \in Keys : k \in value..MaxKey <=> Reached(f, k)
    BY <1>1, <1>3, <2>2, <2>3
  <2> QED
    BY <1>1, <2>1, <2>2, <2>4
<1>8. CASE f.op = "lte"
  <2>1. RangeQuery(trees, field, f.op, value) = AvlRange(tree, MinKey, value)
    BY <1>4, <1>8
  <2>2. value \in Int
    BY <1>3, <1>8
  <2>3. \A k \in Keys : Reached(f, k) <=> k >= MinKey /\ k <= value
    BY <1>8 DEF Reached
  <2>4. \A k \in Keys : k \in MinKey..value <=> Reached(f, k)
    BY <1>1, <1>3, <2>2, <2>3
  <2> QED
    BY <1>1, <2>1, <2>2, <2>4
<1>9. CASE f.op = "between"
  <2>1. RangeQuery(trees, field, f.op, value) = AvlRange(tree, value[1], value[2])
    BY <1>4, <1>9
  <2>2. value[1] \in Int /\ value[2] \in Int
    BY <1>3, <1>9
  <2>3. \A k \in Keys : Reached(f, k) <=> k \in value[1]..value[2]
    BY <1>9 DEF Reached
  <2> QED
    BY <2>1, <2>2, <2>3
<1> QED
  BY <1>5, <1>6, <1>7, <1>8, <1>9 DEF RangeOps

\* What one filter finds: of the live, those that match where the index has them; of the
\* others, what is stray in the tree it walks.
OneFinds(f, found) ==
  /\ found \in Seq(Recs) /\ IsInjective(found)
  /\ Len(found) = Cardinality(ToSet(found))
  /\ ToSet(found) \cap Live = Scanned(f) \cap Indexed(f)
  /\ ToSet(found) \subseteq Live \cup Treed(trees)
  /\ \A rec \in ToSet(found) \ Live :
       /\ f.op \in RangeOps
       /\ \E key \in NumberStrays(rec.doc) : key[1] = f.field /\ Reached(f, key[2])

\* An index finds so whose candidates are such.
LEMMA FindsAmong ==
  ASSUME NEW f, NEW C, ToSet(Candidates(ix, <<f>>)) = C,
         Candidates(ix, <<f>>) \in Seq(Recs), IsInjective(Candidates(ix, <<f>>)),
         C \cap Live = Indexed(f), C \subseteq Live \cup Treed(trees),
         \A rec \in C \ Live : Matches(rec, f) =>
           /\ f.op \in RangeOps
           /\ \E key \in NumberStrays(rec.doc) : key[1] = f.field /\ Reached(f, key[2])
  PROVE  OneFinds(f, Matched(ix, <<f>>))
<1> DEFINE found == Matched(ix, <<f>>)
<1>1. /\ found \in Seq(Recs) /\ IsInjective(found)
      /\ Len(found) = Cardinality(ToSet(found))
      /\ ToSet(found) = {r \in C : MatchesAll(r, <<f>>)}
  BY FoundAmong
<1>2. \A r : MatchesAll(r, <<f>>) <=> Matches(r, f)
  BY MatchesAllOf
<1> HIDE DEF found
<1>3. \A r : r \in ToSet(found) <=> r \in C /\ Matches(r, f)
  BY <1>1, <1>2
<1>4. ToSet(found) \cap Live = Scanned(f) \cap Indexed(f)
  BY <1>3 DEF Scanned
<1>5. ToSet(found) \subseteq Live \cup Treed(trees)
  BY <1>3
<1>6. \A rec \in ToSet(found) \ Live :
        /\ f.op \in RangeOps
        /\ \E key \in NumberStrays(rec.doc) : key[1] = f.field /\ Reached(f, key[2])
  BY <1>3
<1>7. OneFinds(f, found)
  BY <1>1, <1>4, <1>5, <1>6 DEF OneFinds
<1> QED
  BY <1>7 DEF found

LEMMA FilterTyped ==
  ASSUME NEW f \in Filters
  PROVE  /\ f.field \in Fields \cup {IdField}
         /\ f.op \in {"eq", "other"} \cup RangeOps
         /\ f.op = "eq" /\ f.field \in Fields => f.value \in Prints
         /\ f.op \in RangeOps /\ f.op # "between" => f.value \in Keys
         /\ f.op = "between" => f.value \in Keys \X Keys
<1>1. CASE f \in [field : Fields, op : {"eq"}, value : Prints]
  BY <1>1 DEF RangeOps
<1>2. CASE f \in IdFilters
  BY <1>2, IdFieldAssumption DEF RangeOps, IdFilters
<1>3. CASE f \in [field : Fields \cup {IdField}, op : {"gt", "gte", "lt", "lte", "other"},
                  value : Keys]
  BY <1>3 DEF RangeOps
<1>4. CASE f \in [field : Fields \cup {IdField}, op : {"between"}, value : Keys \X Keys]
  BY <1>4 DEF RangeOps
<1> QED
  BY <1>1, <1>2, <1>3, <1>4 DEF Filters

\* A filter that needs a scan, and one on the _id, which no index has.
LEMMA OtherFound ==
  ASSUME IInv, NEW f \in Filters, f.op = "other"
  PROVE  OneFinds(f, Matched(ix, <<f>>))
<1>1. Candidates(ix, <<f>>) = Scan(primary)
  BY CandidatesAre
<1>2. Indexed(f) = Live
  BY DEF Indexed
<1>3. Live \cap Live = Live /\ Live \subseteq Live \cup Treed(trees) /\ Live \ Live = {}
  OBVIOUS
<1> QED
  BY <1>1, <1>2, <1>3, ScanReads, FindsAmong

LEMMA IdFound ==
  ASSUME IInv, NEW f \in Filters, f.op # "other", f.field = IdField
  PROVE  OneFinds(f, Matched(ix, <<f>>))
<1>1. Indexed(f) = {}
  BY DEF Indexed
<1>2. <<>> \in Seq(Recs) /\ IsInjective(<<>>) /\ ToSet(<<>>) = {}
  BY DEF IsInjective, ToSet
<1>3. Held(secondary, trees, docs, filed) /\ IdField \notin Fields
  BY IdFieldAssumption DEF IInv
<1>4. Candidates(ix, <<f>>) = <<>>
  <2>1. CASE f.op = "eq"
    <3>1. Candidates(ix, <<f>>) = SecondaryLookup(secondary, IdField, f.value)
      BY <2>1, CandidatesAre
    <3>2. DOMAIN secondary \subseteq Fields \X Prints
      BY <1>3, PostingsTyped DEF Held, ListsHold
    <3>3. <<IdField, f.value>> \notin DOMAIN secondary
      BY <1>3, <3>2
    <3> QED
      BY <3>1, <3>3 DEF SecondaryLookup
  <2>2. CASE f.op \in RangeOps
    <3>1. Candidates(ix, <<f>>) = RangeQuery(trees, IdField, f.op, f.value)
      BY <2>2, CandidatesAre
    <3>2. IdField \notin DOMAIN trees
      BY <1>3 DEF Held, TreesHold
    <3>3. \A min, max \in Int : AvlRange(Nil, min, max) = <<>>
      BY RangeIs
    <3>4. RangeQuery(trees, IdField, f.op, f.value) =
            CASE f.op = "gt" -> GreaterThan(Nil, f.value)
              [] f.op = "gte" -> AvlRange(Nil, f.value, MaxKey)
              [] f.op = "lt" -> LessThan(Nil, f.value)
              [] f.op = "lte" -> AvlRange(Nil, MinKey, f.value)
              [] f.op = "between" -> AvlRange(Nil, f.value[1], f.value[2])
      BY <3>2 DEF RangeQuery
    <3>5. /\ MinKey \in Int /\ MaxKey \in Int
          /\ \A k \in Keys : k \in Int /\ Above[k] \in Int /\ Below[k] \in Int
      BY KeysAssumption
    <3>6. CASE f.op = "between"
      <4>1. f.value[1] \in Int /\ f.value[2] \in Int
        BY <3>5, <3>6, FilterTyped
      <4> QED
        BY <3>1, <3>3, <3>4, <3>6, <4>1
    <3>7. CASE f.op # "between"
      <4>1. f.value \in Keys
        BY <2>2, <3>7, FilterTyped
      <4> QED
        BY <2>2, <3>1, <3>3, <3>4, <3>5, <3>7, <4>1 DEF RangeOps, GreaterThan, LessThan
    <3> QED
      BY <3>6, <3>7
  <2> QED
    BY <2>1, <2>2, FilterTyped
<1>5. {} \cap Live = {} /\ {} \subseteq Live \cup Treed(trees) /\ {} \ Live = {}
  OBVIOUS
<1> QED
  BY <1>1, <1>2, <1>4, <1>5, FindsAmong

\* A value that is looked up finds nothing that is no longer live: what is stray in a list
\* does not print as the key of that list any more.
LEMMA ValueFound ==
  ASSUME IInv, NEW f \in Filters, f.op = "eq", f.field \in Fields
  PROVE  OneFinds(f, Matched(ix, <<f>>))
<1> DEFINE key == <<f.field, f.value>>
           list == ListOf(secondary, key)
<1>1. key \in Fields \X Prints
  BY FilterTyped
<1>2. Candidates(ix, <<f>>) = list
  <2>1. Candidates(ix, <<f>>) = SecondaryLookup(secondary, f.field, f.value)
    BY CandidatesAre
  <2> QED
    BY <2>1 DEF SecondaryLookup, ListOf
<1>3. Indexed(f) = {docs[id] : id \in {i \in DOMAIN docs : key \in SecondaryKeys(filed[i])}}
  BY IdFieldAssumption DEF Indexed
<1>4. ASSUME NEW rec, Matches(rec, f)
      PROVE  key \in SecondaryKeys(rec.doc)
  <2>1. f.field \in DOMAIN rec.doc /\ Printed[rec.doc[f.field]] = f.value
    BY <1>4, IdFieldAssumption DEF Matches, Has, PrintOf
  <2> QED
    BY <2>1 DEF SecondaryKeys
<1> HIDE DEF key
<1>5. /\ list \in Seq(Recs) /\ IsInjective(list)
      /\ ToSet(list) \cap Live =
           {docs[id] : id \in {i \in DOMAIN docs : key \in SecondaryKeys(filed[i])}}
      /\ \A rec \in ToSet(list) \ Live : rec \in Recs /\ key \in Stray(ListKeys, rec.doc)
  BY <1>1, ListHas
<1>6. ASSUME NEW rec \in ToSet(list) \ Live
      PROVE  ~ Matches(rec, f)
  <2>1. rec.doc \in Docs /\ key \in Stray(ListKeys, rec.doc)
    BY <1>5 DEF Recs
  <2>2. key \notin SecondaryKeys(rec.doc)
    BY <2>1, StrayIs DEF ListKeys
  <2> QED
    BY <1>4, <2>2
<1> HIDE DEF list
<1>7. /\ Matched(ix, <<f>>) \in Seq(Recs) /\ IsInjective(Matched(ix, <<f>>))
      /\ Len(Matched(ix, <<f>>)) = Cardinality(ToSet(Matched(ix, <<f>>)))
      /\ ToSet(Matched(ix, <<f>>)) = {r \in ToSet(list) : MatchesAll(r, <<f>>)}
  BY <1>2, <1>5, FoundAmong
<1>8. \A r : r \in ToSet(Matched(ix, <<f>>)) <=> r \in ToSet(list) /\ Matches(r, f)
  BY <1>7, MatchesAllOf
<1>9. ToSet(Matched(ix, <<f>>)) \subseteq Live
  BY <1>6, <1>8
<1>10. ToSet(Matched(ix, <<f>>)) \cap Live = Scanned(f) \cap Indexed(f)
  BY <1>3, <1>5, <1>8 DEF Scanned
<1> QED
  BY <1>7, <1>9, <1>10 DEF OneFinds

\* A range is walked in the tree of its field.
LEMMA RangeFound ==
  ASSUME IInv, NEW f \in Filters, f.op \in RangeOps, f.field \in Fields
  PROVE  OneFinds(f, Matched(ix, <<f>>))
<1> DEFINE field == f.field
           S == ToSet(AvlCollect(trees[field]))
<1>1. /\ DOMAIN trees = Fields
      /\ S \subseteq Keys \X Recs
      /\ \A pair \in S : \A id \in DOMAIN docs :
           pair[2] = docs[id] =>
             field \in NumericFields(filed[id]) /\ pair[1] = Num[filed[id][field]]
      /\ \A id \in DOMAIN docs : field \in NumericFields(filed[id]) =>
           <<Num[filed[id][field]], docs[id]>> \in S
      /\ \A pair \in S : pair[2] \notin Live => <<field, pair[1]>> \in Stray(TreeKeys, pair[2].doc)
  BY TreeHas
<1>2. /\ f.op # "between" => f.value \in Keys
      /\ f.op = "between" => f.value \in Keys \X Keys
      /\ f.op # "other" /\ f.op # "eq" /\ field # IdField
  BY FilterTyped, IdFieldAssumption DEF RangeOps
<1>3. PICK min, max \in Int :
        /\ RangeQuery(trees, field, f.op, f.value) = AvlRange(trees[field], min, max)
        /\ \A k \in Keys : k \in min..max <=> Reached(f, k)
  BY <1>1, <1>2, RangeBounds
<1>4. Candidates(ix, <<f>>) = AvlRange(trees[field], min, max)
  BY <1>3, CandidatesAre
<1> DEFINE C == {e[2] : e \in {d \in S : d[1] \in min..max}}
<1>5. /\ Candidates(ix, <<f>>) \in Seq(Recs) /\ IsInjective(Candidates(ix, <<f>>))
      /\ ToSet(Candidates(ix, <<f>>)) = C
  BY <1>4, RangeReads
<1>6. Indexed(f) = {docs[id] : id \in {i \in DOMAIN docs : /\ field \in NumericFields(filed[i])
                                                         /\ Reached(f, Num[filed[i][field]])}}
  BY <1>2 DEF Indexed
<1>7. C \subseteq Treed(trees)
  <2>1. C \subseteq {e[2] : e \in S}
    OBVIOUS
  <2>2. {e[2] : e \in S} \subseteq Treed(trees)
    BY DEF Treed
  <2> QED
    BY <2>1, <2>2
<1> HIDE DEF S, field
<1>8. \A pair \in S : pair[1] \in Keys /\ pair[2] \in Recs
  BY <1>1
<1>9. \A r : r \in C <=> \E pair \in S : pair[2] = r /\ Reached(f, pair[1])
  BY <1>3, <1>8
<1> HIDE DEF C
<1>10. C \cap Live = Indexed(f)
  <2>1. ASSUME NEW r \in C \cap Live
        PROVE  r \in Indexed(f)
    <3>1. PICK pair \in S : pair[2] = r /\ Reached(f, pair[1])
      BY <1>9, <2>1
    <3>2. PICK id \in DOMAIN docs : r = docs[id]
      BY <2>1 DEF Live
    <3>3. field \in NumericFields(filed[id]) /\ pair[1] = Num[filed[id][field]]
      BY <1>1, <3>1, <3>2
    <3> QED
      BY <1>6, <3>1, <3>2, <3>3
  <2>2. ASSUME NEW r \in Indexed(f)
        PROVE  r \in C \cap Live
    <3>1. PICK id \in DOMAIN docs :
            r = docs[id] /\ field \in NumericFields(filed[id]) /\ Reached(f, Num[filed[id][field]])
      BY <1>6, <2>2
    <3> DEFINE pair == <<Num[filed[id][field]], docs[id]>>
    <3>2. pair \in S /\ pair[2] = r /\ Reached(f, pair[1])
      BY <1>1, <3>1
    <3> HIDE DEF pair
    <3> QED
      BY <1>9, <3>1, <3>2 DEF Live
  <2> QED
    BY <2>1, <2>2
<1>11. ASSUME NEW rec \in C \ Live
       PROVE  \E key \in NumberStrays(rec.doc) : key[1] = field /\ Reached(f, key[2])
  <2>1. PICK pair \in S : pair[2] = rec /\ Reached(f, pair[1])
    BY <1>9, <1>11
  <2>2. rec.doc \in Docs
    BY <1>8, <2>1 DEF Recs
  <2>3. <<field, pair[1]>> \in NumberStrays(rec.doc)
    BY <1>1, <1>11, <2>1, <2>2, StraysAre
  <2>4. <<field, pair[1]>>[1] = field /\ <<field, pair[1]>>[2] = pair[1]
    OBVIOUS
  <2> QED
    BY <2>1, <2>3, <2>4
<1>12. C \subseteq Live \cup Treed(trees)
  BY <1>7
<1> QED
  BY <1>5, <1>10, <1>11, <1>12, FindsAmong DEF field

\* One filter finds what it can, each record once.
LEMMA OneFound ==
  ASSUME IInv, NEW f \in Filters
  PROVE  OneFinds(f, Matched(ix, <<f>>))
<1>1. f.op = "other" \/ f.op = "eq" \/ f.op \in RangeOps
  BY FilterTyped
<1>2. f.field \in Fields \/ f.field = IdField
  BY FilterTyped
<1>3. "other" \notin RangeOps /\ "eq" # "other"
  BY DEF RangeOps
<1> QED
  BY <1>1, <1>2, <1>3, OtherFound, IdFound, ValueFound, RangeFound

------------------------------------------------------------------------------
(* The theorems *)

\* Through all writing calls and restarts, the primary index has an entry for each live
\* record, and the lists and the trees hold these under the keys of the documents they
\* were filed as, and of the others only what the round trip through the log kept from
\* being taken out.
THEOREM IndexesHold ==
  Spec => []IInv
<1>1. IInv /\ [Next]_vars => IInv'
  BY StepKeeps
<1> QED
  BY <1>1, InitKeeps, PTL DEF Spec

\* The state is typed: no tree has a number that is not one of a numeric value.
THEOREM StateTyped ==
  Spec => []TypeOK
<1>1. IInv => TypeOK
  <2> SUFFICES ASSUME IInv
               PROVE  TypeOK
    OBVIOUS
  <2>1. Held(secondary, trees, docs, filed) /\ PrimaryHolds(primary, EntriesOf(docs))
    BY DEF IInv
  <2>2. FiledAs(docs, filed)
    BY <2>1 DEF Held
  <2>3. (\E S \in SUBSET Ids : docs \in [S -> Recs]) /\ filed \in [DOMAIN docs -> Docs]
    BY <2>2, FiledFun DEF FiledAs
  <2>4. primary.entries \in Seq(Entries) /\ primary.bloom \subseteq 0..(M - 1)
    BY <2>1 DEF PrimaryHolds
  <2>5. /\ DOMAIN secondary \subseteq Fields \X Prints
        /\ \A key \in DOMAIN secondary : secondary[key] \in Seq(Recs)
    BY <2>1, PostingsTyped DEF Held, ListsHold
  <2>6. EntriesTypeOK
    BY <2>3, <2>4, <2>5 DEF EntriesTypeOK
  <2>7. DOMAIN trees = Fields
    BY <2>1 DEF Held, TreesHold
  <2>8. ASSUME NEW f \in Fields, NEW pair \in ToSet(AvlCollect(trees[f]))
        PROVE  pair \in {Num[v] : v \in NumericVals} \X Recs
    <3>1. pair \in Keys \X Recs
      BY TreeHas
    <3>2. \E e \in Docs : <<f, pair[1]>> \in TreeKeys[e]
      <4>1. CASE pair[2] \in Live
        <5>1. PICK id \in DOMAIN docs : pair[2] = docs[id]
          BY <4>1 DEF Live
        <5>2. f \in NumericFields(filed[id]) /\ pair[1] = Num[filed[id][f]] /\ filed[id] \in Docs
          BY <2>2, <5>1, TreeHas, RecFiled
        <5>3. <<f, pair[1]>> \in RangeKeys(filed[id])
          BY <5>2, NumbersTyped
        <5> QED
          BY <5>2, <5>3 DEF TreeKeys
      <4>2. CASE pair[2] \notin Live
        <5>1. <<f, pair[1]>> \in Stray(TreeKeys, pair[2].doc)
          BY <4>2, TreeHas
        <5> QED
          BY <5>1, StrayIs
      <4> QED
        BY <4>1, <4>2
    <3>3. PICK e \in Docs : <<f, pair[1]>> \in RangeKeys(e)
      BY <3>2 DEF TreeKeys
    <3>4. PICK g \in NumericFields(e) : <<f, pair[1]>> = <<g, Num[e[g]]>>
      BY <3>3, NumbersTyped
    <3>5. pair[1] = Num[e[g]] /\ e[g] \in NumericVals
      BY <3>4, NumbersTyped
    <3>6. pair = <<pair[1], pair[2]>> /\ pair[2] \in Recs
      BY <3>1
    <3>7. pair[1] \in {Num[v] : v \in NumericVals}
      BY <3>5
    <3> QED
      BY <3>6, <3>7
  <2> QED
    BY <2>6, <2>7, <2>8 DEF TypeOK
<1> QED
  BY <1>1, IndexesHold, PTL

\* An id is looked up, past the filter and by binary search, exactly when its document is
\* live, and as that document's record: no bits left behind by a deletion or shared with
\* other ids invent or hide a document (db.Get, Update, Delete, the check of Insert).
THEOREM LookupsAreExact ==
  Spec => []LookupsExact
<1>1. IInv => LookupsExact
  BY LookedUpRight
<1> QED
  BY <1>1, IndexesHold, PTL

\* The lists of the secondary index hold the live records under the keys of the documents
\* they were filed as, each once.  Update and Delete take a record out under the keys of
\* the document they read back, and what that leaves behind is only what the round trip
\* through the log prints otherwise.
THEOREM ListsAreExact ==
  Spec => []ListsRepresent
<1>1. IInv => ListsRepresent
  BY ListsRight
<1> QED
  BY <1>1, IndexesHold, PTL

\* The trees of the range index hold the live records under the numbers of the documents
\* they were filed as, each once, through all writing calls, reloads and rebuilds; what
\* an update or a deletion leaves in a tree is under a number that the document read back
\* has no more.
THEOREM TreesAreExact ==
  Spec => []TreesRepresent
<1>1. IInv => TreesRepresent
  BY TreesRight
<1> QED
  BY <1>1, IndexesHold, PTL

\* A filter finds through its index what a scan finds for it among the live records that
\* are filed where it looks, each once, and of the others only what is stray in a tree;
\* with a filter on the _id beside it, just what a scan finds (ExecuteFind).
THEOREM FindsAreExact ==
  Spec => []FindAnswersScan
<1>1. IInv => FindAnswersScan
  <2> SUFFICES ASSUME IInv, NEW f \in Filters, NEW found \in {Matched(ix, <<f>>)},
                      NEW scanned \in {Scanned(f)}
               PROVE  /\ Len(found) = Cardinality(ToSet(found))
                      /\ ToSet(found) \cap Live = scanned \cap Indexed(f)
                      /\ \A rec \in ToSet(found) \ Live :
                           /\ f.op \in RangeOps
                           /\ \E key \in NumberStrays(rec.doc) :
                                key[1] = f.field /\ Reached(f, key[2])
                      /\ \A g \in IdFilters : \A both \in {Matched(ix, <<f, g>>)} :
                           /\ Len(both) = Cardinality(ToSet(both))
                           /\ ToSet(both) = {rec \in scanned : rec.id = g.value}
    BY Zenon DEF FindAnswersScan
  <2>1. found = Matched(ix, <<f>>) /\ scanned = Scanned(f)
    OBVIOUS
  <2>2. OneFinds(f, found)
    BY <2>1, OneFound
  <2>3. ASSUME NEW g \in IdFilters, NEW both \in {Matched(ix, <<f, g>>)}
        PROVE  /\ Len(both) = Cardinality(ToSet(both))
               /\ ToSet(both) = {rec \in scanned : rec.id = g.value}
    <3>1. both = Matched(ix, <<f, g>>)
      OBVIOUS
    <3> QED
      BY <2>1, <3>1, BothScanned
  <2> QED
    BY <2>1, <2>2, <2>3 DEF OneFinds
<1> QED
  BY <1>1, IndexesHold, PTL

------------------------------------------------------------------------------
(* The heap *)

Items == [doc : Recs, value : Int]

\* The place of the parent of item i, and the order of a heap, but for item i and its
\* parent, or but for item i and its children.
Up(i) == i \div 2

Heaped(h) == \A j \in 2..Len(h) : h[Up(j)].value <= h[j].value

HeapedAbove(h, i) ==
  /\ \A j \in 2..Len(h) : j # i => h[Up(j)].value <= h[j].value
  /\ i >= 2 => \A j \in 2..Len(h) : Up(j) = i => h[Up(i)].value <= h[j].value

HeapedBelow(h, i) ==
  /\ \A j \in 2..Len(h) : Up(j) # i => h[Up(j)].value <= h[j].value
  /\ i >= 2 => \A j \in 2..Len(h) : Up(j) = i => h[Up(i)].value <= h[j].value

\* g has the items of h, each once, in some order.
Permutes(g, h) ==
  /\ g \in Seq(Items) /\ Len(g) = Len(h)
  /\ ToSet(g) = ToSet(h) /\ IsInjective(g)

LEMMA UpLess ==
  ASSUME NEW i \in Nat, i >= 2
  PROVE  Up(i) \in Nat /\ Up(i) >= 1 /\ Up(i) < i
BY DEF Up

LEMMA ParentIs ==
  ASSUME NEW h, NEW i \in 2..Len(h), Len(h) \in Nat
  PROVE  i \in 1..Len(h) /\ Up(i) \in 1..Len(h) /\ Up(i) < i
<1>1. i \in Nat /\ i >= 2 /\ i <= Len(h)
  OBVIOUS
<1>2. Up(i) \in Nat /\ Up(i) >= 1 /\ Up(i) < i
  BY <1>1, UpLess
<1> HIDE DEF Up
<1> QED
  BY <1>1, <1>2

LEMMA ItemsIn ==
  ASSUME NEW h \in Seq(Items), NEW k \in 1..Len(h)
  PROVE  h[k] \in Items /\ h[k].doc \in Recs /\ h[k].value \in Int
<1>1. h[k] \in Items
  OBVIOUS
<1> QED
  BY <1>1 DEF Items

LEMMA SwappedIs ==
  ASSUME NEW h \in Seq(Items), IsInjective(h), NEW i \in 1..Len(h), NEW j \in 1..Len(h)
  PROVE  LET g == Swapped(h, i, j)
         IN  /\ Permutes(g, h)
             /\ \A k \in 1..Len(h) : g[k] = IF k = i THEN h[j] ELSE IF k = j THEN h[i] ELSE h[k]
<1> DEFINE g == Swapped(h, i, j)
           N == Len(h)
<1>1. N \in Nat /\ DOMAIN h = 1..N /\ h \in [1..N -> Items]
  OBVIOUS
<1>2. /\ g \in [1..N -> Items]
      /\ \A k \in 1..N : g[k] = IF k = i THEN h[j] ELSE IF k = j THEN h[i] ELSE h[k]
  BY <1>1 DEF Swapped
<1> HIDE DEF g
<1>3. g \in Seq(Items) /\ Len(g) = N /\ DOMAIN g = 1..N
  BY <1>1, <1>2
<1>4. i \in 1..N /\ j \in 1..N
  OBVIOUS
<1> HIDE DEF N
<1>5. ToSet(g) = ToSet(h)
  <2>1. \A k \in 1..N : \E l \in 1..N : g[k] = h[l]
    BY <1>2, <1>4
  <2>2. \A k \in 1..N : \E l \in 1..N : h[k] = g[l]
    BY <1>2, <1>4
  <2>3. ASSUME NEW x
        PROVE  (x \in ToSet(g) <=> \E k \in 1..N : x = g[k]) /\ (x \in ToSet(h) <=> \E k \in 1..N : x = h[k])
    BY <1>1, <1>3 DEF ToSet
  <2> QED
    BY <2>1, <2>2, <2>3
<1>6. IsInjective(g)
  <2>1. \A k, l \in 1..N : h[k] = h[l] => k = l
    BY <1>1 DEF IsInjective
  <2> DEFINE Other(k) == IF k = i THEN j ELSE IF k = j THEN i ELSE k
  <2>2. \A k \in 1..N : Other(k) \in 1..N /\ Other(Other(k)) = k
    BY <1>4
  <2>3. \A k \in 1..N : g[k] = h[Other(k)]
    BY <1>2
  <2> HIDE DEF Other
  <2>4. \A k, l \in 1..N : g[k] = g[l] => k = l
    BY <2>1, <2>2, <2>3
  <2> QED
    BY <1>3, <2>4 DEF IsInjective
<1> QED
  BY <1>2, <1>3, <1>5, <1>6 DEF Permutes, N, g

\* A turn of siftUp: the item that is above its parent no more is the parent's.
LEMMA UpTurnKeeps ==
  ASSUME NEW h \in Seq(Items), IsInjective(h), NEW i \in 1..Len(h), HeapedAbove(h, i)
  PROVE  LET s == [heap |-> h, at |-> i]
             t == UpTurn(s)
         IN  \/ t = s /\ Heaped(h)
             \/ /\ i >= 2 /\ ~ Heaped(h) /\ t.at = Up(i) /\ t = [heap |-> t.heap, at |-> t.at]
                /\ Permutes(t.heap, h) /\ HeapedAbove(t.heap, t.at)
<1> DEFINE p == Up(i)
           s == [heap |-> h, at |-> i]
           g == Swapped(h, i, p)
<1>1. i \in Nat /\ Len(h) \in Nat /\ i <= Len(h) /\ i >= 1
  OBVIOUS
<1>2. UpTurn(s) = IF i = 1 \/ h[p].value <= h[i].value THEN s ELSE [heap |-> g, at |-> p]
  BY DEF UpTurn, Up
<1>3. CASE i = 1 \/ h[p].value <= h[i].value
  <2>1. Heaped(h)
    BY <1>3 DEF HeapedAbove, Heaped
  <2> QED
    BY <1>2, <1>3, <2>1
<1>4. CASE ~(i = 1 \/ h[p].value <= h[i].value)
  <2>1. i >= 2 /\ p \in 1..Len(h) /\ p < i
    <3>1. i \in 2..Len(h)
      BY <1>1, <1>4
    <3> QED
      BY <1>1, <3>1, ParentIs
  <2>2. /\ Permutes(g, h)
        /\ \A k \in 1..Len(h) : g[k] = IF k = i THEN h[p] ELSE IF k = p THEN h[i] ELSE h[k]
    BY <2>1, SwappedIs
  <2>3. \A k \in 1..Len(h) : h[k].value \in Int
    BY ItemsIn
  <2>4. Len(g) = Len(h)
    BY <2>2 DEF Permutes
  <2>5. \A j \in 2..Len(h) : j \in 1..Len(h) /\ Up(j) \in 1..Len(h) /\ Up(j) < j
    BY <1>1, ParentIs
  <2>6. h[i].value < h[p].value
    BY <1>1, <1>4, <2>1, <2>3
  <2>7. /\ \A j \in 2..Len(h) : j # i => h[Up(j)].value <= h[j].value
        /\ \A j \in 2..Len(h) : Up(j) = i => h[p].value <= h[j].value
    BY <2>1 DEF HeapedAbove
  <2> HIDE DEF g
  <2>8. ASSUME NEW j \in 2..Len(h), j # p
        PROVE  g[Up(j)].value <= g[j].value
    <3>1. CASE j = i
      BY <2>1, <2>2, <2>6, <3>1, <2>3
    <3>2. CASE j # i /\ Up(j) = i
      <4>1. g[Up(j)] = h[p] /\ g[j] = h[j]
        BY <2>2, <2>5, <2>8, <3>2
      <4> QED
        BY <2>7, <3>2, <4>1
    <3>3. CASE j # i /\ Up(j) = p
      <4>1. g[Up(j)] = h[i] /\ g[j] = h[j] /\ h[p].value <= h[j].value
        BY <2>1, <2>2, <2>5, <2>7, <2>8, <3>3
      <4> QED
        BY <2>1, <2>3, <2>5, <2>6, <4>1
    <3>4. CASE j # i /\ Up(j) # p /\ Up(j) # i
      <4>1. g[Up(j)] = h[Up(j)] /\ g[j] = h[j]
        BY <2>2, <2>5, <2>8, <3>4
      <4> QED
        BY <2>7, <3>4, <4>1
    <3> QED
      BY <3>1, <3>2, <3>3, <3>4
  <2>9. ASSUME p >= 2, NEW j \in 2..Len(h), Up(j) = p
        PROVE  g[Up(p)].value <= g[j].value
    <3>1. p \in 2..Len(h) /\ p # i /\ Up(p) \in 1..Len(h) /\ Up(p) < p /\ Up(p) # i
      BY <1>1, <2>1, <2>5, <2>9
    <3>2. g[Up(p)] = h[Up(p)] /\ h[Up(p)].value <= h[p].value
      BY <2>2, <2>7, <3>1
    <3>3. CASE j = i
      BY <2>2, <2>5, <3>2, <3>3
    <3>4. CASE j # i
      <4>1. g[j] = h[j] /\ h[p].value <= h[j].value
        BY <2>2, <2>5, <2>7, <2>9, <3>4
      <4> QED
        BY <2>1, <2>3, <2>5, <3>1, <3>2, <4>1
    <3> QED
      BY <3>3, <3>4
  <2>10. HeapedAbove(g, p)
    BY <2>4, <2>8, <2>9 DEF HeapedAbove
  <2>11. ~ Heaped(h)
    <3>1. i \in 2..Len(h)
      BY <1>1, <2>1
    <3> QED
      BY <1>4, <3>1 DEF Heaped
  <2> QED
    BY <1>2, <1>4, <2>1, <2>2, <2>10, <2>11
<1> QED
  BY <1>3, <1>4

\* siftUp ends with a heap of the same items: the index is halved until it is 1, or the
\* loop stops before.
LEMMA SiftUpHeaps ==
  ASSUME NEW h \in Seq(Items), IsInjective(h), NEW i \in 1..Len(h), HeapedAbove(h, i)
  PROVE  Permutes(SiftUp(h, i), h) /\ Heaped(SiftUp(h, i))
<1> DEFINE X == {s \in [heap : Seq(Items), at : 1..Len(h)] :
                   Permutes(s.heap, h) /\ HeapedAbove(s.heap, s.at)}
           base == [heap |-> h, at |-> i]
           step == [q \in (1..i) \X X |-> UpTurn(q[2])]
           turn[n \in 0..i] == IF n = 0 THEN base ELSE UpTurn(turn[n - 1])
<1>1. i \in Nat /\ i >= 1
  OBVIOUS
<1>2. SiftUp(h, i) = turn[i].heap
  BY DEF SiftUp
<1>3. base \in X
  BY DEF Permutes
<1>4. ASSUME NEW s \in X
      PROVE  /\ UpTurn(s) \in X
             /\ \/ UpTurn(s) = s /\ Heaped(s.heap)
                \/ s.at >= 2 /\ ~ Heaped(s.heap) /\ UpTurn(s).at = Up(s.at)
  <2> DEFINE g == s.heap
             t == UpTurn(s)
  <2>1. /\ s \in [heap : Seq(Items), at : 1..Len(h)] /\ HeapedAbove(g, s.at)
        /\ Len(g) = Len(h) /\ ToSet(g) = ToSet(h) /\ IsInjective(g)
    BY DEF Permutes
  <2>2. g \in Seq(Items) /\ s.at \in 1..Len(g) /\ s = [heap |-> g, at |-> s.at]
    BY <2>1
  <2>3. \/ t = s /\ Heaped(g)
        \/ /\ s.at >= 2 /\ ~ Heaped(g) /\ t.at = Up(s.at) /\ t = [heap |-> t.heap, at |-> t.at]
           /\ Permutes(t.heap, g) /\ HeapedAbove(t.heap, t.at)
    <3> DEFINE i1 == s.at
    <3> HIDE DEF g, i1
    <3>1. UpTurn(s) = UpTurn([heap |-> g, at |-> i1])
      BY <2>2 DEF i1
    <3>2. g \in Seq(Items) /\ i1 \in 1..Len(g) /\ IsInjective(g) /\ HeapedAbove(g, i1)
      BY <2>1, <2>2 DEF i1
    <3> QED
      BY <2>2, <3>1, <3>2, UpTurnKeeps DEF i1
  <2>4. CASE t = s /\ Heaped(g)
    BY <2>4
  <2>5. CASE /\ s.at >= 2 /\ ~ Heaped(g) /\ t.at = Up(s.at) /\ t = [heap |-> t.heap, at |-> t.at]
             /\ Permutes(t.heap, g) /\ HeapedAbove(t.heap, t.at)
    <3>1. t.at \in 1..Len(h)
      <4>1. s.at \in 2..Len(g) /\ Len(g) \in Nat
        BY <2>1, <2>2, <2>5
      <4> QED
        BY <2>1, <2>5, <4>1, ParentIs
    <3> HIDE DEF t, g
    <3>2. Permutes(t.heap, h) /\ t.heap \in Seq(Items)
      BY <2>1, <2>5 DEF Permutes
    <3>3. t \in [heap : Seq(Items), at : 1..Len(h)]
      BY <2>5, <3>1, <3>2
    <3>4. t \in X
      BY <2>5, <3>2, <3>3
    <3> QED
      BY <2>5, <3>4 DEF t, g
  <2> QED
    BY <2>3, <2>4, <2>5
<1> HIDE DEF X, base
<1>5. step \in [(1..i) \X X -> X]
  BY <1>4
<1>6. \A n \in 1..i, s \in X : step[<<n, s>>] = UpTurn(s)
  OBVIOUS
<1> HIDE DEF step
<1>7. PICK f : IsRun(f, i, X, base, step)
  BY <1>1, <1>3, <1>5, LoopRuns
<1>8. ASSUME NEW n \in 0..i
      PROVE  (IF n = 0 THEN base ELSE step[<<n, f[n - 1]>>])
             = IF n = 0 THEN base ELSE UpTurn(f[n - 1])
  <2>1. n = 0 \/ (n \in 1..i /\ n - 1 \in 0..i)
    BY <1>1
  <2>2. \A k \in 0..i : f[k] \in X
    BY <1>7 DEF IsRun
  <2>3. n \in 1..i => step[<<n, f[n - 1]>>] = UpTurn(f[n - 1])
    BY <1>6, <2>1, <2>2
  <2> QED
    BY <2>1, <2>3
<1>9. f = [n \in 0..i |-> IF n = 0 THEN base ELSE UpTurn(f[n - 1])]
  BY <1>7, <1>8, Zenon DEF IsRun
<1>10. turn = [n \in 0..i |-> IF n = 0 THEN base ELSE UpTurn(turn[n - 1])]
  BY <1>9, Zenon
<1> HIDE DEF turn
<1> DEFINE Good == [n \in 0..i |-> {s \in X : Heaped(s.heap) \/ s.at <= i - n}]
<1>11. turn[0] \in Good[0]
  BY <1>1, <1>3, <1>10 DEF base
<1>12. ASSUME NEW n \in 1..i, turn[n - 1] \in Good[n - 1]
       PROVE  turn[n] \in Good[n]
  <2> DEFINE s == turn[n - 1]
  <2>1. n - 1 \in 0..i /\ n \in 0..i /\ n # 0
    BY <1>1
  <2>2. turn[n] = UpTurn(s)
    BY <1>10, <2>1
  <2>3. s \in X /\ (Heaped(s.heap) \/ s.at <= i - (n - 1))
    BY <1>12, <2>1
  <2> HIDE DEF s
  <2>4. UpTurn(s) \in X
    BY <1>4, <2>3
  <2>5. Heaped(UpTurn(s).heap) \/ UpTurn(s).at <= i - n
    <3>1. CASE UpTurn(s) = s /\ Heaped(s.heap)
      BY <3>1
    <3>2. CASE s.at >= 2 /\ ~ Heaped(s.heap) /\ UpTurn(s).at = Up(s.at)
      <4> DEFINE k == s.at
      <4>1. k \in Nat /\ k >= 2 /\ k <= i - (n - 1) /\ UpTurn(s).at = Up(k)
        BY <2>3, <3>2 DEF X
      <4> HIDE DEF k
      <4>2. Up(k) \in Nat /\ Up(k) < k
        BY <4>1, UpLess
      <4>3. \A m \in Int : m = Up(k) => m <= i - n
        BY <1>1, <4>1, <4>2
      <4> QED
        BY <4>1, <4>2, <4>3
    <3> QED
      BY <1>4, <2>3, <3>1, <3>2
  <2> QED
    BY <2>1, <2>2, <2>4, <2>5
<1>13. turn[i] \in Good[i]
  <2> HIDE DEF Good
  <2>1. \A n \in 0..i : turn[n] \in Good[n]
    BY <1>1, <1>11, <1>12, LoopInvariant
  <2> QED
    BY <1>1, <2>1
<1>14. /\ turn[i] \in X
       /\ Heaped(turn[i].heap) \/ turn[i].at <= 0
  BY <1>1, <1>13
<1> QED
  BY <1>2, <1>14 DEF X

LEMMA ChildrenAre ==
  ASSUME NEW i \in Nat, i >= 1, NEW j \in Nat
  PROVE  /\ Up(j) = i <=> j = 2 * i \/ j = 2 * i + 1
         /\ j = 2 * i \/ j = 2 * i + 1 => j > i /\ j >= 2
BY DEF Up

\* The item that takes the place of item i: no more than any of the three.
LEMMA SmallestIs ==
  ASSUME NEW h \in Seq(Items), NEW i \in 1..Len(h)
  PROVE  LET m == Smallest(h, i)
         IN  /\ m \in 1..Len(h)
             /\ \A j \in 2..Len(h) : Up(j) = i => h[m].value <= h[j].value
             /\ m # i => Up(m) = i /\ m > i /\ m >= 2 /\ h[m].value < h[i].value
<1> DEFINE N == Len(h)
           m == Smallest(h, i)
           l == 2 * i
           r == 2 * i + 1
           v(k) == h[k].value
           a == IF l <= N /\ v(l) < v(i) THEN l ELSE i
<1>1. i \in Nat /\ N \in Nat /\ i >= 1 /\ i <= N
  OBVIOUS
<1>2. m = IF r <= N /\ v(r) < v(a) THEN r ELSE a
  BY DEF Smallest
<1>3. \A k \in 1..N : v(k) \in Int
  BY ItemsIn
<1>4. \A j \in Nat : /\ Up(j) = i <=> j = l \/ j = r
                     /\ j = l \/ j = r => j > i /\ j >= 2
  BY <1>1, ChildrenAre
<1>5. l \in Nat /\ r \in Nat /\ l > i /\ r > i
  BY <1>1
<1>6. /\ l <= N => l \in 1..N
      /\ r <= N => r \in 1..N
      /\ i \in 1..N
  BY <1>1, <1>5
<1> HIDE DEF N, m, l, r, v, Up
<1>7. a \in 1..N /\ v(a) <= v(i) /\ (l <= N => v(a) <= v(l)) /\ (a = i \/ (a = l /\ v(l) < v(i)))
  BY <1>1, <1>3, <1>5, <1>6
<1> HIDE DEF a
<1>8. /\ m \in 1..N /\ v(m) <= v(a) /\ (r <= N => v(m) <= v(r))
      /\ m = a \/ (m = r /\ v(r) < v(a))
  BY <1>1, <1>2, <1>3, <1>5, <1>6, <1>7
<1>9. ASSUME NEW j \in 2..N, Up(j) = i
      PROVE  v(m) <= v(j)
  <2>1. (j = l \/ j = r) /\ j <= N
    BY <1>1, <1>4, <1>9
  <2> QED
    BY <1>1, <1>3, <1>6, <1>7, <1>8, <2>1
<1>10. ASSUME m # i
       PROVE  Up(m) = i /\ m > i /\ m >= 2 /\ v(m) < v(i)
  <2>1. m \in Nat /\ (m = l \/ m = r)
    BY <1>1, <1>7, <1>8, <1>10
  <2>2. v(m) < v(i)
    BY <1>3, <1>6, <1>7, <1>8, <1>10
  <2> QED
    BY <1>4, <2>1, <2>2
<1> QED
  BY <1>8, <1>9, <1>10 DEF N, m, v

\* A turn of siftDown: the item that is below no child of it any more is the child's.
LEMMA DownTurnKeeps ==
  ASSUME NEW h \in Seq(Items), IsInjective(h), NEW i \in 1..Len(h), HeapedBelow(h, i)
  PROVE  LET s == [heap |-> h, at |-> i]
             t == DownTurn(s)
         IN  \/ t = s /\ Heaped(h)
             \/ /\ t.at \in 1..Len(h) /\ t.at > i /\ ~ Heaped(h)
                /\ t = [heap |-> t.heap, at |-> t.at]
                /\ Permutes(t.heap, h) /\ HeapedBelow(t.heap, t.at)
<1> DEFINE m == Smallest(h, i)
           s == [heap |-> h, at |-> i]
           g == Swapped(h, i, m)
<1>1. i \in Nat /\ Len(h) \in Nat /\ i <= Len(h) /\ i >= 1
  OBVIOUS
<1>2. DownTurn(s) = IF m = i THEN s ELSE [heap |-> g, at |-> m]
  BY DEF DownTurn
<1>3. /\ m \in 1..Len(h)
      /\ \A j \in 2..Len(h) : Up(j) = i => h[m].value <= h[j].value
      /\ m # i => Up(m) = i /\ m > i /\ m >= 2 /\ h[m].value < h[i].value
  BY SmallestIs
<1> HIDE DEF m
<1>4. CASE m = i
  <2>1. Heaped(h)
    BY <1>3, <1>4 DEF HeapedBelow, Heaped
  <2> QED
    BY <1>2, <1>4, <2>1
<1>5. CASE m # i
  <2>1. /\ Permutes(g, h)
        /\ \A k \in 1..Len(h) : g[k] = IF k = i THEN h[m] ELSE IF k = m THEN h[i] ELSE h[k]
    BY <1>3, SwappedIs
  <2>2. \A k \in 1..Len(h) : h[k].value \in Int
    BY ItemsIn
  <2>3. Len(g) = Len(h)
    BY <2>1 DEF Permutes
  <2>4. \A j \in 2..Len(h) : j \in 1..Len(h) /\ Up(j) \in 1..Len(h) /\ Up(j) < j
    BY <1>1, ParentIs
  <2>5. /\ \A j \in 2..Len(h) : Up(j) # i => h[Up(j)].value <= h[j].value
        /\ i >= 2 => \A j \in 2..Len(h) : Up(j) = i => h[Up(i)].value <= h[j].value
    BY DEF HeapedBelow
  <2>6. Up(m) = i /\ m > i /\ m \in 2..Len(h) /\ h[m].value < h[i].value
    BY <1>1, <1>3, <1>5
  <2> HIDE DEF g
  <2>7. ASSUME NEW j \in 2..Len(h), Up(j) # m
        PROVE  g[Up(j)].value <= g[j].value
    <3>1. CASE j = m
      <4>1. g[Up(j)] = h[m] /\ g[j] = h[i]
        BY <1>3, <2>1, <2>6, <3>1
      <4> QED
        BY <1>3, <2>2, <2>6, <4>1
    <3>2. CASE j # m /\ Up(j) = i
      <4>1. j # i
        BY <2>4, <3>2, <1>1
      <4>2. g[Up(j)] = h[m] /\ g[j] = h[j]
        BY <2>1, <2>4, <3>2, <4>1
      <4> QED
        BY <1>3, <3>2, <4>2
    <3>3. CASE j = i
      <4>1. i >= 2 /\ Up(i) \in 1..Len(h) /\ Up(i) < i /\ j # m
        BY <2>4, <2>6, <3>3
      <4>2. g[Up(j)] = h[Up(i)] /\ g[j] = h[m]
        BY <1>1, <2>1, <2>7, <3>3, <4>1
      <4> QED
        BY <2>5, <2>6, <4>1, <4>2
    <3>4. CASE j # m /\ j # i /\ Up(j) # i
      <4>1. g[Up(j)] = h[Up(j)] /\ g[j] = h[j]
        BY <2>1, <2>4, <2>7, <3>4
      <4> QED
        BY <2>5, <3>4, <4>1
    <3> QED
      BY <3>1, <3>2, <3>3, <3>4
  <2>8. ASSUME NEW j \in 2..Len(h), Up(j) = m
        PROVE  g[Up(m)].value <= g[j].value
    <3>1. j \in 1..Len(h) /\ j # i /\ j # m
      BY <1>1, <1>3, <2>4, <2>6, <2>8
    <3>2. g[Up(m)] = h[m] /\ g[j] = h[j]
      BY <2>1, <2>6, <3>1
    <3> QED
      BY <1>5, <2>5, <2>8, <3>2
  <2>9. HeapedBelow(g, m)
    BY <2>3, <2>7, <2>8 DEF HeapedBelow
  <2>10. ~ Heaped(h)
    <3>1. h[Up(m)].value = h[i].value /\ h[i].value \in Int /\ h[m].value \in Int
      BY <1>3, <2>2, <2>6
    <3> QED
      BY <2>6, <3>1 DEF Heaped
  <2> QED
    BY <1>2, <1>3, <1>5, <2>1, <2>6, <2>9, <2>10
<1> QED
  BY <1>4, <1>5

\* siftDown ends with a heap of the same items: the index goes down the heap until it
\* has no child, or the loop stops before.
LEMMA SiftDownHeaps ==
  ASSUME NEW h \in Seq(Items), IsInjective(h), NEW i \in 1..Len(h), HeapedBelow(h, i)
  PROVE  Permutes(SiftDown(h, i), h) /\ Heaped(SiftDown(h, i))
<1> DEFINE N == Len(h)
           X == {s \in [heap : Seq(Items), at : 1..N] :
                   Permutes(s.heap, h) /\ HeapedBelow(s.heap, s.at)}
           base == [heap |-> h, at |-> i]
           step == [q \in (1..N) \X X |-> DownTurn(q[2])]
           turn[n \in 0..N] == IF n = 0 THEN base ELSE DownTurn(turn[n - 1])
<1>1. N \in Nat /\ i \in Nat /\ i >= 1
  OBVIOUS
<1>2. SiftDown(h, i) = turn[N].heap
  BY DEF SiftDown
<1>3. base \in X
  BY DEF Permutes
<1>4. ASSUME NEW s \in X
      PROVE  /\ DownTurn(s) \in X
             /\ \/ DownTurn(s) = s /\ Heaped(s.heap)
                \/ ~ Heaped(s.heap) /\ DownTurn(s).at > s.at
  <2> DEFINE g == s.heap
             t == DownTurn(s)
  <2>1. /\ s \in [heap : Seq(Items), at : 1..N] /\ HeapedBelow(g, s.at)
        /\ Len(g) = N /\ ToSet(g) = ToSet(h) /\ IsInjective(g)
    BY DEF Permutes
  <2>2. g \in Seq(Items) /\ s.at \in 1..Len(g) /\ s = [heap |-> g, at |-> s.at]
    BY <2>1
  <2>3. \/ t = s /\ Heaped(g)
        \/ /\ t.at \in 1..Len(g) /\ t.at > s.at /\ ~ Heaped(g)
           /\ t = [heap |-> t.heap, at |-> t.at]
           /\ Permutes(t.heap, g) /\ HeapedBelow(t.heap, t.at)
    <3> DEFINE i1 == s.at
    <3> HIDE DEF g, i1
    <3>1. DownTurn(s) = DownTurn([heap |-> g, at |-> i1])
      BY <2>2 DEF i1
    <3>2. g \in Seq(Items) /\ i1 \in 1..Len(g) /\ IsInjective(g) /\ HeapedBelow(g, i1)
      BY <2>1, <2>2 DEF i1
    <3> QED
      BY <2>2, <3>1, <3>2, DownTurnKeeps DEF i1
  <2>4. CASE t = s /\ Heaped(g)
    BY <2>4
  <2>5. CASE /\ t.at \in 1..Len(g) /\ t.at > s.at /\ ~ Heaped(g)
             /\ t = [heap |-> t.heap, at |-> t.at]
             /\ Permutes(t.heap, g) /\ HeapedBelow(t.heap, t.at)
    <3>1. t.at \in 1..N
      BY <2>1, <2>5
    <3> HIDE DEF t, g, N
    <3>2. Permutes(t.heap, h) /\ t.heap \in Seq(Items)
      BY <2>1, <2>5 DEF Permutes, N
    <3>3. t \in [heap : Seq(Items), at : 1..N]
      BY <2>5, <3>1, <3>2
    <3>4. t \in X
      BY <2>5, <3>2, <3>3
    <3> QED
      BY <2>5, <3>4 DEF t, g
  <2> QED
    BY <2>3, <2>4, <2>5
<1> HIDE DEF X, base, N
<1>5. step \in [(1..N) \X X -> X]
  BY <1>4
<1>6. \A n \in 1..N, s \in X : step[<<n, s>>] = DownTurn(s)
  OBVIOUS
<1> HIDE DEF step
<1>7. PICK f : IsRun(f, N, X, base, step)
  BY <1>1, <1>3, <1>5, LoopRuns
<1>8. ASSUME NEW n \in 0..N
      PROVE  (IF n = 0 THEN base ELSE step[<<n, f[n - 1]>>])
             = IF n = 0 THEN base ELSE DownTurn(f[n - 1])
  <2>1. n = 0 \/ (n \in 1..N /\ n - 1 \in 0..N)
    BY <1>1
  <2>2. \A k \in 0..N : f[k] \in X
    BY <1>7 DEF IsRun
  <2>3. n \in 1..N => step[<<n, f[n - 1]>>] = DownTurn(f[n - 1])
    BY <1>6, <2>1, <2>2
  <2> QED
    BY <2>1, <2>3
<1>9. f = [n \in 0..N |-> IF n = 0 THEN base ELSE DownTurn(f[n - 1])]
  BY <1>7, <1>8, Zenon DEF IsRun
<1>10. turn = [n \in 0..N |-> IF n = 0 THEN base ELSE DownTurn(turn[n - 1])]
  BY <1>9, Zenon
<1> HIDE DEF turn
<1> DEFINE Good == [n \in 0..N |-> {s \in X : Heaped(s.heap) \/ s.at > n}]
<1>11. turn[0] \in Good[0]
  BY <1>1, <1>3, <1>10 DEF base
<1>12. ASSUME NEW n \in 1..N, turn[n - 1] \in Good[n - 1]
       PROVE  turn[n] \in Good[n]
  <2> DEFINE s == turn[n - 1]
  <2>1. n - 1 \in 0..N /\ n \in 0..N /\ n # 0
    BY <1>1
  <2>2. turn[n] = DownTurn(s)
    BY <1>10, <2>1
  <2>3. s \in X /\ (Heaped(s.heap) \/ s.at > n - 1)
    BY <1>12, <2>1
  <2> HIDE DEF s
  <2>4. DownTurn(s) \in X
    BY <1>4, <2>3
  <2>5. Heaped(DownTurn(s).heap) \/ DownTurn(s).at > n
    <3>1. CASE DownTurn(s) = s /\ Heaped(s.heap)
      BY <3>1
    <3>2. CASE ~ Heaped(s.heap) /\ DownTurn(s).at > s.at
      <4> DEFINE a == s.at
                 b == DownTurn(s).at
      <4>1. a \in Nat /\ b \in Nat /\ a > n - 1 /\ b > a
        BY <1>1, <2>3, <2>4, <3>2 DEF X
      <4> HIDE DEF a, b
      <4>2. b > n
        BY <1>1, <4>1
      <4> QED
        BY <4>2 DEF b
    <3> QED
      BY <1>4, <2>3, <3>1, <3>2
  <2> QED
    BY <2>1, <2>2, <2>4, <2>5
<1>13. turn[N] \in Good[N]
  <2> HIDE DEF Good
  <2>1. \A n \in 0..N : turn[n] \in Good[n]
    BY <1>1, <1>11, <1>12, LoopInvariant
  <2> QED
    BY <1>1, <2>1
<1>14. /\ turn[N] \in X
       /\ Heaped(turn[N].heap) \/ turn[N].at > N
  BY <1>1, <1>13
<1>15. turn[N].at \in 1..N
  BY <1>14 DEF X
<1> QED
  BY <1>1, <1>2, <1>14, <1>15 DEF X

\* The first item of a heap has the least value.
LEMMA RootIsLeast ==
  ASSUME NEW h \in Seq(Items), Heaped(h), NEW i \in 1..Len(h)
  PROVE  h[1].value <= h[i].value
<1> DEFINE T == {k \in 1..Len(h) : h[k].value < h[1].value}
<1>1. \A k \in 1..Len(h) : h[k].value \in Int
  BY ItemsIn
<1>2. ASSUME T # {} PROVE FALSE
  <2>1. T \in SUBSET Nat
    OBVIOUS
  <2>2. PICK k \in T : \A l \in T : k <= l
    BY <1>2, <2>1, LeastElement
  <2>3. k \in 2..Len(h)
    BY <1>1, <2>2
  <2>4. k \in 1..Len(h) /\ Up(k) \in 1..Len(h) /\ Up(k) < k
    BY <2>3, ParentIs
  <2>5. h[Up(k)].value <= h[k].value /\ h[k].value < h[1].value
    BY <2>2, <2>3 DEF Heaped
  <2> HIDE DEF Up
  <2>6. 1 \in 1..Len(h)
    BY <2>4
  <2>7. h[Up(k)].value < h[1].value
    BY <1>1, <2>4, <2>5, <2>6
  <2>8. Up(k) \in T
    BY <2>4, <2>7
  <2>9. k <= Up(k)
    BY <2>2, <2>8
  <2> QED
    BY <2>4, <2>9
<1> QED
  BY <1>1, <1>2

\* heapPush: the new item goes behind the others and rises.
LEMMA HeapPushIs ==
  ASSUME NEW h \in Seq(Items), IsInjective(h), Heaped(h),
         NEW item \in Items, item \notin ToSet(h)
  PROVE  LET g == HeapPush(h, item)
         IN  /\ g \in Seq(Items) /\ IsInjective(g) /\ Heaped(g)
             /\ Len(g) = Len(h) + 1 /\ ToSet(g) = ToSet(h) \cup {item}
<1> DEFINE a == Append(h, item)
           N == Len(h)
<1>1. N \in Nat /\ N + 1 \in Nat
  OBVIOUS
<1>2. a \in Seq(Items) /\ ToSet(a) = ToSet(h) \cup {item} /\ IsInjective(a)
  BY AppendElements
<1>3. Len(a) = N + 1 /\ \A k \in 1..N : a[k] = h[k]
  OBVIOUS
<1> HIDE DEF a
<1>4. \A j \in 2..Len(a) : j \in 1..Len(a) /\ Up(j) \in 1..Len(a) /\ Up(j) < j
  BY <1>1, <1>3, ParentIs
<1>5. \A j \in 2..N : h[Up(j)].value <= h[j].value
  BY DEF Heaped
<1> HIDE DEF Up, N
<1>6. ASSUME NEW j \in 2..Len(a), j # N + 1
      PROVE  a[Up(j)].value <= a[j].value
  <2>1. j \in 2..N /\ j \in 1..N /\ Up(j) \in 1..N
    BY <1>1, <1>3, <1>4, <1>6
  <2> QED
    BY <1>3, <1>5, <2>1
<1>7. ASSUME N + 1 >= 2, NEW j \in 2..Len(a), Up(j) = N + 1
      PROVE  FALSE
  BY <1>1, <1>3, <1>4, <1>7
<1>8. HeapedAbove(a, N + 1)
  BY <1>6, <1>7 DEF HeapedAbove
<1>9. N + 1 \in 1..Len(a)
  BY <1>1, <1>3
<1>10. Permutes(SiftUp(a, N + 1), a) /\ Heaped(SiftUp(a, N + 1))
  BY <1>2, <1>8, <1>9, SiftUpHeaps
<1>11. HeapPush(h, item) = SiftUp(a, N + 1)
  BY DEF HeapPush, a, N
<1> QED
  BY <1>2, <1>3, <1>10, <1>11 DEF Permutes, N

\* heapPop: the last item takes the place of the first and sinks.
LEMMA HeapPopIs ==
  ASSUME NEW h \in Seq(Items), IsInjective(h), Heaped(h), Len(h) >= 1
  PROVE  LET g == HeapPop(h)
         IN  /\ g \in Seq(Items) /\ IsInjective(g) /\ Heaped(g)
             /\ Len(g) = Len(h) - 1 /\ ToSet(g) = ToSet(h) \ {h[1]}
<1> DEFINE N == Len(h)
           b == Front([h EXCEPT ![1] = Last(h)])
<1>1. N \in Nat /\ N >= 1 /\ DOMAIN h = 1..N /\ h \in [1..N -> Items] /\ h[1] \in Items
  OBVIOUS
<1>2. \A k, l \in 1..N : h[k] = h[l] => k = l
  BY <1>1 DEF IsInjective
<1>3. \A x : x \in ToSet(h) <=> \E k \in 1..N : x = h[k]
  BY <1>1 DEF ToSet
<1>4. CASE N = 1
  <2>1. HeapPop(h) = <<>>
    BY <1>4 DEF HeapPop
  <2>2. ToSet(h) = {h[1]}
    BY <1>3, <1>4
  <2>3. Heaped(<<>>) /\ IsInjective(<<>>) /\ ToSet(<<>>) = {}
    BY DEF Heaped, IsInjective, ToSet
  <2> QED
    BY <1>4, <2>1, <2>2, <2>3
<1>5. CASE N >= 2
  <2>1. HeapPop(h) = SiftDown(b, 1)
    BY <1>5 DEF HeapPop
  <2>2. b \in Seq(Items) /\ Len(b) = N - 1
        /\ \A k \in 1..(N - 1) : b[k] = IF k = 1 THEN h[N] ELSE h[k]
    <3> DEFINE c == [h EXCEPT ![1] = h[N]]
    <3>1. c \in [1..N -> Items] /\ \A k \in 1..N : c[k] = IF k = 1 THEN h[N] ELSE h[k]
      BY <1>1
    <3>2. c \in Seq(Items) /\ Len(c) = N
      BY <1>1, <3>1
    <3>3. b = SubSeq(c, 1, Len(c) - 1)
      BY DEF Front, Last
    <3> HIDE DEF c, b
    <3> QED
      BY <1>1, <1>5, <3>1, <3>2, <3>3
  <2>3. DOMAIN b = 1..(N - 1)
    BY <2>2
  <2>4. \A j \in 2..N : j \in 1..N /\ Up(j) \in 1..N /\ Up(j) < j
    BY <1>1, ParentIs
  <2>5. \A j \in 2..N : h[Up(j)].value <= h[j].value
    BY DEF Heaped
  <2> HIDE DEF b, N, Up
  <2>6. IsInjective(b)
    <3> DEFINE From(k) == IF k = 1 THEN N ELSE k
    <3>1. \A k \in 1..(N - 1) : From(k) \in 1..N /\ b[k] = h[From(k)]
      BY <1>1, <1>5, <2>2
    <3>2. \A k, l \in 1..(N - 1) : From(k) = From(l) => k = l
      BY <1>1, <1>5
    <3> HIDE DEF From
    <3>3. \A k, l \in 1..(N - 1) : b[k] = b[l] => k = l
      BY <1>2, <3>1, <3>2
    <3> QED
      BY <2>3, <3>3 DEF IsInjective
  <2>7. ToSet(b) = ToSet(h) \ {h[1]}
    <3>1. \A x : x \in ToSet(b) <=> \E k \in 1..(N - 1) : x = b[k]
      BY <2>3 DEF ToSet
    <3>2. \A k \in 1..(N - 1) : \E l \in 1..N : l # 1 /\ b[k] = h[l]
      BY <1>1, <1>5, <2>2
    <3>3. \A l \in 1..N : l # 1 => \E k \in 1..(N - 1) : h[l] = b[k]
      <4>1. TAKE l \in 1..N
      <4>2. HAVE l # 1
      <4>3. CASE l = N
        <5>1. 1 \in 1..(N - 1) /\ b[1] = h[l]
          BY <1>1, <1>5, <2>2, <4>3
        <5> QED
          BY <5>1
      <4>4. CASE l # N
        <5>1. l \in 1..(N - 1) /\ b[l] = h[l]
          BY <1>1, <2>2, <4>2, <4>4
        <5> QED
          BY <5>1
      <4> QED
        BY <4>3, <4>4
    <3>4. 1 \in 1..N
      BY <1>1
    <3>5. \A x : x \in ToSet(b) <=> x \in ToSet(h) /\ x # h[1]
      BY <1>2, <1>3, <3>1, <3>2, <3>3, <3>4
    <3> QED
      BY <3>5
  <2>8. HeapedBelow(b, 1)
    <3>1. ASSUME NEW j \in 2..Len(b), Up(j) # 1
          PROVE  b[Up(j)].value <= b[j].value
      <4>1. /\ j \in 2..N /\ j \in 1..(N - 1) /\ j # 1
            /\ Up(j) \in 1..(N - 1)
        BY <1>1, <2>2, <2>4
      <4>2. b[j] = h[j] /\ b[Up(j)] = h[Up(j)]
        BY <2>2, <3>1, <4>1
      <4> QED
        BY <2>5, <4>1, <4>2
    <3> QED
      BY <3>1 DEF HeapedBelow
  <2>9. 1 \in 1..Len(b)
    BY <1>1, <1>5, <2>2
  <2>10. Permutes(SiftDown(b, 1), b) /\ Heaped(SiftDown(b, 1))
    BY <2>2, <2>6, <2>8, <2>9, SiftDownHeaps
  <2> QED
    BY <2>1, <2>2, <2>7, <2>10 DEF Permutes, N
<1>6. N = 1 \/ N >= 2
  BY <1>1
<1> QED
  BY <1>4, <1>5, <1>6

\* What is out of a heap of the items of h that is being drained, and what is left.
Ascending(d) == \A i, j \in DOMAIN d : i < j => d[i].value <= d[j].value

IsDrained(s, h) ==
  /\ s.out \in Seq(Items) /\ IsInjective(s.out) /\ Ascending(s.out)
  /\ s.heap \in Seq(Items) /\ IsInjective(s.heap) /\ Heaped(s.heap)
  /\ ToSet(s.out) \cap ToSet(s.heap) = {}
  /\ ToSet(s.out) \cup ToSet(s.heap) = ToSet(h)
  /\ \A x \in ToSet(s.out), y \in ToSet(s.heap) : x.value <= y.value

Popped(s) == [out |-> Append(s.out, s.heap[1]), heap |-> HeapPop(s.heap)]

LEMMA PoppedIs ==
  ASSUME NEW h, NEW s, IsDrained(s, h), Len(s.heap) >= 1
  PROVE  LET t == Popped(s)
         IN  /\ IsDrained(t, h)
             /\ Len(t.out) = Len(s.out) + 1 /\ Len(t.heap) = Len(s.heap) - 1
<1> DEFINE o == s.out
           g == s.heap
           x1 == g[1]
           t == Popped(s)
<1>1. /\ o \in Seq(Items) /\ IsInjective(o) /\ Ascending(o)
      /\ g \in Seq(Items) /\ IsInjective(g) /\ Heaped(g) /\ Len(g) >= 1
      /\ ToSet(o) \cap ToSet(g) = {} /\ ToSet(o) \cup ToSet(g) = ToSet(h)
      /\ \A x \in ToSet(o), y \in ToSet(g) : x.value <= y.value
  BY DEF IsDrained
<1>2. t.out = Append(o, x1) /\ t.heap = HeapPop(g)
  BY DEF Popped
<1> HIDE DEF o, g, t
<1>3. 1 \in 1..Len(g) /\ x1 \in Items /\ x1.value \in Int /\ DOMAIN g = 1..Len(g)
  BY <1>1, ItemsIn
<1>4. x1 \in ToSet(g) /\ \A y \in ToSet(g) : y \in Items /\ y.value \in Int /\ x1.value <= y.value
  <2>1. \A y : y \in ToSet(g) <=> \E k \in 1..Len(g) : y = g[k]
    BY <1>3 DEF ToSet
  <2> QED
    BY <1>1, <1>3, <2>1, ItemsIn, RootIsLeast
<1>5. /\ HeapPop(g) \in Seq(Items) /\ IsInjective(HeapPop(g)) /\ Heaped(HeapPop(g))
      /\ Len(HeapPop(g)) = Len(g) - 1 /\ ToSet(HeapPop(g)) = ToSet(g) \ {x1}
  BY <1>1, HeapPopIs
<1>6. /\ Append(o, x1) \in Seq(Items) /\ ToSet(Append(o, x1)) = ToSet(o) \cup {x1}
      /\ IsInjective(Append(o, x1))
  <2>1. x1 \notin ToSet(o)
    BY <1>1, <1>4
  <2> HIDE DEF x1
  <2> QED
    BY <1>1, <1>3, <2>1, AppendElements
<1>7. Len(Append(o, x1)) = Len(o) + 1 /\ DOMAIN Append(o, x1) = 1..(Len(o) + 1)
      /\ Append(o, x1)[Len(o) + 1] = x1 /\ \A i \in 1..Len(o) : Append(o, x1)[i] = o[i]
      /\ Len(o) \in Nat /\ DOMAIN o = 1..Len(o)
  BY <1>1
<1>8. Ascending(Append(o, x1))
  <2> DEFINE N == Len(o)
             a == Append(o, x1)
  <2>1. N \in Nat /\ DOMAIN a = 1..(N + 1) /\ DOMAIN o = 1..N
        /\ a[N + 1] = x1 /\ \A i \in 1..N : a[i] = o[i]
    BY <1>7
  <2>2. \A i \in 1..N : o[i] \in ToSet(o)
    BY <2>1 DEF ToSet
  <2>3. \A i \in 1..N : o[i].value <= x1.value
    BY <1>1, <1>4, <2>2
  <2>4. \A i, j \in 1..N : i < j => o[i].value <= o[j].value
    BY <1>1, <2>1 DEF Ascending
  <2> HIDE DEF N, a, x1
  <2>5. ASSUME NEW i \in 1..(N + 1), NEW j \in 1..(N + 1), i < j
        PROVE  a[i].value <= a[j].value
    <3>1. i \in 1..N /\ (j \in 1..N \/ j = N + 1)
      BY <2>1, <2>5
    <3> QED
      BY <2>1, <2>3, <2>4, <2>5, <3>1
  <2> QED
    BY <2>1, <2>5 DEF Ascending, a
<1> HIDE DEF x1
<1>9. ToSet(t.out) \cap ToSet(t.heap) = {} /\ ToSet(t.out) \cup ToSet(t.heap) = ToSet(h)
  BY <1>1, <1>2, <1>4, <1>5, <1>6
<1>10. \A x \in ToSet(t.out), y \in ToSet(t.heap) : x.value <= y.value
  BY <1>1, <1>2, <1>4, <1>5, <1>6
<1>11. IsDrained(t, h)
  BY <1>2, <1>5, <1>6, <1>8, <1>9, <1>10 DEF IsDrained
<1> QED
  BY <1>2, <1>5, <1>7, <1>11 DEF t, o, g

\* Popped until it is empty, a heap gives its items in the order of their values.
LEMMA DrainIs ==
  ASSUME NEW h \in Seq(Items), IsInjective(h), Heaped(h)
  PROVE  LET d == Drain(h)
         IN  /\ d \in Seq(Items) /\ IsInjective(d) /\ Ascending(d)
             /\ Len(d) = Len(h) /\ ToSet(d) = ToSet(h)
<1> DEFINE N == Len(h)
           X == [out : Seq(Items), heap : Seq(Items)]
           base == [out |-> <<>>, heap |-> h]
           Good == [n \in 0..N |->
                      {s \in X : IsDrained(s, h) /\ Len(s.out) = n /\ Len(s.heap) = N - n}]
           step == [q \in (1..N) \X X |-> IF q[2] \in Good[q[1] - 1] THEN Popped(q[2]) ELSE base]
           drained[n \in 0..N] == IF n = 0 THEN base ELSE Popped(drained[n - 1])
<1>1. N \in Nat
  OBVIOUS
<1>2. Drain(h) = drained[N].out
  BY DEF Drain, Popped
<1>3. base \in X /\ base \in Good[0]
  <2>1. IsInjective(<<>>) /\ Ascending(<<>>) /\ ToSet(<<>>) = {}
    BY DEF IsInjective, Ascending, ToSet
  <2>2. <<>> \in Seq(Items) /\ Len(<<>>) = 0
    OBVIOUS
  <2>3. base \in X /\ base.out = <<>> /\ base.heap = h
    BY <2>2
  <2> HIDE DEF base
  <2>4. IsDrained(base, h)
    BY <2>1, <2>2, <2>3 DEF IsDrained
  <2> QED
    BY <1>1, <2>2, <2>3, <2>4
<1>4. ASSUME NEW n \in 1..N, NEW s \in Good[n - 1]
      PROVE  Popped(s) \in Good[n] /\ Popped(s) \in X
  <2>1. n - 1 \in 0..N /\ n \in 0..N
    BY <1>1
  <2>2. IsDrained(s, h) /\ Len(s.out) = n - 1 /\ Len(s.heap) = N - (n - 1)
    BY <1>4, <2>1
  <2>3. Len(s.heap) >= 1
    BY <1>1, <2>2
  <2>4. /\ IsDrained(Popped(s), h)
        /\ Len(Popped(s).out) = Len(s.out) + 1 /\ Len(Popped(s).heap) = Len(s.heap) - 1
    BY <2>2, <2>3, PoppedIs
  <2>5. Len(Popped(s).out) = n /\ Len(Popped(s).heap) = N - n
    BY <1>1, <2>2, <2>4
  <2>6. Popped(s) \in X
    BY <2>4 DEF IsDrained, Popped
  <2> QED
    BY <2>1, <2>4, <2>5, <2>6
<1> HIDE DEF Good
<1>5. step \in [(1..N) \X X -> X]
  BY <1>3, <1>4
<1>6. \A n \in 1..N, s \in X : s \in Good[n - 1] => step[<<n, s>>] = Popped(s)
  OBVIOUS
<1> HIDE DEF X, step, base, N
<1>7. PICK f : IsRun(f, N, X, base, step)
  BY <1>1, <1>3, <1>5, LoopRuns
<1>8. f[0] = base /\ \A n \in 1..N : f[n] = step[<<n, f[n - 1]>>] /\ f[n - 1] \in X
  <2>1. /\ f \in [0..N -> X] /\ 0 \in 0..N
        /\ \A n \in 0..N : f[n] = IF n = 0 THEN base ELSE step[<<n, f[n - 1]>>]
    BY <1>1, <1>7 DEF IsRun
  <2>2. \A n \in 1..N : n \in 0..N /\ n # 0 /\ n - 1 \in 0..N
    BY <1>1
  <2> QED
    BY <2>1, <2>2
<1>9. \A n \in 0..N : f[n] \in Good[n]
  <2>1. \A n \in 1..N : f[n - 1] \in Good[n - 1] => f[n] \in Good[n]
    <3> SUFFICES ASSUME NEW n \in 1..N, f[n - 1] \in Good[n - 1]
                 PROVE  f[n] \in Good[n]
      OBVIOUS
    <3>1. f[n] = Popped(f[n - 1]) /\ f[n - 1] \in X
      BY <1>6, <1>8
    <3> QED
      BY <1>4, <3>1
  <2>2. f[0] \in Good[0]
    BY <1>3, <1>8
  <2> QED
    BY <1>1, <2>1, <2>2, LoopInvariant
<1>10. ASSUME NEW n \in 0..N
       PROVE  (IF n = 0 THEN base ELSE step[<<n, f[n - 1]>>])
              = IF n = 0 THEN base ELSE Popped(f[n - 1])
  <2>1. n = 0 \/ (n \in 1..N /\ n - 1 \in 0..N)
    BY <1>1
  <2>2. n \in 1..N => step[<<n, f[n - 1]>>] = Popped(f[n - 1])
    BY <1>6, <1>8, <1>9, <2>1
  <2> QED
    BY <2>1, <2>2
<1>11. f = [n \in 0..N |-> IF n = 0 THEN base ELSE Popped(f[n - 1])]
  BY <1>7, <1>10, Zenon DEF IsRun
<1>12. drained = [n \in 0..N |-> IF n = 0 THEN base ELSE Popped(drained[n - 1])]
  BY <1>11, Zenon
<1> HIDE DEF drained
<1>13. \A n \in 0..N : drained[n] \in Good[n]
  <2>1. ASSUME NEW n \in 1..N, drained[n - 1] \in Good[n - 1]
        PROVE  drained[n] \in Good[n]
    <3>1. n \in 0..N /\ n # 0
      BY <1>1
    <3>2. drained[n] = Popped(drained[n - 1])
      BY <1>12, <3>1
    <3> QED
      BY <1>4, <2>1, <3>2
  <2>2. drained[0] \in Good[0]
    BY <1>1, <1>3, <1>12
  <2> QED
    BY <1>1, <2>1, <2>2, LoopInvariant
<1>14. IsDrained(drained[N], h) /\ Len(drained[N].out) = N /\ Len(drained[N].heap) = N - N
  BY <1>1, <1>13 DEF Good
<1>15. ToSet(drained[N].heap) = {}
  <2> DEFINE g == drained[N].heap
  <2>1. g \in Seq(Items) /\ Len(g) = 0
    BY <1>1, <1>14 DEF IsDrained
  <2> HIDE DEF g
  <2>2. DOMAIN g = {}
    BY <2>1
  <2>3. ToSet(g) = {}
    BY <2>2 DEF ToSet
  <2> QED
    BY <2>3 DEF g
<1> QED
  BY <1>2, <1>14, <1>15 DEF IsDrained, N

------------------------------------------------------------------------------
(* The best by heap *)

\* What a request sorts by, the greatest first: the field or, ascending, its negative.
Weights(field, asc) == [rec \in Recs |-> IF asc THEN - NumOf(rec, field) ELSE NumOf(rec, field)]

ItemOf(rec, W) == [doc |-> rec, value |-> W[rec]]

LEMMA WeightsTyped ==
  ASSUME NEW field, NEW asc \in BOOLEAN
  PROVE  Weights(field, asc) \in [Recs -> Int]
<1>1. ASSUME NEW rec \in Recs
      PROVE  NumOf(rec, field) \in Int
  <2>1. rec.doc \in Docs
    BY DEF Recs
  <2>2. field \in DOMAIN rec.doc => rec.doc[field] \in Vals
    BY <2>1 DEF Docs
  <2> QED
    BY <2>2, ValuesAssumption DEF NumOf
<1> QED
  BY <1>1 DEF Weights

LEMMA ItemTyped ==
  ASSUME NEW W \in [Recs -> Int], NEW rec \in Recs
  PROVE  /\ ItemOf(rec, W) \in Items /\ W[rec] \in Int
         /\ ItemOf(rec, W).doc = rec /\ ItemOf(rec, W).value = W[rec]
BY DEF ItemOf, Items

\* The heap of topK after n of the records: the k of the greatest weight, or all of
\* them; the record of each one that is not in it weighs no more than any that is.
Keeps(h, recs, W, k, n) ==
  /\ h \in Seq(Items) /\ IsInjective(h) /\ Heaped(h)
  /\ Len(h) = IF n < k THEN n ELSE k
  /\ \A x \in ToSet(h) : \E j \in 1..n : x = ItemOf(recs[j], W)
  /\ \A j \in 1..n : ItemOf(recs[j], W) \in ToSet(h)
                     \/ (Len(h) = k /\ \A x \in ToSet(h) : W[recs[j]] <= x.value)

Offered(h, item, k) ==
  IF Len(h) < k THEN HeapPush(h, item)
  ELSE IF item.value > h[1].value THEN HeapPush(HeapPop(h), item)
  ELSE h

LEMMA OfferedKeeps ==
  ASSUME NEW recs \in Seq(Recs), IsInjective(recs), NEW W \in [Recs -> Int],
         NEW k \in Nat, k >= 1, NEW n \in 1..Len(recs), NEW h, Keeps(h, recs, W, k, n - 1)
  PROVE  Keeps(Offered(h, ItemOf(recs[n], W), k), recs, W, k, n)
<1> DEFINE item == ItemOf(recs[n], W)
           g == Offered(h, item, k)
           It(j) == ItemOf(recs[j], W)
<1>1. n \in Nat /\ n >= 1 /\ Len(recs) \in Nat /\ n <= Len(recs) /\ n - 1 \in Nat
  OBVIOUS
<1>2. \A j \in 1..n : recs[j] \in Recs
  BY <1>1
<1>3. \A j \in 1..n : It(j) \in Items /\ It(j).value = W[recs[j]] /\ W[recs[j]] \in Int
  BY <1>2, ItemTyped
<1>4. \A j \in 1..(n - 1) : It(j) # It(n)
  <2>1. \A j \in 1..(n - 1) : j \in DOMAIN recs /\ n \in DOMAIN recs /\ j # n /\ j \in 1..n
    BY <1>1
  <2>2. \A j \in 1..(n - 1) : recs[j] # recs[n]
    BY <2>1 DEF IsInjective
  <2>3. n \in 1..n
    BY <1>1
  <2>4. \A j \in 1..n : It(j).doc = recs[j]
    BY <1>2, ItemTyped
  <2> HIDE DEF It
  <2> QED
    BY <2>1, <2>2, <2>3, <2>4
<1>5. /\ h \in Seq(Items) /\ IsInjective(h) /\ Heaped(h)
      /\ Len(h) = IF n - 1 < k THEN n - 1 ELSE k
      /\ \A x \in ToSet(h) : \E j \in 1..(n - 1) : x = It(j)
      /\ \A j \in 1..(n - 1) : It(j) \in ToSet(h)
                         \/ (Len(h) = k /\ \A x \in ToSet(h) : W[recs[j]] <= x.value)
  BY DEF Keeps
<1>6. item = It(n)
  OBVIOUS
<1>7. g = IF Len(h) < k THEN HeapPush(h, item)
          ELSE IF item.value > h[1].value THEN HeapPush(HeapPop(h), item)
          ELSE h
  BY DEF Offered
<1>8. 1..n = 1..(n - 1) \cup {n} /\ n \in 1..n
  BY <1>1
<1>9. SUFFICES ASSUME TRUE
               PROVE  /\ g \in Seq(Items) /\ IsInjective(g) /\ Heaped(g)
                      /\ Len(g) = IF n < k THEN n ELSE k
                      /\ \A x \in ToSet(g) : \E j \in 1..n : x = It(j)
                      /\ \A j \in 1..n : It(j) \in ToSet(g)
                            \/ (Len(g) = k /\ \A x \in ToSet(g) : W[recs[j]] <= x.value)
  BY DEF Keeps
<1> HIDE DEF It, item, g
<1>10. item \in Items /\ item \notin ToSet(h)
  BY <1>3, <1>4, <1>5, <1>6, <1>8
<1>11. CASE Len(h) < k
  <2>1. Len(h) = n - 1 /\ n <= k
    BY <1>1, <1>5, <1>11
  <2>2. /\ g \in Seq(Items) /\ IsInjective(g) /\ Heaped(g)
        /\ Len(g) = Len(h) + 1 /\ ToSet(g) = ToSet(h) \cup {item}
    BY <1>5, <1>7, <1>10, <1>11, HeapPushIs
  <2>3. Len(g) = IF n < k THEN n ELSE k
    BY <1>1, <2>1, <2>2
  <2>4. \A x \in ToSet(g) : \E j \in 1..n : x = It(j)
    BY <1>5, <1>6, <1>8, <2>2
  <2>5. \A j \in 1..n : It(j) \in ToSet(g)
    BY <1>1, <1>5, <1>6, <1>8, <1>11, <2>2
  <2> QED
    BY <2>2, <2>3, <2>4, <2>5
<1>12. CASE ~ (Len(h) < k)
  <2>1. Len(h) = k /\ n > k /\ Len(h) >= 1
    BY <1>1, <1>5, <1>12
  <2>2. 1 \in 1..Len(h) /\ DOMAIN h = 1..Len(h)
    BY <1>5, <2>1
  <2>3. \A x : x \in ToSet(h) <=> \E i \in 1..Len(h) : x = h[i]
    BY <2>2 DEF ToSet
  <2>4. \A i \in 1..Len(h) : h[i].value \in Int /\ h[1].value <= h[i].value
    BY <1>5, ItemsIn, RootIsLeast
  <2>5. h[1] \in ToSet(h) /\ \A x \in ToSet(h) : x.value \in Int /\ h[1].value <= x.value
    BY <2>2, <2>3, <2>4
  <2>6. CASE item.value > h[1].value
    <3> DEFINE p == HeapPop(h)
    <3>1. /\ p \in Seq(Items) /\ IsInjective(p) /\ Heaped(p)
          /\ Len(p) = Len(h) - 1 /\ ToSet(p) = ToSet(h) \ {h[1]}
      BY <1>5, <2>1, HeapPopIs
    <3>2. g = HeapPush(p, item)
      BY <1>7, <1>12, <2>6
    <3> HIDE DEF p
    <3>3. item \notin ToSet(p)
      BY <1>10, <3>1
    <3>4. /\ g \in Seq(Items) /\ IsInjective(g) /\ Heaped(g)
          /\ Len(g) = Len(p) + 1 /\ ToSet(g) = ToSet(p) \cup {item}
      BY <1>10, <3>1, <3>2, <3>3, HeapPushIs
    <3>5. Len(g) = k /\ Len(g) = IF n < k THEN n ELSE k
      BY <1>1, <2>1, <3>1, <3>4
    <3>6. \A x \in ToSet(g) : \E j \in 1..n : x = It(j)
      BY <1>5, <1>6, <1>8, <3>1, <3>4
    <3>7. \A x \in ToSet(g) : x.value \in Int /\ h[1].value <= x.value
      <4>1. item.value \in Int /\ h[1].value <= item.value
        BY <1>3, <1>6, <1>8, <2>5, <2>6
      <4> QED
        BY <2>5, <3>1, <3>4, <4>1
    <3>8. ASSUME NEW j \in 1..n
          PROVE  It(j) \in ToSet(g) \/ \A x \in ToSet(g) : W[recs[j]] <= x.value
      <4>1. CASE j = n
        BY <1>6, <3>4, <4>1
      <4>2. CASE j \in 1..(n - 1) /\ It(j) \in ToSet(h)
        <5>1. CASE It(j) = h[1]
          <6>1. W[recs[j]] = h[1].value
            BY <1>3, <3>8, <5>1
          <6> QED
            BY <3>7, <6>1
        <5>2. CASE It(j) # h[1]
          BY <3>1, <3>4, <4>2, <5>2
        <5> QED
          BY <5>1, <5>2
      <4>3. CASE j \in 1..(n - 1) /\ It(j) \notin ToSet(h)
        <5>1. W[recs[j]] <= h[1].value /\ W[recs[j]] \in Int /\ h[1].value \in Int
          BY <1>3, <1>5, <2>5, <3>8, <4>3
        <5> QED
          BY <3>7, <5>1
      <4> QED
        BY <1>8, <3>8, <4>1, <4>2, <4>3
    <3> QED
      BY <3>4, <3>5, <3>6, <3>8
  <2>7. CASE ~ (item.value > h[1].value)
    <3>1. g = h
      BY <1>7, <1>12, <2>7
    <3>2. Len(g) = IF n < k THEN n ELSE k
      BY <1>1, <2>1, <3>1
    <3>3. \A x \in ToSet(g) : \E j \in 1..n : x = It(j)
      BY <1>5, <1>8, <3>1
    <3>4. \A x \in ToSet(h) : W[recs[n]] <= x.value
      <4>1. item.value = W[recs[n]] /\ item.value \in Int
        BY <1>3, <1>6, <1>8
      <4>2. item.value <= h[1].value
        BY <2>5, <2>7, <4>1
      <4> QED
        BY <2>5, <4>1, <4>2
    <3>5. \A j \in 1..n : It(j) \in ToSet(g)
                          \/ (Len(g) = k /\ \A x \in ToSet(g) : W[recs[j]] <= x.value)
      BY <1>5, <1>8, <2>1, <3>1, <3>4
    <3> QED
      BY <1>5, <3>1, <3>2, <3>3, <3>5
  <2> QED
    BY <2>6, <2>7
<1> QED
  BY <1>11, <1>12

\* What a limit leaves of the records: k of them in order, and none better is missing.
Descending(b, W) == \A i, j \in DOMAIN b : i < j => W[b[i]] >= W[b[j]]

AreBest(b, recs, W, k) ==
  /\ b \in Seq(Recs) /\ IsInjective(b) /\ Descending(b, W)
  /\ ToSet(b) \subseteq ToSet(recs)
  /\ Len(b) = IF Len(recs) < k THEN Len(recs) ELSE k
  /\ \A rec \in ToSet(recs) \ ToSet(b), s \in ToSet(b) : W[rec] <= W[s]

\* The records of a drained heap, the last one that came out first.
LEMMA DrainedAreBest ==
  ASSUME NEW recs \in Seq(Recs), NEW W \in [Recs -> Int], NEW k \in Nat,
         NEW h, Keeps(h, recs, W, k, Len(recs))
  PROVE  AreBest(Reverse(RecordsIn(Drain(h))), recs, W, k)
<1> DEFINE N == Len(recs)
           d == Drain(h)
           n == Len(d)
           b == Reverse(RecordsIn(d))
           It(j) == ItemOf(recs[j], W)
<1>1. /\ h \in Seq(Items) /\ IsInjective(h) /\ Heaped(h)
      /\ Len(h) = IF N < k THEN N ELSE k
      /\ \A x \in ToSet(h) : \E j \in 1..N : x = It(j)
      /\ \A j \in 1..N : It(j) \in ToSet(h)
                         \/ (Len(h) = k /\ \A x \in ToSet(h) : W[recs[j]] <= x.value)
  BY DEF Keeps
<1>2. /\ d \in Seq(Items) /\ IsInjective(d) /\ Ascending(d)
      /\ n = Len(h) /\ ToSet(d) = ToSet(h)
  BY <1>1, DrainIs
<1> HIDE DEF d
<1>3. n \in Nat /\ DOMAIN d = 1..n /\ N \in Nat /\ DOMAIN recs = 1..N
  BY <1>2
<1>4. \A j \in 1..N : recs[j] \in Recs /\ It(j).doc = recs[j] /\ It(j).value = W[recs[j]]
                      /\ W[recs[j]] \in Int
  BY ItemTyped
<1> HIDE DEF n, N, It
<1>5. \A x : x \in ToSet(d) <=> \E i \in 1..n : x = d[i]
  BY <1>3 DEF ToSet
<1>6. \A x : x \in ToSet(recs) <=> \E j \in 1..N : x = recs[j]
  BY <1>3 DEF ToSet
<1>7. /\ DOMAIN b = 1..n /\ Len(b) = n
      /\ \A i \in 1..n : n - i + 1 \in 1..n /\ b[i] = d[n - i + 1].doc
  <2> DEFINE q == RecordsIn(d)
  <2>1. q = [i \in 1..n |-> d[i].doc]
    BY <1>3 DEF RecordsIn
  <2> HIDE DEF q
  <2>2. Len(q) = n /\ \A i \in 1..n : q[i] = d[i].doc
    BY <1>3, <2>1
  <2>3. b = [i \in 1..n |-> q[(n - i) + 1]]
    BY <2>2 DEF Reverse, q
  <2>4. \A i \in 1..n : n - i + 1 \in 1..n
    BY <1>3
  <2> HIDE DEF b
  <2> QED
    BY <1>3, <2>2, <2>3, <2>4
<1> HIDE DEF b
<1>8. \A i \in 1..n : \E j \in 1..N : d[i] = It(j) /\ d[i].doc = recs[j]
  <2>1. TAKE i \in 1..n
  <2>2. d[i] \in ToSet(h)
    BY <1>2, <1>5
  <2>3. PICK j \in 1..N : d[i] = It(j)
    BY <1>1, <2>2
  <2> QED
    BY <1>4, <2>3
<1>9. \A i \in 1..n : /\ d[i].doc \in Recs /\ d[i].value = W[d[i].doc] /\ d[i].value \in Int
                      /\ d[i] = ItemOf(d[i].doc, W)
  <2>1. TAKE i \in 1..n
  <2>2. PICK j \in 1..N : d[i] = It(j) /\ d[i].doc = recs[j]
    BY <1>8
  <2>3. d[i] = ItemOf(recs[j], W)
    BY <2>2 DEF It
  <2> QED
    BY <1>4, <2>2, <2>3
<1>10. b \in Seq(Recs)
  <2>1. b = [i \in 1..n |-> b[i]]
    <3>1. b = Reverse(RecordsIn(d))
      BY DEF b
    <3>2. b = [i \in 1..Len(RecordsIn(d)) |-> RecordsIn(d)[(Len(RecordsIn(d)) - i) + 1]]
      BY <3>1 DEF Reverse
    <3> QED
      BY <1>7, <3>2
  <2>2. \A i \in 1..n : b[i] \in Recs
    BY <1>7, <1>9
  <2>3. b \in [1..n -> Recs]
    BY <2>1, <2>2
  <2> QED
    BY <1>3, <2>3
<1>11. IsInjective(b)
  <2>1. ASSUME NEW i \in 1..n, NEW j \in 1..n, b[i] = b[j]
        PROVE  i = j
    <3> DEFINE i1 == n - i + 1
               j1 == n - j + 1
    <3>1. i1 \in 1..n /\ j1 \in 1..n /\ d[i1].doc = d[j1].doc
      BY <1>7, <2>1
    <3> HIDE DEF i1, j1
    <3>2. d[i1] = d[j1]
      BY <1>9, <3>1
    <3>3. i1 = j1
      BY <1>2, <1>3, <3>1, <3>2 DEF IsInjective
    <3> QED
      BY <1>3, <3>3 DEF i1, j1
  <2> QED
    BY <1>7, <2>1 DEF IsInjective
<1>12. Descending(b, W)
  <2>1. ASSUME NEW i \in 1..n, NEW j \in 1..n, i < j
        PROVE  W[b[i]] >= W[b[j]]
    <3> DEFINE i1 == n - i + 1
               j1 == n - j + 1
    <3>1. i1 \in 1..n /\ j1 \in 1..n /\ j1 < i1 /\ b[i] = d[i1].doc /\ b[j] = d[j1].doc
      BY <1>3, <1>7, <2>1
    <3> HIDE DEF i1, j1
    <3>2. d[j1].value <= d[i1].value
      BY <1>2, <1>3, <3>1 DEF Ascending
    <3>3. d[i1].value = W[b[i]] /\ d[j1].value = W[b[j]] /\ W[b[i]] \in Int /\ W[b[j]] \in Int
      BY <1>9, <3>1
    <3> QED
      BY <3>2, <3>3
  <2> QED
    BY <1>7, <2>1 DEF Descending
<1>13. \A s : s \in ToSet(b) <=> \E i \in 1..n : s = d[i].doc
  <2>1. \A s : s \in ToSet(b) <=> \E i \in 1..n : s = b[i]
    BY <1>7 DEF ToSet
  <2>2. \A i \in 1..n : \E j \in 1..n : b[i] = d[j].doc
    BY <1>7
  <2>3. \A i \in 1..n : \E j \in 1..n : b[j] = d[i].doc
    <3>1. TAKE i \in 1..n
    <3>2. n - i + 1 \in 1..n /\ n - (n - i + 1) + 1 = i
      BY <1>3
    <3>3. b[n - i + 1] = d[n - (n - i + 1) + 1].doc
      BY <1>7, <3>2
    <3> QED
      BY <3>2, <3>3
  <2>4. TAKE s
  <2>5. ASSUME s \in ToSet(b)
        PROVE  \E i \in 1..n : s = d[i].doc
    <3>1. PICK i \in 1..n : s = b[i]
      BY <2>1, <2>5
    <3> QED
      BY <2>2, <3>1
  <2>6. ASSUME NEW i \in 1..n, s = d[i].doc
        PROVE  s \in ToSet(b)
    <3>1. PICK j \in 1..n : b[j] = s
      BY <2>3, <2>6
    <3> QED
      BY <2>1, <3>1
  <2> QED
    BY <2>5, <2>6
<1>14. ToSet(b) \subseteq ToSet(recs)
  BY <1>6, <1>8, <1>13
<1>15. ASSUME NEW rec \in ToSet(recs) \ ToSet(b), NEW s \in ToSet(b)
       PROVE  W[rec] <= W[s]
  <2>1. PICK j \in 1..N : rec = recs[j]
    BY <1>6
  <2>2. PICK i \in 1..n : s = d[i].doc
    BY <1>13
  <2>3. It(j) \notin ToSet(h)
    <3>1. SUFFICES ASSUME It(j) \in ToSet(h) PROVE FALSE
      OBVIOUS
    <3>2. PICK l \in 1..n : It(j) = d[l]
      BY <1>2, <1>5, <3>1
    <3>3. d[l].doc = rec
      BY <1>4, <2>1, <3>2
    <3> QED
      BY <1>13, <3>3
  <2>4. d[i] \in ToSet(h)
    BY <1>2, <1>5
  <2>5. W[recs[j]] <= d[i].value
    BY <1>1, <2>3, <2>4
  <2> QED
    BY <1>9, <2>1, <2>2, <2>5
<1> QED
  BY <1>1, <1>2, <1>7, <1>10, <1>11, <1>12, <1>14, <1>15 DEF AreBest, N, b, d

LEMMA TopKIsBest ==
  ASSUME NEW recs \in Seq(Recs), IsInjective(recs), NEW field, NEW asc \in BOOLEAN,
         NEW k \in Nat, k >= 1
  PROVE  AreBest(TopK(recs, field, asc, k), recs, Weights(field, asc), k)
<1> DEFINE N == Len(recs)
           W == Weights(field, asc)
           X == Seq(Items)
           Turn(n, h) == Offer(h, recs[n], field, asc, k)
           Good == [n \in 0..N |-> {h \in X : Keeps(h, recs, W, k, n)}]
           step == [q \in (1..N) \X X |-> IF q[2] \in Good[q[1] - 1] THEN Turn(q[1], q[2]) ELSE <<>>]
           heap[n \in 0..N] == IF n = 0 THEN <<>> ELSE Turn(n, heap[n - 1])
<1>1. N \in Nat
  OBVIOUS
<1>2. TopK(recs, field, asc, k) = Reverse(RecordsIn(Drain(heap[N])))
  BY DEF TopK
<1>3. W \in [Recs -> Int]
  BY WeightsTyped
<1>4. <<>> \in X /\ <<>> \in Good[0]
  <2>1. <<>> \in X /\ IsInjective(<<>>) /\ Heaped(<<>>) /\ ToSet(<<>>) = {} /\ Len(<<>>) = 0
    BY DEF IsInjective, Heaped, ToSet
  <2>2. Keeps(<<>>, recs, W, k, 0)
    BY <2>1 DEF Keeps
  <2> QED
    BY <1>1, <2>1, <2>2
<1>5. ASSUME NEW n \in 1..N, NEW h \in Good[n - 1]
      PROVE  Turn(n, h) \in Good[n] /\ Turn(n, h) \in X
  <2>1. n - 1 \in 0..N /\ n \in 0..N
    BY <1>1
  <2>2. Keeps(h, recs, W, k, n - 1)
    BY <1>5, <2>1
  <2>3. recs[n] \in Recs /\ n \in 1..Len(recs)
    OBVIOUS
  <2>4. Turn(n, h) = Offered(h, ItemOf(recs[n], W), k)
    BY <2>3 DEF Offer, Offered, ItemOf, Weights
  <2> HIDE DEF W, Turn
  <2>5. Keeps(Turn(n, h), recs, W, k, n)
    BY <1>3, <2>2, <2>3, <2>4, OfferedKeeps
  <2>6. Turn(n, h) \in X
    BY <2>5 DEF Keeps
  <2> QED
    BY <2>1, <2>5, <2>6
<1> HIDE DEF Good, Turn, W
<1>6. step \in [(1..N) \X X -> X]
  BY <1>4, <1>5
<1>7. \A n \in 1..N, h \in X : h \in Good[n - 1] => step[<<n, h>>] = Turn(n, h)
  OBVIOUS
<1> HIDE DEF X, step, N
<1>8. PICK f : IsRun(f, N, X, <<>>, step)
  BY <1>1, <1>4, <1>6, LoopRuns
<1>9. f[0] = <<>> /\ \A n \in 1..N : f[n] = step[<<n, f[n - 1]>>] /\ f[n - 1] \in X
  <2>1. /\ f \in [0..N -> X] /\ 0 \in 0..N
        /\ \A n \in 0..N : f[n] = IF n = 0 THEN <<>> ELSE step[<<n, f[n - 1]>>]
    BY <1>1, <1>8 DEF IsRun
  <2>2. \A n \in 1..N : n \in 0..N /\ n # 0 /\ n - 1 \in 0..N
    BY <1>1
  <2> QED
    BY <2>1, <2>2
<1>10. \A n \in 0..N : f[n] \in Good[n]
  <2>1. \A n \in 1..N : f[n - 1] \in Good[n - 1] => f[n] \in Good[n]
    BY <1>5, <1>7, <1>9
  <2>2. f[0] \in Good[0]
    BY <1>4, <1>9
  <2> QED
    BY <1>1, <2>1, <2>2, LoopInvariant
<1>11. ASSUME NEW n \in 0..N
       PROVE  (IF n = 0 THEN <<>> ELSE step[<<n, f[n - 1]>>])
              = IF n = 0 THEN <<>> ELSE Turn(n, f[n - 1])
  <2>1. n = 0 \/ (n \in 1..N /\ n - 1 \in 0..N)
    BY <1>1
  <2>2. n \in 1..N => step[<<n, f[n - 1]>>] = Turn(n, f[n - 1])
    BY <1>7, <1>9, <1>10, <2>1
  <2> QED
    BY <2>1, <2>2
<1>12. f = [n \in 0..N |-> IF n = 0 THEN <<>> ELSE Turn(n, f[n - 1])]
  BY <1>8, <1>11, Zenon DEF IsRun
<1>13. heap = [n \in 0..N |-> IF n = 0 THEN <<>> ELSE Turn(n, heap[n - 1])]
  BY <1>12, Zenon
<1> HIDE DEF heap
<1>14. \A n \in 0..N : heap[n] \in Good[n]
  <2>1. ASSUME NEW n \in 1..N, heap[n - 1] \in Good[n - 1]
        PROVE  heap[n] \in Good[n]
    <3>1. n \in 0..N /\ n # 0
      BY <1>1
    <3>2. heap[n] = Turn(n, heap[n - 1])
      BY <1>13, <3>1
    <3> QED
      BY <1>5, <2>1, <3>2
  <2>2. heap[0] \in Good[0]
    BY <1>1, <1>4, <1>13
  <2> QED
    BY <1>1, <2>1, <2>2, LoopInvariant
<1>15. Keeps(heap[N], recs, W, k, N)
  BY <1>1, <1>14 DEF Good
<1> QED
  BY <1>2, <1>3, <1>15, DrainedAreBest DEF N, W

------------------------------------------------------------------------------
(* The best by insertion sort *)

LEMMA GreatestElement ==
  ASSUME NEW T, T # {}, NEW n \in Nat, T \in SUBSET (1..n)
  PROVE  LET m == Max(T)
         IN  m \in T /\ \A x \in T : x <= m
<1> DEFINE B == {b \in Nat : \A x \in T : x <= b}
<1>1. n \in B /\ B \in SUBSET Nat
  OBVIOUS
<1>2. PICK b \in B : \A c \in B : b <= c
  BY <1>1, LeastElement
<1>3. b \in T
  <2>1. SUFFICES ASSUME b \notin T PROVE FALSE
    OBVIOUS
  <2>2. PICK x \in T : TRUE
    OBVIOUS
  <2>3. \A y \in T : y \in Nat /\ y >= 1 /\ y <= b /\ y # b
    BY <1>2, <2>1
  <2>4. b - 1 \in B
    BY <1>2, <2>2, <2>3
  <2> QED
    BY <1>2, <2>4
<1>4. \E m \in T : \A x \in T : m >= x
  BY <1>2, <1>3
<1> QED
  BY <1>4 DEF Max

\* Where the insertion sort puts a record: behind those that weigh as much or more.
LEMMA SunkAt ==
  ASSUME NEW s \in Seq(Recs), NEW rec \in Recs, NEW field, NEW asc \in BOOLEAN,
         Descending(s, Weights(field, asc))
  PROVE  \E j \in 0..Len(s) :
           /\ Sunk(s, rec, field, asc) = InsertAt(s, j + 1, rec)
           /\ \A i \in 1..j : Weights(field, asc)[s[i]] >= Weights(field, asc)[rec]
           /\ \A i \in (j + 1)..Len(s) : Weights(field, asc)[s[i]] < Weights(field, asc)[rec]
<1> DEFINE W == Weights(field, asc)
           N == Len(s)
           v == NumOf(rec, field)
           Stays(r) == IF asc THEN NumOf(r, field) <= v ELSE NumOf(r, field) >= v
           I == {i \in 1..N : Stays(s[i])}
           j == IF I # {} THEN Max(I) ELSE 0
<1>1. N \in Nat /\ DOMAIN s = 1..N /\ \A i \in 1..N : s[i] \in Recs
  OBVIOUS
<1>2. W \in [Recs -> Int]
  BY WeightsTyped
<1>3. Sunk(s, rec, field, asc) = InsertAt(s, j + 1, rec)
  BY DEF Sunk, SelectLastInSeq
<1>4. \A r \in Recs : Stays(r) <=> W[r] >= W[rec]
  <2>1. TAKE r \in Recs
  <2>2. W[r] = (IF asc THEN - NumOf(r, field) ELSE NumOf(r, field)) /\ W[rec] = IF asc THEN - v ELSE v
    BY DEF Weights
  <2>3. NumOf(r, field) \in Int /\ v \in Int
    <3>1. Weights(field, FALSE) \in [Recs -> Int]
      BY WeightsTyped
    <3>2. Weights(field, FALSE)[r] = NumOf(r, field) /\ Weights(field, FALSE)[rec] = v
      BY DEF Weights
    <3> QED
      BY <3>1, <3>2
  <2> HIDE DEF W, v
  <2> QED
    BY <2>2, <2>3
<1>5. Descending(s, W)
  OBVIOUS
<1> HIDE DEF Stays, W, N
<1>6. \A i \in 1..N : i \in I <=> W[s[i]] >= W[rec]
  BY <1>1, <1>4
<1>7. \A i, k \in 1..N : i < k => W[s[i]] >= W[s[k]]
  BY <1>1, <1>5 DEF Descending
<1>8. \A i \in 1..N : W[s[i]] \in Int /\ W[rec] \in Int
  BY <1>1, <1>2
<1>9. I \in SUBSET (1..N)
  OBVIOUS
<1> HIDE DEF I
<1>10. CASE I # {}
  <2>1. j = Max(I) /\ j \in I /\ \A i \in I : i <= j
    BY <1>1, <1>9, <1>10, GreatestElement
  <2> HIDE DEF j
  <2>2. j \in 0..N /\ j \in 1..N /\ W[s[j]] >= W[rec]
    BY <1>1, <1>6, <1>9, <2>1
  <2>3. ASSUME NEW i \in 1..j PROVE W[s[i]] >= W[rec]
    <3>1. i \in 1..N /\ (i = j \/ i < j)
      BY <1>1, <2>2
    <3> QED
      BY <1>7, <1>8, <2>2, <3>1
  <2>4. ASSUME NEW i \in (j + 1)..N PROVE W[s[i]] < W[rec]
    <3>1. i \in 1..N /\ i > j
      BY <1>1, <2>2
    <3>2. i \notin I
      BY <1>1, <2>1, <2>2, <3>1
    <3> QED
      BY <1>6, <1>8, <3>1, <3>2
  <2> QED
    BY <1>3, <2>2, <2>3, <2>4 DEF N, W
<1>11. CASE I = {}
  <2>1. j = 0 /\ j \in 0..N
    BY <1>1, <1>11
  <2> HIDE DEF j
  <2>2. \A i \in (j + 1)..N : W[s[i]] < W[rec]
    BY <1>1, <1>6, <1>8, <1>11, <2>1
  <2>3. \A i \in 1..j : W[s[i]] >= W[rec]
    BY <2>1
  <2> QED
    BY <1>3, <2>1, <2>2, <2>3 DEF N, W
<1> QED
  BY <1>10, <1>11

LEMMA InsertRecord ==
  ASSUME NEW s \in Seq(Recs), NEW i \in 1..(Len(s) + 1), NEW rec \in Recs
  PROVE  LET t == InsertAt(s, i, rec)
         IN  /\ t \in Seq(Recs)
             /\ Len(t) = Len(s) + 1
             /\ \A j \in 1..Len(t) :
                  t[j] = IF j < i THEN s[j] ELSE IF j = i THEN rec ELSE s[j - 1]
BY InsertAtElements

LEMMA SunkIs ==
  ASSUME NEW s \in Seq(Recs), IsInjective(s), NEW rec \in Recs, rec \notin ToSet(s),
         NEW field, NEW asc \in BOOLEAN, Descending(s, Weights(field, asc))
  PROVE  LET t == Sunk(s, rec, field, asc)
         IN  /\ t \in Seq(Recs) /\ IsInjective(t) /\ Descending(t, Weights(field, asc))
             /\ Len(t) = Len(s) + 1 /\ ToSet(t) = ToSet(s) \cup {rec}
<1> DEFINE W == Weights(field, asc)
           N == Len(s)
           t == Sunk(s, rec, field, asc)
<1>1. N \in Nat /\ DOMAIN s = 1..N /\ \A i \in 1..N : s[i] \in Recs
  OBVIOUS
<1>2. PICK j \in 0..N :
        /\ t = InsertAt(s, j + 1, rec)
        /\ \A i \in 1..j : W[s[i]] >= W[rec]
        /\ \A i \in (j + 1)..N : W[s[i]] < W[rec]
  BY SunkAt
<1>3. W \in [Recs -> Int] /\ Descending(s, W)
  BY WeightsTyped
<1> DEFINE p == j + 1
<1>4. p \in 1..(N + 1) /\ p \in 1..(Len(s) + 1)
  BY <1>1
<1>5. /\ t \in Seq(Recs) /\ Len(t) = N + 1
      /\ \A i \in 1..Len(t) : t[i] = IF i < p THEN s[i] ELSE IF i = p THEN rec ELSE s[i - 1]
  <2> HIDE DEF p
  <2>1. t = InsertAt(s, p, rec)
    BY <1>2 DEF p
  <2> DEFINE u == InsertAt(s, p, rec)
  <2>2. /\ u \in Seq(Recs) /\ Len(u) = Len(s) + 1
        /\ \A i \in 1..Len(u) : u[i] = IF i < p THEN s[i] ELSE IF i = p THEN rec ELSE s[i - 1]
    BY <1>4, InsertRecord
  <2> HIDE DEF t, u
  <2>3. t = u
    BY <2>1 DEF u
  <2> QED
    BY <2>2, <2>3
<1>6. /\ \A i \in 1..N : i < p => W[s[i]] >= W[rec]
      /\ \A i \in 1..N : i >= p => W[s[i]] < W[rec]
  BY <1>1, <1>2
<1> HIDE DEF t, W, N, p
<1>7. DOMAIN t = 1..(N + 1)
      /\ \A i \in 1..(N + 1) : t[i] = IF i < p THEN s[i] ELSE IF i = p THEN rec ELSE s[i - 1]
  BY <1>1, <1>5
<1>8. \A x : x \in ToSet(s) <=> \E i \in 1..N : x = s[i]
  BY <1>1 DEF ToSet
<1>9. \A i, k \in 1..N : i < k => W[s[i]] >= W[s[k]]
  BY <1>1, <1>3 DEF Descending
<1>10. \A i, k \in 1..N : s[i] = s[k] => i = k
  BY <1>1 DEF IsInjective
<1>11. \A i \in 1..(N + 1) :
         \/ i < p /\ i \in 1..N /\ t[i] = s[i]
         \/ i = p /\ t[i] = rec
         \/ i > p /\ i - 1 \in 1..N /\ i - 1 >= p /\ t[i] = s[i - 1]
  BY <1>1, <1>4, <1>7
<1>12. \A i \in 1..N : W[s[i]] \in Int /\ W[rec] \in Int /\ s[i] # rec
  BY <1>1, <1>3, <1>8
<1>13. ASSUME NEW i \in 1..(N + 1), NEW k \in 1..(N + 1), i < k
       PROVE  W[t[i]] >= W[t[k]] /\ t[i] # t[k]
  <2>1. CASE i < p /\ k < p
    <3>1. i \in 1..N /\ k \in 1..N /\ i # k /\ t[i] = s[i] /\ t[k] = s[k]
      BY <1>1, <1>4, <1>11, <1>13, <2>1
    <3> QED
      BY <1>9, <1>10, <1>13, <3>1
  <2>2. CASE i < p /\ k = p
    BY <1>1, <1>6, <1>11, <1>12, <1>13, <2>2
  <2>3. CASE i < p /\ k > p
    <3>1. /\ i \in 1..N /\ t[i] = s[i] /\ W[s[i]] >= W[rec]
          /\ k - 1 \in 1..N /\ t[k] = s[k - 1] /\ W[s[k - 1]] < W[rec]
      BY <1>1, <1>4, <1>6, <1>11, <2>3
    <3> QED
      BY <1>12, <3>1
  <2>4. CASE i = p /\ k > p
    <3>1. /\ t[i] = rec
          /\ k - 1 \in 1..N /\ t[k] = s[k - 1] /\ W[s[k - 1]] < W[rec]
      BY <1>1, <1>4, <1>6, <1>11, <2>4
    <3> QED
      BY <1>12, <3>1
  <2>5. CASE i > p /\ k > p
    <3> DEFINE i1 == i - 1
               k1 == k - 1
    <3>1. i1 \in 1..N /\ k1 \in 1..N /\ i1 < k1 /\ t[i] = s[i1] /\ t[k] = s[k1]
      BY <1>1, <1>4, <1>11, <1>13, <2>5
    <3> HIDE DEF i1, k1
    <3>2. i1 # k1
      BY <3>1
    <3> QED
      BY <1>9, <1>10, <3>1, <3>2
  <2> QED
    BY <1>1, <1>4, <1>13, <2>1, <2>2, <2>3, <2>4, <2>5
<1>14. Descending(t, W)
  BY <1>7, <1>13 DEF Descending
<1>15. IsInjective(t)
  <2>1. \A i, k \in 1..(N + 1) : t[i] = t[k] => i = k
    <3>1. \A i, k \in 1..(N + 1) : i < k \/ i = k \/ k < i
      BY <1>1
    <3> QED
      BY <1>13, <3>1
  <2> QED
    BY <1>7, <2>1 DEF IsInjective
<1>16. ToSet(t) = ToSet(s) \cup {rec}
  <2>1. \A x : x \in ToSet(t) <=> \E i \in 1..(N + 1) : x = t[i]
    BY <1>7 DEF ToSet
  <2>2. \A i \in 1..N : \E k \in 1..(N + 1) : t[k] = s[i]
    <3>1. TAKE i \in 1..N
    <3>2. CASE i < p
      BY <1>1, <1>7, <3>2
    <3>3. CASE i >= p
      <4>1. i + 1 \in 1..(N + 1) /\ i + 1 > p /\ (i + 1) - 1 = i
        BY <1>1, <1>4, <3>3
      <4>2. t[i + 1] = s[(i + 1) - 1]
        BY <1>11, <1>4, <1>1, <4>1
      <4> QED
        BY <4>1, <4>2
    <3> QED
      BY <1>1, <1>4, <3>2, <3>3
  <2>3. \E k \in 1..(N + 1) : t[k] = rec
    BY <1>4, <1>7
  <2>4. \A i \in 1..(N + 1) : t[i] = rec \/ \E k \in 1..N : t[i] = s[k]
    BY <1>11
  <2>5. \A x : x \in ToSet(t) <=> x \in ToSet(s) \/ x = rec
    BY <1>8, <2>1, <2>2, <2>3, <2>4
  <2> QED
    BY <2>5
<1> QED
  BY <1>5, <1>14, <1>15, <1>16 DEF t, W, N

\* All of recs in order.
AreSorted(s, recs, W) ==
  /\ s \in Seq(Recs) /\ IsInjective(s) /\ Descending(s, W)
  /\ ToSet(s) = ToSet(recs) /\ Len(s) = Len(recs)

LEMMA SortAllSorts ==
  ASSUME NEW recs \in Seq(Recs), IsInjective(recs), NEW field, NEW asc \in BOOLEAN
  PROVE  AreSorted(SortAll(recs, field, asc), recs, Weights(field, asc))
<1> DEFINE N == Len(recs)
           W == Weights(field, asc)
           X == Seq(Recs)
           Turn(n, s) == Sunk(s, recs[n], field, asc)
           Seen(n) == {recs[j] : j \in 1..n}
           Good == [n \in 0..N |-> {s \in X : /\ IsInjective(s) /\ Descending(s, W)
                                              /\ ToSet(s) = Seen(n) /\ Len(s) = n}]
           step == [q \in (1..N) \X X |-> IF q[2] \in Good[q[1] - 1] THEN Turn(q[1], q[2]) ELSE <<>>]
           sorted[n \in 0..N] == IF n = 0 THEN <<>> ELSE Turn(n, sorted[n - 1])
<1>1. N \in Nat /\ DOMAIN recs = 1..N /\ \A n \in 1..N : recs[n] \in Recs
  OBVIOUS
<1>2. SortAll(recs, field, asc) = sorted[N]
  BY DEF SortAll
<1>3. \A n \in 1..N : Seen(n) = Seen(n - 1) \cup {recs[n]} /\ recs[n] \notin Seen(n - 1)
  <2>1. TAKE n \in 1..N
  <2>2. 1..n = 1..(n - 1) \cup {n} /\ \A j \in 1..(n - 1) : j \in 1..N /\ j # n
    BY <1>1
  <2>3. \A j \in 1..(n - 1) : recs[j] # recs[n]
    BY <1>1, <2>2 DEF IsInjective
  <2> QED
    BY <2>2, <2>3
<1>4. <<>> \in X /\ <<>> \in Good[0]
  <2>1. <<>> \in X /\ IsInjective(<<>>) /\ Descending(<<>>, W) /\ ToSet(<<>>) = {} /\ Len(<<>>) = 0
    BY DEF IsInjective, Descending, ToSet
  <2>2. Seen(0) = {}
    OBVIOUS
  <2> QED
    BY <1>1, <2>1, <2>2
<1> HIDE DEF Seen
<1>5. ASSUME NEW n \in 1..N, NEW s \in Good[n - 1]
      PROVE  Turn(n, s) \in Good[n] /\ Turn(n, s) \in X
  <2> DEFINE rec == recs[n]
             t == Turn(n, s)
  <2>1. n - 1 \in 0..N /\ n \in 0..N /\ n \in Nat
    BY <1>1
  <2>2. s \in Seq(Recs) /\ IsInjective(s) /\ Descending(s, W) /\ ToSet(s) = Seen(n - 1) /\ Len(s) = n - 1
    BY <1>5, <2>1
  <2>3. rec \in Recs /\ rec \notin ToSet(s)
    BY <1>1, <1>3, <2>2
  <2>4. /\ t \in Seq(Recs) /\ IsInjective(t) /\ Descending(t, W)
        /\ Len(t) = Len(s) + 1 /\ ToSet(t) = ToSet(s) \cup {rec}
    <3> HIDE DEF rec
    <3>1. t = Sunk(s, rec, field, asc)
      BY DEF rec
    <3> HIDE DEF t
    <3> QED
      BY <2>2, <2>3, <3>1, SunkIs
  <2> HIDE DEF t
  <2>5. Len(t) = n /\ ToSet(t) = Seen(n)
    BY <1>3, <2>1, <2>2, <2>4
  <2> HIDE DEF W
  <2>6. t \in Good[n]
    BY <2>1, <2>4, <2>5
  <2> QED
    BY <2>4, <2>6 DEF t
<1> HIDE DEF Good, Turn, W
<1>6. step \in [(1..N) \X X -> X]
  BY <1>4, <1>5
<1>7. \A n \in 1..N, s \in X : s \in Good[n - 1] => step[<<n, s>>] = Turn(n, s)
  OBVIOUS
<1> HIDE DEF X, step, N
<1>8. PICK f : IsRun(f, N, X, <<>>, step)
  BY <1>1, <1>4, <1>6, LoopRuns
<1>9. f[0] = <<>> /\ \A n \in 1..N : f[n] = step[<<n, f[n - 1]>>] /\ f[n - 1] \in X
  <2>1. /\ f \in [0..N -> X] /\ 0 \in 0..N
        /\ \A n \in 0..N : f[n] = IF n = 0 THEN <<>> ELSE step[<<n, f[n - 1]>>]
    BY <1>1, <1>8 DEF IsRun
  <2>2. \A n \in 1..N : n \in 0..N /\ n # 0 /\ n - 1 \in 0..N
    BY <1>1
  <2> QED
    BY <2>1, <2>2
<1>10. \A n \in 0..N : f[n] \in Good[n]
  <2>1. \A n \in 1..N : f[n - 1] \in Good[n - 1] => f[n] \in Good[n]
    <3>1. TAKE n \in 1..N
    <3>2. HAVE f[n - 1] \in Good[n - 1]
    <3>3. f[n] = Turn(n, f[n - 1])
      BY <1>7, <1>9, <3>2, Zenon
    <3> QED
      BY <1>5, <3>2, <3>3, Zenon
  <2>2. f[0] \in Good[0]
    BY <1>4, <1>9
  <2> QED
    BY <1>1, <2>1, <2>2, LoopInvariant
<1>11. ASSUME NEW n \in 0..N
       PROVE  (IF n = 0 THEN <<>> ELSE step[<<n, f[n - 1]>>])
              = IF n = 0 THEN <<>> ELSE Turn(n, f[n - 1])
  <2>1. n = 0 \/ (n \in 1..N /\ n - 1 \in 0..N)
    BY <1>1
  <2>2. n \in 1..N => step[<<n, f[n - 1]>>] = Turn(n, f[n - 1])
    BY <1>7, <1>9, <1>10, <2>1
  <2> QED
    BY <2>1, <2>2
<1>12. f = [n \in 0..N |-> IF n = 0 THEN <<>> ELSE Turn(n, f[n - 1])]
  BY <1>8, <1>11, Zenon DEF IsRun
<1>13. sorted = [n \in 0..N |-> IF n = 0 THEN <<>> ELSE Turn(n, sorted[n - 1])]
  BY <1>12, Zenon
<1> HIDE DEF sorted
<1>14. \A n \in 0..N : sorted[n] \in Good[n]
  <2>1. ASSUME NEW n \in 1..N, sorted[n - 1] \in Good[n - 1]
        PROVE  sorted[n] \in Good[n]
    <3>1. n \in 0..N /\ n # 0
      BY <1>1
    <3>2. sorted[n] = Turn(n, sorted[n - 1])
      BY <1>13, <3>1
    <3> QED
      BY <1>5, <2>1, <3>2
  <2>2. sorted[0] \in Good[0]
    BY <1>1, <1>4, <1>13
  <2> QED
    BY <1>1, <2>1, <2>2, LoopInvariant
<1>15. /\ sorted[N] \in Seq(Recs) /\ IsInjective(sorted[N]) /\ Descending(sorted[N], W)
       /\ ToSet(sorted[N]) = Seen(N) /\ Len(sorted[N]) = N
  BY <1>1, <1>14 DEF Good, X
<1>16. Seen(N) = ToSet(recs)
  BY <1>1 DEF Seen, ToSet
<1> QED
  BY <1>2, <1>15, <1>16 DEF AreSorted, N, W

\* i elements do not fit into fewer places.
LEMMA TwoInOnePlace ==
  ASSUME NEW n \in Nat, NEW m \in Nat, m < n, NEW f \in [1..n -> 1..m]
  PROVE  \E k, l \in 1..n : k # l /\ f[k] = f[l]
<1> DEFINE S == 1..n
           T == 1..m
<1>1. IsFiniteSet(S) /\ IsFiniteSet(T) /\ Cardinality(S) = n /\ Cardinality(T) = m
  BY FS_Interval
<1>2. Cardinality(T) < Cardinality(S) /\ f \in [S -> T]
  BY <1>1
<1> HIDE DEF S, T
<1>3. \E k, l \in S : k # l /\ f[k] = f[l]
  BY <1>1, <1>2, FS_PigeonHole, SMTT(30)
<1> QED
  BY <1>3 DEF S

LEMMA TooFewPlaces ==
  ASSUME NEW s \in Seq(Recs), IsInjective(s), NEW t \in Seq(Recs), NEW i \in 1..Len(s),
         \A k \in 1..i : \E l \in 1..Len(t) : l < i /\ s[k] = t[l]
  PROVE  FALSE
<1> DEFINE Place == [k \in 1..i |-> CHOOSE l \in 1..Len(t) : l < i /\ s[k] = t[l]]
<1>1. i \in Nat /\ i - 1 \in Nat /\ Len(s) \in Nat /\ Len(t) \in Nat /\ i <= Len(s)
  BY SMTT(30)
<1>2. \A k \in 1..i : Place[k] \in 1..Len(t) /\ Place[k] < i /\ s[k] = t[Place[k]]
  OBVIOUS
<1> HIDE DEF Place
<1>3. \A k, l \in 1..i : Place[k] = Place[l] => k = l
  <2>1. \A k \in 1..i : k \in DOMAIN s
    BY <1>1
  <2>2. ASSUME NEW k \in 1..i, NEW l \in 1..i, Place[k] = Place[l]
        PROVE  k = l
    <3>1. s[k] = s[l] /\ k \in DOMAIN s /\ l \in DOMAIN s
      BY <1>2, <2>1, <2>2
    <3> QED
      BY <3>1 DEF IsInjective
  <2> QED
    BY <2>2
<1>4. ASSUME NEW k \in 1..i
      PROVE  Place[k] \in 1..(i - 1)
  <2> DEFINE p == Place[k]
  <2>1. p \in 1..Len(t) /\ p < i
    BY <1>2
  <2> HIDE DEF p
  <2>2. p \in Nat /\ p >= 1 /\ p <= i - 1
    BY <1>1, <2>1
  <2>3. p \in 1..(i - 1)
    BY <1>1, <2>2
  <2> QED
    BY <2>3 DEF p
<1>5. Place \in [1..i -> 1..(i - 1)]
  BY <1>4 DEF Place
<1>6. \E k, l \in 1..i : k # l /\ Place[k] = Place[l]
  <2> DEFINE m == i - 1
  <2>1. i \in Nat /\ m \in Nat /\ m < i
    BY <1>1
  <2>2. Place \in [1..i -> 1..m]
    BY <1>5
  <2> HIDE DEF m
  <2> QED
    BY <2>1, <2>2, TwoInOnePlace
<1> QED
  BY <1>3, <1>6

\* The limited answer weighs what the sorted one does, place by place.
LEMMA BestWeighSame ==
  ASSUME NEW recs \in Seq(Recs), NEW W \in [Recs -> Int], NEW k, NEW best, NEW all,
         AreBest(best, recs, W, k), AreSorted(all, recs, W), NEW i \in 1..Len(best),
         Len(best) <= Len(all)
  PROVE  W[best[i]] = W[all[i]]
<1> DEFINE n == Len(best)
           N == Len(all)
<1>1. /\ best \in Seq(Recs) /\ IsInjective(best) /\ Descending(best, W)
      /\ ToSet(best) \subseteq ToSet(all)
      /\ \A rec \in ToSet(all) \ ToSet(best), s \in ToSet(best) : W[rec] <= W[s]
      /\ all \in Seq(Recs) /\ IsInjective(all) /\ Descending(all, W)
  BY DEF AreBest, AreSorted
<1>2. n \in Nat /\ N \in Nat /\ i \in 1..N /\ i \in 1..n /\ DOMAIN best = 1..n /\ DOMAIN all = 1..N
  BY <1>1
<1> HIDE DEF n, N
<1>3. /\ \A s : s \in ToSet(best) <=> \E j \in 1..n : s = best[j]
      /\ \A s : s \in ToSet(all) <=> \E j \in 1..N : s = all[j]
  BY <1>2 DEF ToSet
<1>4. /\ \A j \in 1..n : best[j] \in Recs /\ W[best[j]] \in Int
      /\ \A j \in 1..N : all[j] \in Recs /\ W[all[j]] \in Int
  BY <1>1, <1>2
<1>5. /\ \A j, l \in 1..n : j < l => W[best[j]] >= W[best[l]]
      /\ \A j, l \in 1..N : j < l => W[all[j]] >= W[all[l]]
  BY <1>1, <1>2 DEF Descending
<1>6. ASSUME W[best[i]] < W[all[i]]
      PROVE  FALSE
  <2>1. ASSUME NEW j \in 1..i
        PROVE  \E l \in 1..n : l < i /\ all[j] = best[l]
    <3>1. j \in 1..N /\ (j < i \/ j = i)
      BY <1>2
    <3>2. W[all[j]] > W[best[i]]
      BY <1>2, <1>4, <1>5, <1>6, <3>1
    <3>3. best[i] \in ToSet(best) /\ all[j] \in ToSet(all)
      BY <1>2, <1>3, <3>1
    <3>4. all[j] \in ToSet(best)
      <4>1. ~ (W[all[j]] <= W[best[i]])
        BY <1>2, <1>4, <3>1, <3>2
      <4> QED
        BY <1>1, <3>3, <4>1
    <3>5. PICK l \in 1..n : all[j] = best[l]
      BY <1>3, <3>4
    <3>6. l < i
      <4>1. SUFFICES ASSUME l = i \/ i < l PROVE FALSE
        BY <1>2
      <4>2. W[best[l]] <= W[best[i]]
        BY <1>2, <1>4, <1>5, <4>1
      <4> QED
        BY <1>2, <1>4, <3>2, <3>5, <4>2
    <3> QED
      BY <3>5, <3>6
  <2> QED
    BY <1>1, <1>2, <2>1, TooFewPlaces DEF n, N
<1>7. ASSUME W[best[i]] > W[all[i]]
      PROVE  FALSE
  <2>1. ASSUME NEW j \in 1..i
        PROVE  \E l \in 1..N : l < i /\ best[j] = all[l]
    <3>1. j \in 1..n /\ (j < i \/ j = i)
      BY <1>2
    <3>2. W[best[j]] > W[all[i]]
      BY <1>2, <1>4, <1>5, <1>7, <3>1
    <3>3. best[j] \in ToSet(all)
      BY <1>1, <1>3, <3>1
    <3>4. PICK l \in 1..N : best[j] = all[l]
      BY <1>3, <3>3
    <3>5. l < i
      <4>1. SUFFICES ASSUME l = i \/ i < l PROVE FALSE
        BY <1>2
      <4>2. W[all[l]] <= W[all[i]]
        BY <1>2, <1>4, <1>5, <4>1
      <4> QED
        BY <1>2, <1>4, <3>2, <3>4, <4>2
    <3> QED
      BY <3>4, <3>5
  <2> QED
    BY <1>1, <1>2, <2>1, TooFewPlaces DEF n, N
<1> QED
  BY <1>2, <1>4, <1>6, <1>7

------------------------------------------------------------------------------
(* Find with a field to sort by *)

\* Without a filter Find reads every live record.
LEMMA AllMatched ==
  ASSUME IInv
  PROVE  LET recs == Matched(ix, <<>>)
         IN  /\ recs \in Seq(Recs) /\ IsInjective(recs)
             /\ ToSet(recs) = Live /\ Len(recs) = Cardinality(Live)
<1>1. Candidates(ix, <<>>) = Scan(primary)
  <2>1. Len(<<>>) # 1 /\ ix.primary = primary
    BY DEF ix
  <2> QED
    BY <2>1 DEF Candidates
<1>2. \A rec : MatchesAll(rec, <<>>)
  BY DEF MatchesAll
<1>3. Matched(ix, <<>>) = Matching(Scan(primary), <<>>)
  BY <1>1 DEF Matched
<1> QED
  BY <1>2, <1>3, ScanReads, MatchedAre

\* A field, a direction and a limit are answered by the heap, and no limit by the sort.
LEMMA RequestsPick ==
  ASSUME NEW field, field # NoField, NEW asc, NEW limit \in Nat
  PROVE  LET recs == Matched(ix, <<>>)
         IN  ExecuteFind(ix, Request(field, asc, limit)) =
               IF limit > 0 THEN TopK(recs, field, asc, limit) ELSE SortAll(recs, field, asc)
<1> DEFINE req == Request(field, asc, limit)
           recs == Matched(ix, <<>>)
<1>1. /\ req.filters = <<>> /\ req.sortBy = field /\ req.sortAsc = asc
      /\ req.limit = limit /\ req.projection = {}
  BY DEF Request
<1> HIDE DEF req
<1>2. ExecuteFind(ix, req) = Picks(recs, req)
  BY <1>1 DEF ExecuteFind, Projected
<1> HIDE DEF recs
<1>3. CASE limit > 0
  <2>1. Picks(recs, req) = TopK(recs, field, asc, limit)
    BY <1>1, <1>3 DEF Picks
  <2> QED
    BY <1>2, <1>3, <2>1 DEF recs, req
<1>4. CASE ~ (limit > 0)
  <2>1. Picks(recs, req) = SortAll(recs, field, asc)
    BY <1>1, <1>4 DEF Picks
  <2> QED
    BY <1>2, <1>4, <2>1 DEF recs, req
<1> QED
  BY <1>3, <1>4

LEMMA BestAmongLive ==
  ASSUME IInv, NEW f \in Fields \ {NoField}, NEW asc \in BOOLEAN
  PROVE  LET all == ExecuteFind(ix, Request(f, asc, 0))
             W == Weights(f, asc)
         IN  /\ all \in Seq(Recs) /\ Descending(all, W)
             /\ ToSet(all) = Live /\ Len(all) = Cardinality(Live) /\ Len(all) \in Nat
             /\ \A limit \in Nat \ {0} :
                  LET best == ExecuteFind(ix, Request(f, asc, limit))
                  IN  /\ best \in Seq(Recs)
                      /\ Len(best) = IF limit < Len(all) THEN limit ELSE Len(all)
                      /\ Len(best) = Cardinality(ToSet(best))
                      /\ ToSet(best) \subseteq Live
                      /\ \A i \in 1..Len(best) : W[best[i]] = W[all[i]]
<1> DEFINE recs == Matched(ix, <<>>)
           W == Weights(f, asc)
           all == ExecuteFind(ix, Request(f, asc, 0))
<1>1. /\ recs \in Seq(Recs) /\ IsInjective(recs)
      /\ ToSet(recs) = Live /\ Len(recs) = Cardinality(Live)
  BY AllMatched
<1>2. W \in [Recs -> Int]
  BY WeightsTyped
<1>3. /\ all = SortAll(recs, f, asc)
      /\ \A limit \in Nat \ {0} :
           ExecuteFind(ix, Request(f, asc, limit)) = TopK(recs, f, asc, limit)
  <2>1. f # NoField /\ 0 \in Nat /\ ~ (0 > 0) /\ \A limit \in Nat \ {0} : limit \in Nat /\ limit > 0
    OBVIOUS
  <2> QED
    BY <2>1, RequestsPick
<1> HIDE DEF recs
<1>4. AreSorted(all, recs, W)
  BY <1>1, <1>3, SortAllSorts
<1> HIDE DEF all
<1>5. /\ all \in Seq(Recs) /\ Descending(all, W)
      /\ ToSet(all) = Live /\ Len(all) = Cardinality(Live) /\ Len(all) \in Nat
      /\ Len(all) = Len(recs)
  BY <1>1, <1>4 DEF AreSorted
<1>6. ASSUME NEW limit \in Nat \ {0}
      PROVE  LET best == ExecuteFind(ix, Request(f, asc, limit))
             IN  /\ best \in Seq(Recs)
                 /\ Len(best) = IF limit < Len(all) THEN limit ELSE Len(all)
                 /\ Len(best) = Cardinality(ToSet(best))
                 /\ ToSet(best) \subseteq Live
                 /\ \A i \in 1..Len(best) : W[best[i]] = W[all[i]]
  <2> DEFINE best == ExecuteFind(ix, Request(f, asc, limit))
  <2>1. AreBest(best, recs, W, limit)
    <3>1. limit \in Nat /\ limit >= 1
      OBVIOUS
    <3>2. AreBest(TopK(recs, f, asc, limit), recs, W, limit)
      BY <1>1, <3>1, TopKIsBest
    <3> QED
      BY <1>3, <3>2
  <2> HIDE DEF best, W
  <2>2. /\ best \in Seq(Recs) /\ IsInjective(best) /\ ToSet(best) \subseteq ToSet(recs)
        /\ Len(best) = IF Len(recs) < limit THEN Len(recs) ELSE limit
    BY <2>1 DEF AreBest
  <2>3. Len(best) = IF limit < Len(all) THEN limit ELSE Len(all)
    BY <1>5, <2>2
  <2>4. Len(best) <= Len(all)
    BY <1>5, <2>3
  <2>5. Len(best) = Cardinality(ToSet(best))
    BY <2>2, InjectiveLength
  <2>6. \A i \in 1..Len(best) : W[best[i]] = W[all[i]]
    BY <1>1, <1>2, <1>4, <2>1, <2>4, BestWeighSame
  <2> QED
    BY <1>1, <2>2, <2>3, <2>5, <2>6 DEF best
<1> QED
  BY <1>5, <1>6 DEF all

\* Find with a field to sort by answers every live record in order, and with a limit as
\* many of the best as there are: the heap of topK in engine/query.go throws away none
\* that the insertion sort of sortAll puts in front.
THEOREM BestComeFirst ==
  Spec => []BestFirst
<1>1. IInv => BestFirst
  <2> SUFFICES ASSUME IInv, NEW f \in Fields \ {NoField}, NEW asc \in BOOLEAN
               PROVE  LET all == ExecuteFind(ix, Request(f, asc, 0))
                          Value(rec) == NumOf(rec, f)
                      IN  /\ ToSet(all) = Live /\ Len(all) = Cardinality(Live)
                          /\ \A i, j \in DOMAIN all :
                               i < j => IF asc THEN Value(all[i]) <= Value(all[j])
                                               ELSE Value(all[i]) >= Value(all[j])
                          /\ \A limit \in 1..(Cardinality(Live) + 1) :
                               LET best == ExecuteFind(ix, Request(f, asc, limit))
                               IN  /\ Len(best) = IF limit < Len(all) THEN limit ELSE Len(all)
                                   /\ Len(best) = Cardinality(ToSet(best))
                                   /\ ToSet(best) \subseteq Live
                                   /\ \A i \in DOMAIN best : Value(best[i]) = Value(all[i])
    BY Zenon DEF BestFirst
  <2> DEFINE all == ExecuteFind(ix, Request(f, asc, 0))
             W == Weights(f, asc)
             best(limit) == ExecuteFind(ix, Request(f, asc, limit))
             Value(rec) == NumOf(rec, f)
  <2>1. /\ all \in Seq(Recs) /\ Descending(all, W)
        /\ ToSet(all) = Live /\ Len(all) = Cardinality(Live) /\ Len(all) \in Nat
        /\ \A limit \in Nat \ {0} :
             /\ best(limit) \in Seq(Recs)
             /\ Len(best(limit)) = IF limit < Len(all) THEN limit ELSE Len(all)
             /\ Len(best(limit)) = Cardinality(ToSet(best(limit)))
             /\ ToSet(best(limit)) \subseteq Live
             /\ \A i \in 1..Len(best(limit)) : W[best(limit)[i]] = W[all[i]]
    BY BestAmongLive
  <2>2. \A rec \in Recs : W[rec] = (IF asc THEN - Value(rec) ELSE Value(rec)) /\ Value(rec) \in Int
    <3>1. Weights(f, FALSE) \in [Recs -> Int]
      BY WeightsTyped
    <3>2. \A rec \in Recs : Weights(f, FALSE)[rec] = Value(rec)
      BY DEF Weights
    <3> QED
      BY <3>1, <3>2 DEF Weights
  <2> HIDE DEF all, W, best, Value
  <2>3. DOMAIN all = 1..Len(all) /\ \A i \in 1..Len(all) : all[i] \in Recs
    BY <2>1
  <2>4. ASSUME NEW i \in DOMAIN all, NEW j \in DOMAIN all, i < j
        PROVE  IF asc THEN Value(all[i]) <= Value(all[j]) ELSE Value(all[i]) >= Value(all[j])
    <3>1. W[all[i]] >= W[all[j]] /\ all[i] \in Recs /\ all[j] \in Recs
      BY <2>1, <2>3, <2>4 DEF Descending
    <3> QED
      BY <2>2, <3>1
  <2>5. ASSUME NEW limit \in 1..(Cardinality(Live) + 1)
        PROVE  /\ Len(best(limit)) = IF limit < Len(all) THEN limit ELSE Len(all)
               /\ Len(best(limit)) = Cardinality(ToSet(best(limit)))
               /\ ToSet(best(limit)) \subseteq Live
               /\ \A i \in DOMAIN best(limit) : Value(best(limit)[i]) = Value(all[i])
    <3> DEFINE b == best(limit)
    <3>1. limit \in Nat \ {0}
      BY <2>1
    <3>2. /\ b \in Seq(Recs)
          /\ Len(b) = IF limit < Len(all) THEN limit ELSE Len(all)
          /\ Len(b) = Cardinality(ToSet(b)) /\ ToSet(b) \subseteq Live
          /\ \A i \in 1..Len(b) : W[b[i]] = W[all[i]]
      BY <2>1, <3>1
    <3> HIDE DEF b
    <3>3. ASSUME NEW i \in DOMAIN b
          PROVE  Value(b[i]) = Value(all[i])
      <4>1. i \in 1..Len(b) /\ b[i] \in Recs /\ i \in 1..Len(all)
        BY <2>1, <3>1, <3>2
      <4>2. W[b[i]] = W[all[i]] /\ all[i] \in Recs
        BY <2>3, <3>2, <4>1
      <4> QED
        BY <2>2, <4>1, <4>2
    <3> QED
      BY <3>2, <3>3 DEF b
  <2> QED
    BY <2>1, <2>4, <2>5 DEF all, best, Value
<1> QED
  BY <1>1, IndexesHold, PTL

------------------------------------------------------------------------------
(* The words of the shell *)

\* The least of a set of numbers.
LEMMA LeastIsMin ==
  ASSUME NEW T \in SUBSET Int, NEW m \in T, \A x \in T : m <= x
  PROVE  T # {} /\ Min(T) = m
<1>1. Min(T) \in T /\ \A y \in T : Min(T) <= y
  BY DEF Min
<1>2. Min(T) \in Int /\ m \in Int /\ Min(T) <= m /\ m <= Min(T)
  BY <1>1
<1> QED
  BY <1>2

\* Sequences of one and of two elements.
LEMMA OneLong ==
  ASSUME NEW X, NEW s \in Seq(X), Len(s) = 1
  PROVE  s = <<s[1]>>
<1>1. s = [i \in 1..1 |-> s[i]] /\ <<s[1]>> = [i \in 1..1 |-> s[1]]
  OBVIOUS
<1> QED
  BY <1>1

LEMMA TwoLong ==
  ASSUME NEW X, NEW s \in Seq(X), Len(s) = 2
  PROVE  s = <<s[1], s[2]>>
<1>1. s = [i \in 1..2 |-> s[i]] /\ <<s[1], s[2]>> = [i \in 1..2 |-> IF i = 1 THEN s[1] ELSE s[2]]
  OBVIOUS
<1>2. \A i \in 1..2 : s[i] = IF i = 1 THEN s[1] ELSE s[2]
  OBVIOUS
<1> QED
  BY <1>1, <1>2

\* Where a symbol stands: at the first place that has its parts, if there is one.
LEMMA PositionOfOne ==
  ASSUME NEW X, NEW word \in Seq(X), NEW c
  PROVE  LET I == {i \in 1..Len(word) : word[i] = c}
         IN  Position(word, <<c>>) = IF I # {} THEN Min(I) ELSE 0
<1> DEFINE N == Len(word)
           F == [i \in 1..N |-> SubSeq(word, i, i)]
           I == {i \in 1..N : word[i] = c}
           J == {i \in 1..Len(F) : F[i] = <<c>>}
<1>1. N \in Nat
  OBVIOUS
<1>2. \A i \in 1..N : SubSeq(word, i, i) = <<word[i]>>
  <2>1. TAKE i \in 1..N
  <2>2. /\ SubSeq(word, i, i) \in Seq(X) /\ Len(SubSeq(word, i, i)) = 1
        /\ SubSeq(word, i, i)[1] = word[i]
    BY SubSeqProperties
  <2> QED
    BY <2>2, OneLong
<1>3. Len(F) = N
  <2>1. F \in [1..N -> Seq(X)]
    BY SubSeqProperties
  <2> QED
    BY <1>1, <2>1
<1>4. J = I
  BY <1>2, <1>3
<1>5. Position(word, <<c>>) = IF J # {} THEN Min(J) ELSE 0
  <2>1. Len(<<c>>) = 1 /\ (N - 1) + 1 = N /\ \A i \in 1..N : (i + 1) - 1 = i
    BY <1>1
  <2> DEFINE sym == <<c>>
             G == [i \in 1..(N - Len(sym) + 1) |-> SubSeq(word, i, i + Len(sym) - 1)]
             L == {i \in 1..Len(G) : G[i] = sym}
  <2>2. G = F
    BY <2>1
  <2>3. Position(word, sym) = IF L # {} THEN Min(L) ELSE 0
    <3> HIDE DEF sym
    <3> QED
      BY DEF Position, SelectInSeq
  <2> HIDE DEF F, G
  <2> QED
    BY <2>2, <2>3
<1> QED
  BY <1>4, <1>5

LEMMA PositionOfTwo ==
  ASSUME NEW X, NEW word \in Seq(X), Len(word) >= 1, NEW a, NEW b
  PROVE  LET I == {i \in 1..(Len(word) - 1) : word[i] = a /\ word[i + 1] = b}
         IN  Position(word, <<a, b>>) = IF I # {} THEN Min(I) ELSE 0
<1> DEFINE N == Len(word)
           F == [i \in 1..(N - 1) |-> SubSeq(word, i, i + 1)]
           I == {i \in 1..(N - 1) : word[i] = a /\ word[i + 1] = b}
           J == {i \in 1..Len(F) : F[i] = <<a, b>>}
<1>1. N \in Nat /\ N - 1 \in Nat
  OBVIOUS
<1>2. \A i \in 1..(N - 1) : SubSeq(word, i, i + 1) = <<word[i], word[i + 1]>>
  <2>1. TAKE i \in 1..(N - 1)
  <2>2. i \in 1..N /\ i + 1 \in i..N
    BY <1>1
  <2>3. /\ SubSeq(word, i, i + 1) \in Seq(X) /\ Len(SubSeq(word, i, i + 1)) = 2
        /\ SubSeq(word, i, i + 1)[1] = word[i] /\ SubSeq(word, i, i + 1)[2] = word[i + 1]
    BY <2>2, SubSeqProperties
  <2> QED
    BY <2>3, TwoLong
<1>3. Len(F) = N - 1
  <2>1. \A i \in 1..(N - 1) : SubSeq(word, i, i + 1) \in Seq(X)
    <3>1. \A i \in 1..(N - 1) : i \in 1..N /\ i + 1 \in i..N
      BY <1>1
    <3> QED
      BY <3>1, SubSeqProperties
  <2>2. F \in [1..(N - 1) -> Seq(X)]
    BY <2>1
  <2> QED
    BY <1>1, <2>2
<1>4. J = I
  BY <1>2, <1>3
<1>5. Position(word, <<a, b>>) = IF J # {} THEN Min(J) ELSE 0
  <2>1. Len(<<a, b>>) = 2 /\ (N - 2) + 1 = N - 1 /\ \A i \in 1..(N - 1) : (i + 2) - 1 = i + 1
    BY <1>1
  <2> DEFINE sym == <<a, b>>
             G == [i \in 1..(N - Len(sym) + 1) |-> SubSeq(word, i, i + Len(sym) - 1)]
             L == {i \in 1..Len(G) : G[i] = sym}
  <2>2. G = F
    BY <2>1
  <2>3. Position(word, sym) = IF L # {} THEN Min(L) ELSE 0
    <3> HIDE DEF sym
    <3> QED
      BY DEF Position, SelectInSeq
  <2> HIDE DEF F, G
  <2> QED
    BY <2>2, <2>3
<1> QED
  BY <1>4, <1>5

\* The operator of a word is the first of FilterOps that has something on both sides.
Reads(word, n) == Position(word, FilterOps[n].symbol) > 1 /\ After(word, FilterOps[n]) # <<>>

\* The operators, in their order.
LEMMA FilterOpsAre ==
  /\ Len(FilterOps) = 5
  /\ FilterOps[1] = Spelled(<<">", "=">>, "gte") /\ FilterOps[2] = Spelled(<<"<", "=">>, "lte")
  /\ FilterOps[3] = Spelled(<<">">>, "gt") /\ FilterOps[4] = Spelled(<<"<">>, "lt")
  /\ FilterOps[5] = Spelled(<<"=">>, "eq")
BY DEF FilterOps

\* ParseFilterToken by the first operator that reads.
LEMMA TokenIs ==
  ASSUME NEW word
  PROVE  LET R == {n \in 1..5 : Reads(word, n)}
             k == IF R # {} THEN Min(R) ELSE 0
             spec == FilterOps[k]
             raw == Joined(After(word, spec))
             Filter(value) == [field |-> Joined(Before(word, spec)), op |-> spec.op, value |-> value]
         IN  ParseFilterToken(word) =
               CASE k = 0 -> Refused
                 [] k # 0 /\ spec.op = "eq" -> <<Filter(raw)>>
                 [] k # 0 /\ spec.op # "eq" /\ raw \in DOMAIN Number -> <<Filter(Number[raw])>>
                 [] OTHER -> Refused
BY FilterOpsAre, Zenon DEF ParseFilterToken, SelectInSeq, Reads

\* The first operator that reads is the one, ...
LEMMA TokenRead ==
  ASSUME NEW word, NEW k \in 1..5, Reads(word, k), \A n \in 1..(k - 1) : ~ Reads(word, n)
  PROVE  LET spec == FilterOps[k]
             raw == Joined(After(word, spec))
             Filter(value) == [field |-> Joined(Before(word, spec)), op |-> spec.op, value |-> value]
         IN  ParseFilterToken(word) =
               IF spec.op = "eq" THEN <<Filter(raw)>>
               ELSE IF raw \in DOMAIN Number THEN <<Filter(Number[raw])>>
               ELSE Refused
<1> DEFINE R == {n \in 1..5 : Reads(word, n)}
<1>1. R \in SUBSET Int /\ k \in R /\ \A n \in R : k <= n
  <2>1. \A n \in 1..5 : n <= k - 1 => n \in 1..(k - 1)
    OBVIOUS
  <2> QED
    BY <2>1
<1>2. R # {} /\ Min(R) = k /\ k # 0
  BY <1>1, LeastIsMin
<1> HIDE DEF R
<1> DEFINE spec == FilterOps[k]
           raw == Joined(After(word, spec))
           Filter(value) == [field |-> Joined(Before(word, spec)), op |-> spec.op, value |-> value]
<1>3. ParseFilterToken(word) =
         CASE k = 0 -> Refused
           [] k # 0 /\ spec.op = "eq" -> <<Filter(raw)>>
           [] k # 0 /\ spec.op # "eq" /\ raw \in DOMAIN Number -> <<Filter(Number[raw])>>
           [] OTHER -> Refused
  BY <1>2, TokenIs, Zenon DEF R
<1> HIDE DEF raw, Filter
<1> QED
  BY <1>2, <1>3 DEF raw, Filter

\* ... and without one the word is refused.
LEMMA TokenUnread ==
  ASSUME NEW word, \A n \in 1..5 : ~ Reads(word, n)
  PROVE  ParseFilterToken(word) = Refused
<1> DEFINE R == {n \in 1..5 : Reads(word, n)}
<1>1. R = {}
  OBVIOUS
<1> HIDE DEF R
<1> DEFINE k == IF R # {} THEN Min(R) ELSE 0
<1>2. k = 0
  BY <1>1
<1> HIDE DEF k
<1> DEFINE spec == FilterOps[k]
           raw == Joined(After(word, spec))
           Filter(value) == [field |-> Joined(Before(word, spec)), op |-> spec.op, value |-> value]
<1>3. ParseFilterToken(word) =
         CASE k = 0 -> Refused
           [] k # 0 /\ spec.op = "eq" -> <<Filter(raw)>>
           [] k # 0 /\ spec.op # "eq" /\ raw \in DOMAIN Number -> <<Filter(Number[raw])>>
           [] OTHER -> Refused
  BY TokenIs, Zenon DEF k, R
<1> HIDE DEF raw, Filter, spec
<1> QED
  BY <1>2, <1>3

\* What stands behind the operator, and that there is something.
LEMMA BehindIs ==
  ASSUME NEW X, NEW word \in Seq(X), NEW q \in 3..4, Len(word) >= 2
  PROVE  /\ SubSeq(word, q, Len(word)) # <<>> <=> Len(word) >= q
         /\ Len(word) = q => SubSeq(word, q, Len(word)) = <<word[q]>>
<1>1. Len(word) \in Nat /\ \A i \in 1..Len(word) : word[i] \in X
  OBVIOUS
<1>2. CASE Len(word) >= q
  <2>1. q \in 1..Len(word) /\ Len(word) \in q..Len(word)
    BY <1>1, <1>2
  <2> DEFINE s == SubSeq(word, q, Len(word))
  <2>2. s \in Seq(X) /\ Len(s) = Len(word) - q + 1 /\ (Len(word) = q => s[1] = word[q])
    BY <2>1, SubSeqProperties
  <2> HIDE DEF s
  <2>3. s # <<>>
    BY <1>1, <1>2, <2>2
  <2>4. Len(word) = q => s = <<s[1]>>
    BY <2>2, OneLong
  <2> QED
    BY <1>2, <2>2, <2>3, <2>4 DEF s
<1>3. CASE ~ (Len(word) >= q)
  <2>1. SubSeq(word, q, Len(word)) = <<>>
    BY <1>1, <1>3
  <2> QED
    BY <1>1, <1>3, <2>1
<1> QED
  BY <1>2, <1>3

\* The first part by itself.
LEMMA FirstAlone ==
  ASSUME NEW X, NEW word \in Seq(X), Len(word) >= 1
  PROVE  SubSeq(word, 1, 1) = <<word[1]>>
<1> DEFINE s == SubSeq(word, 1, 1)
<1>1. s \in Seq(X) /\ Len(s) = 1 /\ s[1] = word[1]
  BY SubSeqProperties
<1> HIDE DEF s
<1> QED
  BY <1>1, OneLong DEF s

\* An operator of one character in the second place, in the first, or nowhere.
LEMMA ReadsOne ==
  ASSUME NEW X, NEW word \in Seq(X), Len(word) >= 1, NEW n, NEW c, FilterOps[n].symbol = <<c>>
  PROVE  /\ (\A i \in 1..Len(word) : word[i] # c) => ~ Reads(word, n)
         /\ word[1] = c => ~ Reads(word, n)
         /\ Len(word) >= 2 /\ word[1] # c /\ word[2] = c =>
              /\ Reads(word, n) <=> Len(word) >= 3
              /\ Before(word, FilterOps[n]) = <<word[1]>>
              /\ Len(word) = 3 => After(word, FilterOps[n]) = <<word[3]>>
<1> DEFINE p == Position(word, FilterOps[n].symbol)
           N == Len(word)
           I == {i \in 1..N : word[i] = c}
<1>1. N \in Nat /\ N >= 1
  OBVIOUS
<1>2. p = IF I # {} THEN Min(I) ELSE 0
  BY PositionOfOne
<1>3. /\ Reads(word, n) <=> p > 1 /\ SubSeq(word, p + 1, N) # <<>>
      /\ Before(word, FilterOps[n]) = SubSeq(word, 1, p - 1)
      /\ After(word, FilterOps[n]) = SubSeq(word, p + 1, N)
  <2>1. Len(<<c>>) = 1
    OBVIOUS
  <2> QED
    BY <2>1 DEF Reads, Before, After
<1> HIDE DEF p, N
<1>4. ASSUME \A i \in 1..N : word[i] # c
      PROVE  ~ Reads(word, n)
  <2>1. p = 0
    BY <1>2, <1>4
  <2> QED
    BY <1>3, <2>1
<1>5. ASSUME word[1] = c
      PROVE  ~ Reads(word, n)
  <2>1. I \in SUBSET Int /\ 1 \in I /\ \A i \in I : 1 <= i
    BY <1>1, <1>5
  <2> HIDE DEF I
  <2>2. p = 1
    BY <1>2, <2>1, LeastIsMin
  <2> QED
    BY <1>3, <2>2
<1>6. ASSUME N >= 2, word[1] # c, word[2] = c
      PROVE  /\ Reads(word, n) <=> N >= 3
             /\ Before(word, FilterOps[n]) = <<word[1]>>
             /\ N = 3 => After(word, FilterOps[n]) = <<word[3]>>
  <2>1. I \in SUBSET Int /\ 2 \in I /\ \A i \in I : 2 <= i
    BY <1>1, <1>6
  <2> HIDE DEF I
  <2>2. p = 2
    BY <1>2, <2>1, LeastIsMin
  <2>3. p + 1 = 3 /\ p - 1 = 1
    BY <2>2
  <2>4. /\ SubSeq(word, 3, N) # <<>> <=> N >= 3
        /\ N = 3 => SubSeq(word, 3, N) = <<word[3]>>
    BY <1>6, BehindIs DEF N
  <2>5. SubSeq(word, 1, 1) = <<word[1]>>
    BY FirstAlone
  <2> QED
    BY <1>3, <2>2, <2>3, <2>4, <2>5
<1> QED
  BY <1>4, <1>5, <1>6 DEF N

\* One of two characters, the second of which is =, in the second place or nowhere.
LEMMA ReadsTwo ==
  ASSUME NEW X, NEW word \in Seq(X), Len(word) >= 1, NEW n, NEW a, NEW b,
         FilterOps[n].symbol = <<a, b>>
  PROVE  /\ (\A i \in 2..Len(word) : word[i] = b => word[i - 1] # a) => ~ Reads(word, n)
         /\ Len(word) >= 3 /\ word[1] # a /\ word[2] = a /\ word[3] = b =>
              /\ Reads(word, n) <=> Len(word) >= 4
              /\ Before(word, FilterOps[n]) = <<word[1]>>
              /\ Len(word) = 4 => After(word, FilterOps[n]) = <<word[4]>>
<1> DEFINE p == Position(word, FilterOps[n].symbol)
           N == Len(word)
           I == {i \in 1..(N - 1) : word[i] = a /\ word[i + 1] = b}
<1>1. N \in Nat /\ N >= 1
  OBVIOUS
<1>2. p = IF I # {} THEN Min(I) ELSE 0
  BY PositionOfTwo
<1>3. /\ Reads(word, n) <=> p > 1 /\ SubSeq(word, p + 2, N) # <<>>
      /\ Before(word, FilterOps[n]) = SubSeq(word, 1, p - 1)
      /\ After(word, FilterOps[n]) = SubSeq(word, p + 2, N)
  <2>1. Len(<<a, b>>) = 2
    OBVIOUS
  <2> QED
    BY <2>1 DEF Reads, Before, After
<1> HIDE DEF p, N
<1>4. ASSUME \A i \in 2..N : word[i] = b => word[i - 1] # a
      PROVE  ~ Reads(word, n)
  <2>1. \A i \in 1..(N - 1) : i + 1 \in 2..N /\ (i + 1) - 1 = i
    BY <1>1
  <2>2. I = {}
    BY <1>4, <2>1
  <2>3. p = 0
    BY <1>2, <2>2
  <2> QED
    BY <1>3, <2>3
<1>5. ASSUME N >= 3, word[1] # a, word[2] = a, word[3] = b
      PROVE  /\ Reads(word, n) <=> N >= 4
             /\ Before(word, FilterOps[n]) = <<word[1]>>
             /\ N = 4 => After(word, FilterOps[n]) = <<word[4]>>
  <2>1. I \in SUBSET Int /\ 2 \in I /\ \A i \in I : 2 <= i
    BY <1>1, <1>5
  <2> HIDE DEF I
  <2>2. p = 2
    BY <1>2, <2>1, LeastIsMin
  <2>3. p + 2 = 4 /\ p - 1 = 1
    BY <2>2
  <2>4. /\ SubSeq(word, 4, N) # <<>> <=> N >= 4
        /\ N = 4 => SubSeq(word, 4, N) = <<word[4]>>
    BY <1>5, BehindIs DEF N
  <2>5. SubSeq(word, 1, 1) = <<word[1]>>
    BY FirstAlone
  <2> QED
    BY <1>3, <2>2, <2>3, <2>4, <2>5
<1> QED
  BY <1>4, <1>5 DEF N

Operators == {"=", "<", ">"}

\* Symbol by symbol.
LEMMA OpsAre ==
  /\ FilterOps[1].symbol = <<">", "=">> /\ FilterOps[2].symbol = <<"<", "=">>
  /\ FilterOps[3].symbol = <<">">> /\ FilterOps[4].symbol = <<"<">>
  /\ FilterOps[5].symbol = <<"=">>
  /\ FilterOps[1].op = "gte" /\ FilterOps[2].op = "lte"
  /\ FilterOps[3].op = "gt" /\ FilterOps[4].op = "lt" /\ FilterOps[5].op = "eq"
BY FilterOpsAre DEF Spelled

\* A condition of three parts.
LEMMA ThreeParts ==
  ASSUME NEW f, NEW v, f \notin Operators, v \notin Operators
  PROVE  /\ ParseFilterToken(<<f, "=", v>>) = <<[field |-> f, op |-> "eq", value |-> v]>>
         /\ ParseFilterToken(<<f, ">", v>>) =
              IF v \in DOMAIN Number THEN <<[field |-> f, op |-> "gt", value |-> Number[v]]>>
              ELSE Refused
         /\ ParseFilterToken(<<f, "<", v>>) =
              IF v \in DOMAIN Number THEN <<[field |-> f, op |-> "lt", value |-> Number[v]]>>
              ELSE Refused
<1> DEFINE X == {f, v} \cup Operators
<1>0. \A x : Joined(<<x>>) = x
  BY DEF Joined
<1>1. ASSUME NEW c \in Operators, NEW word, word = <<f, c, v>>
      PROVE  /\ word \in Seq(X) /\ Len(word) = 3
             /\ word[1] = f /\ word[2] = c /\ word[3] = v
  BY <1>1
<1>2. ASSUME NEW c \in Operators, NEW word, word = <<f, c, v>>
      PROVE  ~ Reads(word, 1) /\ ~ Reads(word, 2)
  <2>1. /\ word \in Seq(X) /\ Len(word) = 3
        /\ word[1] = f /\ word[2] = c /\ word[3] = v
    BY <1>1, <1>2
  <2>2. ASSUME NEW i \in 2..3, word[i] = "="
        PROVE  word[i - 1] # ">" /\ word[i - 1] # "<"
    <3>1. i = 2
      BY <2>1, <2>2 DEF Operators
    <3> QED
      BY <2>1, <3>1 DEF Operators
  <2> HIDE DEF X
  <2>3. ~ Reads(word, 1)
    BY <2>1, <2>2, OpsAre, ReadsTwo
  <2>4. ~ Reads(word, 2)
    BY <2>1, <2>2, OpsAre, ReadsTwo
  <2> QED
    BY <2>3, <2>4
<1>3. ASSUME NEW c \in Operators, NEW word, word = <<f, c, v>>, NEW n, NEW d \in Operators,
             FilterOps[n].symbol = <<d>>
      PROVE  /\ d # c => ~ Reads(word, n)
             /\ d = c => /\ Reads(word, n) /\ Joined(Before(word, FilterOps[n])) = f
                         /\ Joined(After(word, FilterOps[n])) = v
  <2>1. /\ word \in Seq(X) /\ Len(word) = 3
        /\ word[1] = f /\ word[2] = c /\ word[3] = v
    BY <1>1, <1>3
  <2> HIDE DEF X
  <2>0. word \in Seq(X) /\ Len(word) >= 1 /\ FilterOps[n].symbol = <<d>>
    BY <1>3, <2>1
  <2>9. /\ (\A i \in 1..Len(word) : word[i] # d) => ~ Reads(word, n)
        /\ Len(word) >= 2 /\ word[1] # d /\ word[2] = d =>
             /\ Reads(word, n) <=> Len(word) >= 3
             /\ Before(word, FilterOps[n]) = <<word[1]>>
             /\ Len(word) = 3 => After(word, FilterOps[n]) = <<word[3]>>
    BY <2>0, ReadsOne, Zenon
  <2>2. ASSUME d # c PROVE ~ Reads(word, n)
    <3>1. \A i \in 1..3 : i = 1 \/ i = 2 \/ i = 3
      OBVIOUS
    <3>2. \A i \in 1..Len(word) : word[i] # d
      BY <2>1, <2>2, <3>1
    <3> QED
      BY <3>2, <2>9
  <2>3. ASSUME d = c
        PROVE  /\ Reads(word, n) /\ Joined(Before(word, FilterOps[n])) = f
               /\ Joined(After(word, FilterOps[n])) = v
    <3>1. word[1] # d /\ word[2] = d
      BY <2>1, <2>3 DEF Operators
    <3>2. /\ Reads(word, n) /\ Before(word, FilterOps[n]) = <<f>>
          /\ After(word, FilterOps[n]) = <<v>>
      BY <2>1, <3>1, <2>9
    <3> QED
      BY <1>0, <3>2
  <2> QED
    BY <2>2, <2>3
<1> HIDE DEF X
<1>4. ParseFilterToken(<<f, "=", v>>) = <<[field |-> f, op |-> "eq", value |-> v]>>
  <2> DEFINE word == <<f, "=", v>>
  <2>1. "=" \in Operators /\ ">" \in Operators /\ "<" \in Operators
    BY DEF Operators
  <2> HIDE DEF word
  <2>2. ~ Reads(word, 1) /\ ~ Reads(word, 2)
    BY <1>2, <2>1 DEF word
  <2>3. ~ Reads(word, 3) /\ ~ Reads(word, 4)
    BY <1>3, <2>1, OpsAre DEF word
  <2>4. /\ Reads(word, 5) /\ Joined(Before(word, FilterOps[5])) = f
        /\ Joined(After(word, FilterOps[5])) = v
    BY <1>3, <2>1, OpsAre DEF word
  <2>5. \A n \in 1..(5 - 1) : ~ Reads(word, n)
    <3>1. \A n \in 1..(5 - 1) : n = 1 \/ n = 2 \/ n = 3 \/ n = 4
      OBVIOUS
    <3> QED
      BY <2>2, <2>3, <3>1
  <2> QED
    BY <2>4, <2>5, OpsAre, TokenRead DEF word
<1>5. ParseFilterToken(<<f, ">", v>>) =
        IF v \in DOMAIN Number THEN <<[field |-> f, op |-> "gt", value |-> Number[v]]>>
        ELSE Refused
  <2> DEFINE word == <<f, ">", v>>
  <2>1. "=" \in Operators /\ ">" \in Operators /\ "<" \in Operators
    BY DEF Operators
  <2> HIDE DEF word
  <2>2. ~ Reads(word, 1) /\ ~ Reads(word, 2)
    BY <1>2, <2>1 DEF word
  <2>3. /\ Reads(word, 3) /\ Joined(Before(word, FilterOps[3])) = f
        /\ Joined(After(word, FilterOps[3])) = v
    BY <1>3, <2>1, OpsAre DEF word
  <2>4. \A n \in 1..(3 - 1) : ~ Reads(word, n)
    <3>1. \A n \in 1..(3 - 1) : n = 1 \/ n = 2
      OBVIOUS
    <3> QED
      BY <2>2, <3>1
  <2> QED
    BY <2>3, <2>4, OpsAre, TokenRead DEF word
<1>6. ParseFilterToken(<<f, "<", v>>) =
        IF v \in DOMAIN Number THEN <<[field |-> f, op |-> "lt", value |-> Number[v]]>>
        ELSE Refused
  <2> DEFINE word == <<f, "<", v>>
  <2>1. "=" \in Operators /\ ">" \in Operators /\ "<" \in Operators
    BY DEF Operators
  <2> HIDE DEF word
  <2>2. ~ Reads(word, 1) /\ ~ Reads(word, 2)
    BY <1>2, <2>1 DEF word
  <2>3. ~ Reads(word, 3)
    BY <1>3, <2>1, OpsAre DEF word
  <2>4. /\ Reads(word, 4) /\ Joined(Before(word, FilterOps[4])) = f
        /\ Joined(After(word, FilterOps[4])) = v
    BY <1>3, <2>1, OpsAre DEF word
  <2>5. \A n \in 1..(4 - 1) : ~ Reads(word, n)
    <3>1. \A n \in 1..(4 - 1) : n = 1 \/ n = 2 \/ n = 3
      OBVIOUS
    <3> QED
      BY <2>2, <2>3, <3>1
  <2> QED
    BY <2>4, <2>5, OpsAre, TokenRead DEF word
<1> QED
  BY <1>4, <1>5, <1>6

\* A condition of four parts: the operators of two characters come first.
LEMMA FourParts ==
  ASSUME NEW f, NEW v, f \notin Operators, v \notin Operators, v \in DOMAIN Number
  PROVE  /\ ParseFilterToken(<<f, ">", "=", v>>) =
              <<[field |-> f, op |-> "gte", value |-> Number[v]]>>
         /\ ParseFilterToken(<<f, "<", "=", v>>) =
              <<[field |-> f, op |-> "lte", value |-> Number[v]]>>
<1> DEFINE X == {f, v} \cup Operators
<1>0. \A x : Joined(<<x>>) = x
  BY DEF Joined
<1>1. ASSUME NEW c \in Operators, NEW word, word = <<f, c, "=", v>>
      PROVE  /\ word \in Seq(X) /\ Len(word) = 4
             /\ word[1] = f /\ word[2] = c /\ word[3] = "=" /\ word[4] = v
  BY <1>1 DEF Operators
<1>2. ASSUME NEW c \in {"<", ">"}, NEW word, word = <<f, c, "=", v>>, NEW n,
             FilterOps[n].symbol = <<c, "=">>
      PROVE  /\ Reads(word, n) /\ Joined(Before(word, FilterOps[n])) = f
             /\ Joined(After(word, FilterOps[n])) = v
  <2>1. c \in Operators /\ f # c
    BY DEF Operators
  <2>2. /\ word \in Seq(X) /\ Len(word) = 4
        /\ word[1] = f /\ word[2] = c /\ word[3] = "=" /\ word[4] = v
    BY <1>1, <1>2, <2>1
  <2> HIDE DEF X
  <2> DEFINE b == "="
  <2>3. word \in Seq(X) /\ Len(word) >= 1 /\ FilterOps[n].symbol = <<c, b>>
    BY <1>2, <2>2
  <2> HIDE DEF b
  <2>4. Len(word) >= 3 /\ word[1] # c /\ word[2] = c /\ word[3] = b =>
             /\ Reads(word, n) <=> Len(word) >= 4
             /\ Before(word, FilterOps[n]) = <<word[1]>>
             /\ Len(word) = 4 => After(word, FilterOps[n]) = <<word[4]>>
    BY <2>3, ReadsTwo, Zenon
  <2>5. word[3] = b
    BY <2>2 DEF b
  <2>6. Reads(word, n) /\ Before(word, FilterOps[n]) = <<f>> /\ After(word, FilterOps[n]) = <<v>>
    BY <2>1, <2>2, <2>4, <2>5
  <2> QED
    BY <1>0, <2>6
<1>3. ParseFilterToken(<<f, ">", "=", v>>) = <<[field |-> f, op |-> "gte", value |-> Number[v]]>>
  <2> DEFINE word == <<f, ">", "=", v>>
  <2> HIDE DEF word
  <2>1. /\ Reads(word, 1) /\ Joined(Before(word, FilterOps[1])) = f
        /\ Joined(After(word, FilterOps[1])) = v
    BY <1>2, OpsAre DEF word
  <2>2. \A n \in 1..(1 - 1) : ~ Reads(word, n)
    OBVIOUS
  <2> QED
    BY <2>1, <2>2, OpsAre, TokenRead DEF word
<1>4. ParseFilterToken(<<f, "<", "=", v>>) = <<[field |-> f, op |-> "lte", value |-> Number[v]]>>
  <2> DEFINE word == <<f, "<", "=", v>>
  <2>1. "<" \in Operators /\ word = <<f, "<", "=", v>>
    BY DEF Operators
  <2> HIDE DEF word
  <2>2. /\ word \in Seq(X) /\ Len(word) = 4
        /\ word[1] = f /\ word[2] = "<" /\ word[3] = "=" /\ word[4] = v
    BY <1>1, <2>1
  <2>3. ~ Reads(word, 1)
    <3>1. ASSUME NEW i \in 2..4, word[i] = "="
          PROVE  word[i - 1] # ">"
      <4>1. i = 3
        BY <2>2, <3>1 DEF Operators
      <4> QED
        BY <2>2, <4>1
    <3> HIDE DEF X
    <3> QED
      BY <2>2, <3>1, OpsAre, ReadsTwo, SMTT(30)
  <2>4. /\ Reads(word, 2) /\ Joined(Before(word, FilterOps[2])) = f
        /\ Joined(After(word, FilterOps[2])) = v
    BY <1>2, OpsAre DEF word
  <2>5. \A n \in 1..(2 - 1) : ~ Reads(word, n)
    <3>1. \A n \in 1..(2 - 1) : n = 1
      OBVIOUS
    <3> QED
      BY <2>3, <3>1
  <2> QED
    BY <2>4, <2>5, OpsAre, TokenRead DEF word
<1> QED
  BY <1>3, <1>4

\* Words that are no condition.
LEMMA NoCondition ==
  ASSUME NEW f, f \notin Operators
  PROVE  /\ ParseFilterToken(<<f>>) = Refused
         /\ ParseFilterToken(<<f, ">">>) = Refused
         /\ ParseFilterToken(<<f, ">", "=">>) = Refused
         /\ ParseFilterToken(<<">", "1">>) = Refused
<1>0. \A n \in 1..5 : n = 1 \/ n = 2 \/ n = 3 \/ n = 4 \/ n = 5
  OBVIOUS
<1>1. ParseFilterToken(<<f>>) = Refused
  <2> DEFINE word == <<f>>
             X == {f}
  <2>1. word \in Seq(X) /\ Len(word) = 1 /\ word[1] = f
    OBVIOUS
  <2> HIDE DEF word, X
  <2>2. ~ Reads(word, 1) /\ ~ Reads(word, 2)
    BY <2>1, OpsAre, ReadsTwo
  <2>3. \A i \in 1..Len(word) : word[i] # ">" /\ word[i] # "<" /\ word[i] # "="
    BY <2>1 DEF Operators
  <2>4. ~ Reads(word, 3) /\ ~ Reads(word, 4) /\ ~ Reads(word, 5)
    BY <2>1, <2>3, OpsAre, ReadsOne
  <2> QED
    BY <1>0, <2>2, <2>4, TokenUnread DEF word
<1>2. ParseFilterToken(<<f, ">">>) = Refused
  <2> DEFINE word == <<f, ">">>
             X == {f, ">"}
  <2>1. word \in Seq(X) /\ Len(word) = 2 /\ word[1] = f /\ word[2] = ">"
    OBVIOUS
  <2> HIDE DEF word, X
  <2>2. \A i \in 1..Len(word) : word[i] # "<" /\ word[i] # "="
    <3>1. \A i \in 1..Len(word) : i = 1 \/ i = 2
      BY <2>1
    <3> QED
      BY <2>1, <3>1 DEF Operators
  <2>3. ~ Reads(word, 1) /\ ~ Reads(word, 2)
    BY <2>1, <2>2, OpsAre, ReadsTwo
  <2>4. ~ Reads(word, 4) /\ ~ Reads(word, 5)
    BY <2>1, <2>2, OpsAre, ReadsOne, SMTT(30)
  <2>5. ~ Reads(word, 3)
    <3> DEFINE c == ">"
    <3>1. word \in Seq(X) /\ Len(word) >= 1 /\ FilterOps[3].symbol = <<c>>
      BY <2>1, OpsAre
    <3>2. Len(word) >= 2 /\ word[1] # c /\ word[2] = c /\ ~ (Len(word) >= 3)
      BY <2>1 DEF Operators
    <3> HIDE DEF c
    <3>3. Len(word) >= 2 /\ word[1] # c /\ word[2] = c => (Reads(word, 3) <=> Len(word) >= 3)
      BY <3>1, ReadsOne, Zenon
    <3> QED
      BY <3>2, <3>3
  <2> QED
    BY <1>0, <2>3, <2>4, <2>5, TokenUnread DEF word
<1>3. ParseFilterToken(<<f, ">", "=">>) = Refused
  <2> DEFINE word == <<f, ">", "=">>
             X == {f, ">", "="}
  <2>1. /\ word \in Seq(X) /\ Len(word) = 3
        /\ word[1] = f /\ word[2] = ">" /\ word[3] = "="
    OBVIOUS
  <2> HIDE DEF word, X
  <2>2. ~ Reads(word, 1)
    BY <2>1, OpsAre, ReadsTwo, SMTT(30) DEF Operators
  <2>3. ~ Reads(word, 2)
    <3>1. \A i \in 2..Len(word) : i = 2 \/ i = 3
      BY <2>1
    <3>2. \A i \in 2..Len(word) : word[i] = "=" => word[i - 1] # "<"
      BY <2>1, <3>1
    <3> QED
      BY <2>1, <3>2, OpsAre, ReadsTwo
  <2>4. Reads(word, 3) /\ After(word, FilterOps[3]) = <<"=">>
    BY <2>1, OpsAre, ReadsOne DEF Operators
  <2>5. \A n \in 1..(3 - 1) : n = 1 \/ n = 2
    OBVIOUS
  <2>6. Joined(<<"=">>) = "=" /\ "=" \notin DOMAIN Number
    BY NumberAssumption DEF Joined
  <2> QED
    BY <2>2, <2>3, <2>4, <2>5, <2>6, OpsAre, TokenRead DEF word
<1>4. ParseFilterToken(<<">", "1">>) = Refused
  <2> DEFINE word == <<">", "1">>
             X == {">", "1"}
  <2>1. word \in Seq(X) /\ Len(word) = 2 /\ word[1] = ">" /\ word[2] = "1"
    OBVIOUS
  <2> HIDE DEF word, X
  <2>2. \A i \in 1..Len(word) : word[i] # "<" /\ word[i] # "="
    <3>1. \A i \in 1..Len(word) : i = 1 \/ i = 2
      BY <2>1
    <3> QED
      BY <2>1, <3>1
  <2>3. ~ Reads(word, 1) /\ ~ Reads(word, 2)
    BY <2>1, <2>2, OpsAre, ReadsTwo
  <2>4. ~ Reads(word, 4) /\ ~ Reads(word, 5)
    BY <2>1, <2>2, OpsAre, ReadsOne
  <2>5. ~ Reads(word, 3)
    BY <2>1, OpsAre, ReadsOne
  <2> QED
    BY <1>0, <2>3, <2>4, <2>5, TokenUnread DEF word
<1> QED
  BY <1>1, <1>2, <1>3, <1>4

\* What a typed condition reads as.
OpOf(symbol) ==
  CASE symbol = <<"=">> -> "eq" [] symbol = <<">">> -> "gt" [] symbol = <<"<">> -> "lt"
    [] symbol = <<">", "=">> -> "gte" [] OTHER -> "lte"

Condition(field, symbol, value) ==
  [field |-> field, op |-> OpOf(symbol),
   value |-> IF symbol = <<"=">> THEN value ELSE Number[value]]

Keywords == {<<"sort">>, <<"asc">>, <<"desc">>, <<"limit">>}

\* Sequences of three and of four elements.
LEMMA ThreeLong ==
  ASSUME NEW X, NEW s \in Seq(X), Len(s) = 3
  PROVE  s = <<s[1], s[2], s[3]>>
<1> DEFINE t == <<s[1], s[2], s[3]>>
<1>1. s = [i \in 1..3 |-> s[i]] /\ t = [i \in 1..3 |-> t[i]]
  OBVIOUS
<1>2. \A i \in 1..3 : i = 1 \/ i = 2 \/ i = 3
  OBVIOUS
<1>3. \A i \in 1..3 : s[i] = t[i]
  BY <1>2
<1> HIDE DEF t
<1>4. s = t
  BY <1>1, <1>3
<1> QED
  BY <1>4 DEF t

LEMMA FourLong ==
  ASSUME NEW X, NEW s \in Seq(X), Len(s) = 4
  PROVE  s = <<s[1], s[2], s[3], s[4]>>
<1> DEFINE t == <<s[1], s[2], s[3], s[4]>>
<1>1. s = [i \in 1..4 |-> s[i]] /\ t = [i \in 1..4 |-> t[i]]
  OBVIOUS
<1>2. \A i \in 1..4 : i = 1 \/ i = 2 \/ i = 3 \/ i = 4
  OBVIOUS
<1>3. \A i \in 1..4 : s[i] = t[i]
  BY <1>2
<1> HIDE DEF t
<1>4. s = t
  BY <1>1, <1>3
<1> QED
  BY <1>4 DEF t

\* What is typed, part by part ...
LEMMA TypedIs ==
  ASSUME NEW f, NEW a, NEW b, NEW v
  PROVE  /\ Typed(f, <<a>>, v) = <<f, a, v>>
         /\ Typed(f, <<a, b>>, v) = <<f, a, b, v>>
<1> DEFINE X == {f, a, b, v}
           first == <<f>>
           last == <<v>>
<1>1. /\ first \in Seq(X) /\ Len(first) = 1 /\ first[1] = f
      /\ last \in Seq(X) /\ Len(last) = 1 /\ last[1] = v
  OBVIOUS
<1>2. /\ <<a>> \in Seq(X) /\ Len(<<a>>) = 1 /\ <<a>>[1] = a
      /\ <<a, b>> \in Seq(X) /\ Len(<<a, b>>) = 2 /\ <<a, b>>[1] = a /\ <<a, b>>[2] = b
  OBVIOUS
<1> HIDE DEF X, first, last
<1>3. ASSUME NEW s \in Seq(X)
      PROVE  /\ (first \o s) \o last \in Seq(X) /\ Len((first \o s) \o last) = Len(s) + 2
             /\ ((first \o s) \o last)[1] = f
             /\ \A i \in 1..Len(s) : ((first \o s) \o last)[i + 1] = s[i]
             /\ ((first \o s) \o last)[Len(s) + 2] = v
  <2> DEFINE t == first \o s
  <2>1. Len(s) \in Nat
    OBVIOUS
  <2>2. /\ t \in Seq(X) /\ Len(t) = Len(first) + Len(s)
        /\ \A i \in 1..(Len(first) + Len(s)) :
             t[i] = IF i <= Len(first) THEN first[i] ELSE s[i - Len(first)]
    BY <1>1, ConcatProperties
  <2>3. /\ t \in Seq(X) /\ Len(t) = 1 + Len(s) /\ t[1] = f
        /\ \A i \in 1..Len(s) : t[i + 1] = s[i]
    <3>1. 1 \in 1..(1 + Len(s)) /\ \A i \in 1..Len(s) : i + 1 \in 1..(1 + Len(s)) /\ ~ (i + 1 <= 1)
                                                        /\ (i + 1) - 1 = i
      BY <2>1
    <3> HIDE DEF t
    <3> QED
      BY <1>1, <2>2, <3>1
  <2> HIDE DEF t
  <2> DEFINE u == t \o last
  <2>4. /\ u \in Seq(X) /\ Len(u) = Len(t) + Len(last)
        /\ \A i \in 1..(Len(t) + Len(last)) :
             u[i] = IF i <= Len(t) THEN t[i] ELSE last[i - Len(t)]
    BY <1>1, <2>3, ConcatProperties
  <2> HIDE DEF u
  <2>5. /\ u \in Seq(X) /\ Len(u) = Len(s) + 2 /\ u[1] = f
        /\ \A i \in 1..Len(s) : u[i + 1] = s[i]
        /\ u[Len(s) + 2] = v
    <3>1. /\ 1 \in 1..(Len(s) + 2) /\ 1 <= Len(s) + 1
          /\ \A i \in 1..Len(s) : i + 1 \in 1..(Len(s) + 2) /\ i + 1 <= Len(s) + 1
          /\ Len(s) + 2 \in 1..(Len(s) + 2) /\ ~ (Len(s) + 2 <= Len(s) + 1)
          /\ (Len(s) + 2) - (1 + Len(s)) = 1 /\ (1 + Len(s)) + 1 = Len(s) + 2
      BY <2>1
    <3> QED
      BY <1>1, <2>1, <2>3, <2>4, <3>1, SMTT(30)
  <2> QED
    BY <2>5 DEF u, t
<1>4. Typed(f, <<a>>, v) = <<f, a, v>>
  <2> DEFINE s == <<a>>
             t == (first \o s) \o last
  <2> HIDE DEF s
  <2>1. s \in Seq(X) /\ Len(s) = 1 /\ s[1] = a
    BY <1>2 DEF s
  <2>2. t \in Seq(X) /\ Len(t) = 3 /\ t[1] = f /\ t[2] = a /\ t[3] = v
    BY <1>3, <2>1, SMTT(30)
  <2>3. Typed(f, s, v) = t
    BY DEF Typed, first, last
  <2> HIDE DEF t
  <2>4. t = <<f, a, v>>
    BY <2>2, ThreeLong
  <2> QED
    BY <2>3, <2>4 DEF s
<1>5. Typed(f, <<a, b>>, v) = <<f, a, b, v>>
  <2> DEFINE s == <<a, b>>
             t == (first \o s) \o last
  <2> HIDE DEF s
  <2>1. s \in Seq(X) /\ Len(s) = 2 /\ s[1] = a /\ s[2] = b
    BY <1>2 DEF s
  <2>2. t \in Seq(X) /\ Len(t) = 4 /\ t[1] = f /\ t[2] = a /\ t[3] = b /\ t[4] = v
    <3>1. /\ t \in Seq(X) /\ Len(t) = Len(s) + 2 /\ t[1] = f /\ t[Len(s) + 2] = v
          /\ \A i \in 1..Len(s) : t[i + 1] = s[i]
      BY <1>3, <2>1
    <3> HIDE DEF t
    <3>2. 1 \in 1..Len(s) /\ 2 \in 1..Len(s) /\ 1 + 1 = 2 /\ 2 + 1 = 3 /\ Len(s) + 2 = 4
      BY <2>1
    <3> QED
      BY <2>1, <3>1, <3>2
  <2>3. Typed(f, s, v) = t
    BY DEF Typed, first, last
  <2> HIDE DEF t
  <2>4. t = <<f, a, b, v>>
    BY <2>2, FourLong
  <2> QED
    BY <2>3, <2>4 DEF s
<1> QED
  BY <1>4, <1>5

\* ... and what it reads as: > before = is not taken for > alone.
LEMMA TypedReads ==
  ASSUME NEW field \in Names, NEW symbol \in Symbols, NEW value \in DOMAIN Number
  PROVE  /\ ParseFilterToken(Typed(field, symbol, value)) = <<Condition(field, symbol, value)>>
         /\ Typed(field, symbol, value) \notin Keywords
<1>1. field \notin Operators /\ value \notin Operators
  BY NumberAssumption DEF Names, Operators
<1>2. ASSUME symbol = <<"=">>
      PROVE  /\ ParseFilterToken(Typed(field, symbol, value)) = <<Condition(field, symbol, value)>>
             /\ Typed(field, symbol, value) \notin Keywords
  <2>1. Typed(field, symbol, value) = <<field, "=", value>>
    BY <1>2, TypedIs
  <2>2. Condition(field, symbol, value) = [field |-> field, op |-> "eq", value |-> value]
    BY <1>2 DEF Condition, OpOf
  <2>3. <<field, "=", value>> \notin Keywords
    BY DEF Keywords
  <2> QED
    BY <1>1, <2>1, <2>2, <2>3, ThreeParts
<1>3. ASSUME symbol = <<">">>
      PROVE  /\ ParseFilterToken(Typed(field, symbol, value)) = <<Condition(field, symbol, value)>>
             /\ Typed(field, symbol, value) \notin Keywords
  <2>1. Typed(field, symbol, value) = <<field, ">", value>>
    BY <1>3, TypedIs
  <2>2. Condition(field, symbol, value) = [field |-> field, op |-> "gt", value |-> Number[value]]
    BY <1>3 DEF Condition, OpOf
  <2>3. <<field, ">", value>> \notin Keywords
    BY DEF Keywords
  <2> QED
    BY <1>1, <2>1, <2>2, <2>3, ThreeParts
<1>4. ASSUME symbol = <<"<">>
      PROVE  /\ ParseFilterToken(Typed(field, symbol, value)) = <<Condition(field, symbol, value)>>
             /\ Typed(field, symbol, value) \notin Keywords
  <2>1. Typed(field, symbol, value) = <<field, "<", value>>
    BY <1>4, TypedIs
  <2>2. Condition(field, symbol, value) = [field |-> field, op |-> "lt", value |-> Number[value]]
    BY <1>4 DEF Condition, OpOf
  <2>3. <<field, "<", value>> \notin Keywords
    BY DEF Keywords
  <2> QED
    BY <1>1, <2>1, <2>2, <2>3, ThreeParts
<1>5. ASSUME symbol = <<">", "=">>
      PROVE  /\ ParseFilterToken(Typed(field, symbol, value)) = <<Condition(field, symbol, value)>>
             /\ Typed(field, symbol, value) \notin Keywords
  <2>1. Typed(field, symbol, value) = <<field, ">", "=", value>>
    BY <1>5, TypedIs
  <2>2. Condition(field, symbol, value) = [field |-> field, op |-> "gte", value |-> Number[value]]
    BY <1>5 DEF Condition, OpOf
  <2>3. <<field, ">", "=", value>> \notin Keywords
    BY DEF Keywords
  <2> QED
    BY <1>1, <2>1, <2>2, <2>3, FourParts
<1>6. ASSUME symbol = <<"<", "=">>
      PROVE  /\ ParseFilterToken(Typed(field, symbol, value)) = <<Condition(field, symbol, value)>>
             /\ Typed(field, symbol, value) \notin Keywords
  <2>1. Typed(field, symbol, value) = <<field, "<", "=", value>>
    BY <1>6, TypedIs
  <2>2. Condition(field, symbol, value) = [field |-> field, op |-> "lte", value |-> Number[value]]
    BY <1>6 DEF Condition, OpOf
  <2>3. <<field, "<", "=", value>> \notin Keywords
    BY DEF Keywords
  <2> QED
    BY <1>1, <2>1, <2>2, <2>3, FourParts
<1> QED
  BY <1>2, <1>3, <1>4, <1>5, <1>6 DEF Symbols

------------------------------------------------------------------------------
(* The parser of a line *)

At(i, req) == [at |-> i, parsed |-> <<req>>]

\* The loop of cmdFind has its states.
LEMMA ParseRuns ==
  ASSUME NEW words, Len(words) \in Nat
  PROVE  \E f : /\ f[0] = At(1, EmptyRequest)
                /\ \A n \in 1..Len(words) : f[n] = ParseTurn(words, f[n - 1])
                /\ ParseFind(words) = f[Len(words)].parsed
<1> DEFINE N == Len(words)
           start == At(1, EmptyRequest)
           Level(f, n) == IF n = 0 THEN start ELSE ParseTurn(words, f[n - 1])
           Upto(f, n) == f = [d \in 0..n |-> Level(f, d)]
           D == {n \in Nat : \E f : Upto(f, n)}
<1> HIDE DEF start
<1>1. 0 \in D
  <2> DEFINE f == [d \in 0..0 |-> start]
  <2>1. f = [d \in 0..0 |-> Level(f, d)]
    OBVIOUS
  <2> QED
    BY <2>1
<1>2. ASSUME NEW n \in Nat, n \in D
      PROVE  n + 1 \in D
  <2>1. PICK f : Upto(f, n)
    BY <1>2
  <2> DEFINE g == [d \in 0..(n + 1) |-> IF d <= n THEN f[d] ELSE ParseTurn(words, f[n])]
  <2>2. ASSUME NEW d \in 0..(n + 1)
        PROVE  g[d] = Level(g, d)
    <3>1. CASE d <= n
      <4>1. d \in 0..n /\ (d # 0 => d - 1 \in 0..n /\ d - 1 \in 0..(n + 1) /\ d - 1 <= n)
        BY <3>1
      <4>2. g[d] = f[d] /\ (d # 0 => g[d - 1] = f[d - 1])
        BY <3>1, <4>1
      <4>3. f[d] = Level(f, d)
        BY <2>1, <4>1
      <4> QED
        BY <4>2, <4>3
    <3>2. CASE d = n + 1
      <4>1. d # 0 /\ ~ (d <= n) /\ d - 1 = n /\ n \in 0..(n + 1) /\ n <= n
        BY <3>2
      <4>2. g[d] = ParseTurn(words, f[n]) /\ g[n] = f[n]
        BY <4>1
      <4> QED
        BY <4>1, <4>2
    <3> QED
      BY <3>1, <3>2
  <2>3. g = [d \in 0..(n + 1) |-> g[d]]
    OBVIOUS
  <2> HIDE DEF g, Level
  <2>4. g = [d \in 0..(n + 1) |-> Level(g, d)]
    BY <2>2, <2>3, Zenon
  <2> QED
    BY <2>4
<1>3. D = Nat
  <2> HIDE DEF D
  <2> QED
    BY <1>1, <1>2, AllNaturals DEF D
<1>4. PICK f : Upto(f, N)
  BY <1>3
<1> DEFINE turn[n \in 0..N] == IF n = 0 THEN start ELSE ParseTurn(words, turn[n - 1])
<1>5. f = [n \in 0..N |-> IF n = 0 THEN start ELSE ParseTurn(words, f[n - 1])]
  BY <1>4, Zenon
<1>6. turn = [n \in 0..N |-> IF n = 0 THEN start ELSE ParseTurn(words, turn[n - 1])]
  BY <1>5, Zenon
<1>7. ParseFind(words) = turn[N].parsed
  BY Zenon DEF ParseFind, N, start, At
<1> HIDE DEF turn, N
<1>8. N \in Nat
  BY DEF N
<1>9. /\ turn[0] = start
      /\ \A n \in 1..N : turn[n] = ParseTurn(words, turn[n - 1])
  <2>1. 0 \in 0..N /\ \A n \in 1..N : n \in 0..N /\ n # 0
    BY <1>8
  <2> QED
    BY <1>6, <2>1, Zenon
<1> QED
  BY <1>7, <1>9 DEF start, N

------------------------------------------------------------------------------
(* One turn of the parser *)

Upward == TRUE
Downward == FALSE

\* What a word changes in the request.
SortedBy(req, field) == [req EXCEPT !.sortBy = field]
Directed(req, asc) == [req EXCEPT !.sortAsc = asc]
Limited(req, limit) == [req EXCEPT !.limit = limit]
Narrowed(req, filter) == [req EXCEPT !.filters = @ \o filter]

\* A request, as a word leaves it.
IsRequest(req) == DOMAIN req = {"filters", "sortBy", "sortAsc", "limit", "projection"}

\* A line starts with a request for everything.
LEMMA FirstRequest ==
  /\ IsRequest(EmptyRequest)
  /\ EmptyRequest.filters = <<>> /\ EmptyRequest.sortBy = NoField
  /\ EmptyRequest.limit = 0 /\ EmptyRequest.projection = {}
<1> DEFINE none == ""
           up == TRUE
           req == [filters |-> <<>>, sortBy |-> none, sortAsc |-> up, limit |-> 0, projection |-> {}]
<1>1. EmptyRequest = req /\ NoField = none
  BY Zenon DEF EmptyRequest, NoField
<1> HIDE DEF none, up
<1>2. /\ DOMAIN req = {"filters", "sortBy", "sortAsc", "limit", "projection"}
      /\ req.filters = <<>> /\ req.sortBy = none /\ req.limit = 0 /\ req.projection = {}
  OBVIOUS
<1> HIDE DEF req
<1> QED
  BY <1>1, <1>2 DEF IsRequest

\* What each change leaves alone.
LEMMA SortedByHas ==
  ASSUME NEW req, IsRequest(req), NEW x
  PROVE  /\ IsRequest(SortedBy(req, x)) /\ SortedBy(req, x).filters = req.filters
         /\ SortedBy(req, x).sortBy = x /\ SortedBy(req, x).sortAsc = req.sortAsc
         /\ SortedBy(req, x).limit = req.limit /\ SortedBy(req, x).projection = req.projection
BY DEF IsRequest, SortedBy

LEMMA DirectedHas ==
  ASSUME NEW req, IsRequest(req), NEW x
  PROVE  /\ IsRequest(Directed(req, x)) /\ Directed(req, x).filters = req.filters
         /\ Directed(req, x).sortBy = req.sortBy /\ Directed(req, x).sortAsc = x
         /\ Directed(req, x).limit = req.limit /\ Directed(req, x).projection = req.projection
BY DEF IsRequest, Directed

LEMMA LimitedHas ==
  ASSUME NEW req, IsRequest(req), NEW x
  PROVE  /\ IsRequest(Limited(req, x)) /\ Limited(req, x).filters = req.filters
         /\ Limited(req, x).sortBy = req.sortBy /\ Limited(req, x).sortAsc = req.sortAsc
         /\ Limited(req, x).limit = x /\ Limited(req, x).projection = req.projection
BY DEF IsRequest, Limited

LEMMA NarrowedHas ==
  ASSUME NEW req, IsRequest(req), NEW x
  PROVE  /\ IsRequest(Narrowed(req, x)) /\ Narrowed(req, x).filters = req.filters \o x
         /\ Narrowed(req, x).sortBy = req.sortBy /\ Narrowed(req, x).sortAsc = req.sortAsc
         /\ Narrowed(req, x).limit = req.limit /\ Narrowed(req, x).projection = req.projection
<1> DEFINE all == req.filters \o x
<1> HIDE DEF all
<1>1. Narrowed(req, x) = [req EXCEPT !.filters = all]
  BY DEF Narrowed, all
<1>2. /\ DOMAIN [req EXCEPT !.filters = all] = DOMAIN req
      /\ [req EXCEPT !.filters = all].filters = all
      /\ [req EXCEPT !.filters = all].sortBy = req.sortBy
      /\ [req EXCEPT !.filters = all].sortAsc = req.sortAsc
      /\ [req EXCEPT !.filters = all].limit = req.limit
      /\ [req EXCEPT !.filters = all].projection = req.projection
  BY DEF IsRequest
<1> QED
  BY <1>1, <1>2 DEF IsRequest, all

\* No keyword is another.
LEMMA WordsDiffer ==
  /\ <<"sort">> # <<"asc">> /\ <<"sort">> # <<"desc">> /\ <<"sort">> # <<"limit">>
  /\ <<"asc">> # <<"desc">> /\ <<"asc">> # <<"limit">> /\ <<"desc">> # <<"limit">>
OBVIOUS

\* Nothing is read behind the end of the line.
LEMMA TurnOver ==
  ASSUME NEW words, NEW s, s.parsed = Refused \/ s.at > Len(words)
  PROVE  ParseTurn(words, s) = s
BY DEF ParseTurn

\* One turn, for each word that may come.
Taken(i, n, parsed) == [at |-> i + n, parsed |-> parsed]

\* The turn by its word, ...
LEMMA TurnCases ==
  ASSUME NEW words, NEW i, ~ (i > Len(words)), NEW req
  PROVE  LET word == words[i]
             argument == Joined(words[i + 1])
         IN  ParseTurn(words, At(i, req)) =
               CASE word = <<"sort">> ->
                      Taken(i, 2, IF i = Len(words) THEN Refused ELSE <<SortedBy(req, argument)>>)
                 [] word = <<"asc">> -> Taken(i, 1, <<Directed(req, Upward)>>)
                 [] word = <<"desc">> -> Taken(i, 1, <<Directed(req, Downward)>>)
                 [] word = <<"limit">> ->
                      Taken(i, 2, IF i = Len(words) \/ argument \notin Positive THEN Refused
                                   ELSE <<Limited(req, Number[argument])>>)
                 [] OTHER ->
                      Taken(i, 1, IF ParseFilterToken(word) = Refused THEN Refused
                                   ELSE <<Narrowed(req, ParseFilterToken(word))>>)
<1> DEFINE s == At(i, req)
<1>1. s.at = i /\ s.parsed = <<req>> /\ s.parsed[1] = req
  BY DEF At
<1>2. ~ (s.parsed = Refused \/ s.at > Len(words))
  BY <1>1 DEF Refused
<1> HIDE DEF s
<1> QED
  BY <1>1, <1>2, Zenon DEF ParseTurn, Taken, s, Upward, Downward, SortedBy, Directed, Limited, Narrowed

\* ... for each of the words with an argument and for a condition, ...
LEMMA TurnIs ==
  ASSUME NEW words, NEW i, ~ (i > Len(words)), NEW req
  PROVE  LET argument == Joined(words[i + 1])
         IN  /\ words[i] = <<"sort">> => ParseTurn(words, At(i, req)) =
                  Taken(i, 2, IF i = Len(words) THEN Refused ELSE <<SortedBy(req, argument)>>)
             /\ words[i] = <<"limit">> => ParseTurn(words, At(i, req)) =
                  Taken(i, 2, IF i = Len(words) \/ argument \notin Positive THEN Refused
                               ELSE <<Limited(req, Number[argument])>>)
             /\ words[i] \notin Keywords => ParseTurn(words, At(i, req)) =
                  Taken(i, 1, IF ParseFilterToken(words[i]) = Refused THEN Refused
                               ELSE <<Narrowed(req, ParseFilterToken(words[i]))>>)
<1> DEFINE word == words[i]
           argument == Joined(words[i + 1])
           a == Taken(i, 2, IF i = Len(words) THEN Refused ELSE <<SortedBy(req, argument)>>)
           b == Taken(i, 1, <<Directed(req, Upward)>>)
           c == Taken(i, 1, <<Directed(req, Downward)>>)
           d == Taken(i, 2, IF i = Len(words) \/ argument \notin Positive THEN Refused
                             ELSE <<Limited(req, Number[argument])>>)
           e == Taken(i, 1, IF ParseFilterToken(word) = Refused THEN Refused
                             ELSE <<Narrowed(req, ParseFilterToken(word))>>)
<1>1. ParseTurn(words, At(i, req)) =
        CASE word = <<"sort">> -> a [] word = <<"asc">> -> b [] word = <<"desc">> -> c
          [] word = <<"limit">> -> d [] OTHER -> e
  BY TurnCases, Zenon
<1> HIDE DEF word, a, b, c, d, e
<1>2. /\ word = <<"sort">> => ParseTurn(words, At(i, req)) = a
      /\ word = <<"limit">> => ParseTurn(words, At(i, req)) = d
      /\ word \notin Keywords => ParseTurn(words, At(i, req)) = e
  BY <1>1, WordsDiffer DEF Keywords
<1> QED
  BY <1>2, Zenon DEF word, a, d, e

\* ... and for a direction.
LEMMA TurnDirection ==
  ASSUME NEW words, NEW i, ~ (i > Len(words)), NEW req,
         NEW direction \in {"asc", "desc"}, words[i] = <<direction>>
  PROVE  ParseTurn(words, At(i, req)) = At(i + 1, Directed(req, direction = "asc"))
<1> DEFINE word == words[i]
           argument == Joined(words[i + 1])
           a == Taken(i, 2, IF i = Len(words) THEN Refused ELSE <<SortedBy(req, argument)>>)
           b == Taken(i, 1, <<Directed(req, Upward)>>)
           c == Taken(i, 1, <<Directed(req, Downward)>>)
           d == Taken(i, 2, IF i = Len(words) \/ argument \notin Positive THEN Refused
                             ELSE <<Limited(req, Number[argument])>>)
           e == Taken(i, 1, IF ParseFilterToken(word) = Refused THEN Refused
                             ELSE <<Narrowed(req, ParseFilterToken(word))>>)
<1>1. ParseTurn(words, At(i, req)) =
        CASE word = <<"sort">> -> a [] word = <<"asc">> -> b [] word = <<"desc">> -> c
          [] word = <<"limit">> -> d [] OTHER -> e
  BY TurnCases, Zenon
<1>2. word = <<direction>>
  OBVIOUS
<1> HIDE DEF word, a, b, c, d, e
<1>3. CASE direction = "asc"
  <2>1. (direction = "asc") = Upward
    BY <1>3 DEF Upward
  <2>2. ParseTurn(words, At(i, req)) = b
    BY <1>1, <1>2, <1>3, WordsDiffer
  <2> QED
    BY <2>1, <2>2, Zenon DEF b, At, Taken
<1>4. CASE direction = "desc"
  <2>1. (direction = "asc") = Downward
    BY <1>4 DEF Downward
  <2>2. ParseTurn(words, At(i, req)) = c
    BY <1>1, <1>2, <1>4, WordsDiffer
  <2> QED
    BY <2>1, <2>2, Zenon DEF c, At, Taken
<1> QED
  BY <1>3, <1>4

\* A part alone is itself.
LEMMA JoinedOne == \A part : Joined(<<part>>) = part
BY DEF Joined

\* 2 is a limit; 0 and what can be named are none.
LEMMA Limits ==
  /\ "2" \in Positive /\ Number["2"] = 2
  /\ "0" \notin Positive
  /\ \A field \in Names : field \notin Positive
<1>1. "2" \in DOMAIN Number /\ Number["2"] = 2 /\ Number["0"] = 0
  BY NumberAssumption
<1>2. \A part : part \in Positive <=> part \in DOMAIN Number /\ Number[part] > 0
  BY DEF Positive
<1> QED
  BY <1>1, <1>2 DEF Names

\* The turn of each of the clauses.
LEMMA TurnSort ==
  ASSUME NEW words, NEW i, ~ (i > Len(words)), NEW req,
         words[i] = <<"sort">>, i # Len(words), NEW g, words[i + 1] = <<g>>
  PROVE  ParseTurn(words, At(i, req)) = At(i + 2, SortedBy(req, g))
<1> DEFINE argument == Joined(words[i + 1])
           after == SortedBy(req, argument)
<1>1. i # Len(words)
  OBVIOUS
<1>2. ParseTurn(words, At(i, req)) = Taken(i, 2, <<after>>)
  <2>1. ParseTurn(words, At(i, req)) =
          Taken(i, 2, IF i = Len(words) THEN Refused ELSE <<after>>)
    BY TurnIs, Zenon
  <2> QED
    BY <1>1, <2>1, Zenon
<1>3. argument = g
  BY JoinedOne
<1> QED
  BY <1>2, <1>3, Zenon DEF At, Taken

LEMMA TurnLimit ==
  ASSUME NEW words, NEW i, ~ (i > Len(words)), NEW req,
         words[i] = <<"limit">>, i # Len(words), words[i + 1] = <<"2">>
  PROVE  ParseTurn(words, At(i, req)) = At(i + 2, Limited(req, 2))
<1> DEFINE argument == Joined(words[i + 1])
           after == Limited(req, Number[argument])
<1>1. i # Len(words)
  OBVIOUS
<1>2. argument \in Positive /\ Number[argument] = 2
  BY JoinedOne, Limits, Zenon
<1>3. ParseTurn(words, At(i, req)) = Taken(i, 2, <<after>>)
  <2>1. ParseTurn(words, At(i, req)) =
          Taken(i, 2, IF i = Len(words) \/ argument \notin Positive THEN Refused
                                    ELSE <<after>>)
    BY TurnIs, Zenon
  <2> QED
    BY <1>1, <1>2, <2>1, Zenon
<1> QED
  BY <1>2, <1>3, Zenon DEF At, Taken

LEMMA TurnFilter ==
  ASSUME NEW words, NEW i, ~ (i > Len(words)), NEW req,
         words[i] \notin Keywords, NEW c, ParseFilterToken(words[i]) = <<c>>
  PROVE  ParseTurn(words, At(i, req)) = At(i + 1, Narrowed(req, <<c>>))
<1> DEFINE filter == ParseFilterToken(words[i])
           after == Narrowed(req, filter)
<1>1. <<c>> # Refused
  BY DEF Refused
<1>2. ParseTurn(words, At(i, req)) = Taken(i, 1, <<after>>)
  <2>1. ParseTurn(words, At(i, req)) =
          Taken(i, 1, IF filter = Refused THEN Refused ELSE <<after>>)
    BY TurnIs, Zenon
  <2> QED
    BY <1>1, <2>1, Zenon
<1> QED
  BY <1>2, Zenon DEF At, Taken

\* The turn of a word that is no condition or of a clause that ends too early.
LEMMA TurnRefuses ==
  ASSUME NEW words, NEW i, ~ (i > Len(words)), NEW req,
         \/ words[i] = <<"sort">> /\ i = Len(words)
         \/ words[i] = <<"limit">> /\ i = Len(words)
         \/ words[i] = <<"limit">> /\ Joined(words[i + 1]) \notin Positive
         \/ words[i] \notin Keywords /\ ParseFilterToken(words[i]) = Refused
  PROVE  ParseTurn(words, At(i, req)).parsed = Refused
<1> DEFINE argument == Joined(words[i + 1])
           a == <<SortedBy(req, argument)>>
           d == <<Limited(req, Number[argument])>>
           e == <<Narrowed(req, ParseFilterToken(words[i]))>>
<1>1. /\ words[i] = <<"sort">> => ParseTurn(words, At(i, req)) =
           Taken(i, 2, IF i = Len(words) THEN Refused ELSE a)
      /\ words[i] = <<"limit">> => ParseTurn(words, At(i, req)) =
           Taken(i, 2, IF i = Len(words) \/ argument \notin Positive THEN Refused ELSE d)
      /\ words[i] \notin Keywords => ParseTurn(words, At(i, req)) =
           Taken(i, 1, IF ParseFilterToken(words[i]) = Refused THEN Refused ELSE e)
  BY TurnIs, Zenon
<1> HIDE DEF argument, a, d, e
<1>2. ASSUME words[i] = <<"sort">>, i = Len(words)
      PROVE  ParseTurn(words, At(i, req)).parsed = Refused
  BY <1>1, <1>2 DEF Taken
<1>3. ASSUME words[i] = <<"limit">>, i = Len(words) \/ argument \notin Positive
      PROVE  ParseTurn(words, At(i, req)).parsed = Refused
  BY <1>1, <1>3 DEF Taken
<1>4. ASSUME words[i] \notin Keywords, ParseFilterToken(words[i]) = Refused
      PROVE  ParseTurn(words, At(i, req)).parsed = Refused
  BY <1>1, <1>4 DEF Taken
<1> QED
  BY <1>2, <1>3, <1>4 DEF argument

------------------------------------------------------------------------------
(* Lines *)

\* The first condition is the only one.
LEMMA ConditionAlone ==
  ASSUME NEW c, NEW req, IsRequest(req), req.filters = <<>>
  PROVE  Narrowed(req, <<c>>).filters = <<c>>
<1> DEFINE s == <<c>>
           X == {c}
<1>1. s \in Seq(X)
  OBVIOUS
<1> HIDE DEF s, X
<1>2. <<>> \o s = s
  BY <1>1
<1>3. Narrowed(req, s).filters = <<>> \o s
  BY NarrowedHas
<1> QED
  BY <1>2, <1>3, Zenon DEF s

\* A condition alone asks for what meets it.
LEMMA OneWord ==
  ASSUME NEW word, word \notin Keywords, NEW c, ParseFilterToken(word) = <<c>>
  PROVE  \E req : /\ ParseFind(<<word>>) = <<req>>
                  /\ req.filters = <<c>> /\ req.sortBy = NoField
                  /\ req.limit = 0 /\ req.projection = {}
<1> DEFINE words == <<word>>
           req == Narrowed(EmptyRequest, <<c>>)
<1>1. Len(words) = 1 /\ words[1] = word /\ Len(words) \in Nat
  OBVIOUS
<1> HIDE DEF words
<1>2. PICK f : /\ f[0] = At(1, EmptyRequest)
               /\ \A n \in 1..Len(words) : f[n] = ParseTurn(words, f[n - 1])
               /\ ParseFind(words) = f[Len(words)].parsed
  BY <1>1, ParseRuns, Zenon
<1>3. f[1] = ParseTurn(words, f[0])
  <2>1. 1 \in 1..Len(words) /\ 1 - 1 = 0
    BY <1>1
  <2> QED
    BY <1>2, <2>1
<1>4. ParseTurn(words, At(1, EmptyRequest)) = At(1 + 1, req)
  <2> DEFINE i == 1
  <2>1. ~ (i > Len(words)) /\ words[i] \notin Keywords /\ ParseFilterToken(words[i]) = <<c>>
    BY <1>1
  <2> HIDE DEF i
  <2>2. ParseTurn(words, At(i, EmptyRequest)) = At(i + 1, req)
    BY <2>1, TurnFilter
  <2> QED
    BY <2>2 DEF i
<1>5. ParseFind(words) = <<req>>
  <2>1. ParseFind(words) = f[1].parsed /\ f[1] = At(1 + 1, req)
    BY <1>1, <1>2, <1>3, <1>4
  <2> QED
    BY <2>1 DEF At
<1>6. /\ req.filters = <<c>> /\ req.sortBy = NoField /\ req.limit = 0 /\ req.projection = {}
  BY FirstRequest, NarrowedHas, ConditionAlone
<1> QED
  BY <1>5, <1>6, Zenon DEF words

\* A line that a turn refuses is refused.
LEMMA RefusedLine ==
  ASSUME NEW words, Len(words) \in 1..2, ParseTurn(words, At(1, EmptyRequest)).parsed = Refused
  PROVE  ParseFind(words) = Refused
<1>1. PICK f : /\ f[0] = At(1, EmptyRequest)
               /\ \A n \in 1..Len(words) : f[n] = ParseTurn(words, f[n - 1])
               /\ ParseFind(words) = f[Len(words)].parsed
  <2>1. Len(words) \in Nat
    OBVIOUS
  <2> QED
    BY <2>1, ParseRuns, Zenon
<1>2. f[1] = ParseTurn(words, f[0])
  <2>1. 1 \in 1..Len(words) /\ 1 - 1 = 0
    OBVIOUS
  <2> QED
    BY <1>1, <2>1
<1>3. f[1].parsed = Refused
  BY <1>1, <1>2
<1>4. CASE Len(words) = 1
  BY <1>1, <1>3, <1>4
<1>5. CASE Len(words) = 2
  <2>1. 2 \in 1..Len(words) /\ 2 - 1 = 1
    BY <1>5
  <2>2. f[2] = ParseTurn(words, f[1])
    BY <1>1, <2>1
  <2>3. f[2] = f[1]
    BY <1>3, <2>2, TurnOver
  <2> QED
    BY <1>1, <1>3, <1>5, <2>3
<1> QED
  BY <1>4, <1>5

\* A line of six words, three clauses and a condition, is read in four turns.
LEMMA SixWords ==
  ASSUME NEW words, Len(words) = 6, NEW a, NEW b, NEW c, NEW req, NEW i, NEW j, NEW k,
         ParseTurn(words, At(1, EmptyRequest)) = At(i, a),
         ParseTurn(words, At(i, a)) = At(j, b),
         ParseTurn(words, At(j, b)) = At(k, c),
         ParseTurn(words, At(k, c)) = At(7, req)
  PROVE  ParseFind(words) = <<req>>
<1>1. PICK f : /\ f[0] = At(1, EmptyRequest)
               /\ \A n \in 1..Len(words) : f[n] = ParseTurn(words, f[n - 1])
               /\ ParseFind(words) = f[Len(words)].parsed
  <2>1. Len(words) \in Nat
    OBVIOUS
  <2> QED
    BY <2>1, ParseRuns, Zenon
<1>2. /\ f[1] = ParseTurn(words, f[0]) /\ f[2] = ParseTurn(words, f[1])
      /\ f[3] = ParseTurn(words, f[2]) /\ f[4] = ParseTurn(words, f[3])
      /\ f[5] = ParseTurn(words, f[4]) /\ f[6] = ParseTurn(words, f[5])
  <2>1. \A n \in 1..6 : f[n] = ParseTurn(words, f[n - 1])
    BY <1>1
  <2>2. /\ 1 \in 1..6 /\ 2 \in 1..6 /\ 3 \in 1..6 /\ 4 \in 1..6 /\ 5 \in 1..6 /\ 6 \in 1..6
        /\ 1 - 1 = 0 /\ 2 - 1 = 1 /\ 3 - 1 = 2 /\ 4 - 1 = 3 /\ 5 - 1 = 4 /\ 6 - 1 = 5
    OBVIOUS
  <2> QED
    BY <2>1, <2>2
<1>3. f[4] = At(7, req)
  BY <1>1, <1>2, Zenon
<1>4. ParseTurn(words, At(7, req)) = At(7, req)
  <2>1. At(7, req).at = 7 /\ 7 > Len(words)
    BY DEF At
  <2> QED
    BY <2>1, TurnOver
<1>5. f[6] = At(7, req)
  BY <1>2, <1>3, <1>4, Zenon
<1> QED
  BY <1>1, <1>5 DEF At

\* One sequence behind another.
LEMMA JoinedHas ==
  ASSUME NEW X, NEW s \in Seq(X), NEW t \in Seq(X)
  PROVE  /\ s \o t \in Seq(X) /\ Len(s \o t) = Len(s) + Len(t)
         /\ \A i \in 1..Len(s) : (s \o t)[i] = s[i]
         /\ \A i \in 1..Len(t) : (s \o t)[Len(s) + i] = t[i]
<1> DEFINE u == s \o t
<1>1. /\ u \in Seq(X) /\ Len(u) = Len(s) + Len(t)
      /\ \A i \in 1..(Len(s) + Len(t)) : u[i] = IF i <= Len(s) THEN s[i] ELSE t[i - Len(s)]
  BY ConcatProperties
<1>2. Len(s) \in Nat /\ Len(t) \in Nat
  OBVIOUS
<1> HIDE DEF u
<1>3. \A i \in 1..Len(s) : i \in 1..(Len(s) + Len(t)) /\ i <= Len(s)
  BY <1>2
<1>4. \A i \in 1..Len(t) : /\ Len(s) + i \in 1..(Len(s) + Len(t))
                           /\ ~ (Len(s) + i <= Len(s)) /\ (Len(s) + i) - Len(s) = i
  BY <1>2
<1> QED
  BY <1>1, <1>3, <1>4 DEF u

\* The words of a line of four clauses.
IsLine(line, a, b, c, d) ==
  /\ Len(line) = Len(a) + Len(b) + Len(c) + Len(d)
  /\ \A i \in 1..Len(a) : line[i] = a[i]
  /\ \A i \in 1..Len(b) : line[Len(a) + i] = b[i]
  /\ \A i \in 1..Len(c) : line[Len(a) + Len(b) + i] = c[i]
  /\ \A i \in 1..Len(d) : line[Len(a) + Len(b) + Len(c) + i] = d[i]

\* Four clauses, one behind the other.
LEMMA LineIs ==
  ASSUME NEW X, NEW a \in Seq(X), NEW b \in Seq(X), NEW c \in Seq(X), NEW d \in Seq(X)
  PROVE  IsLine(((a \o b) \o c) \o d, a, b, c, d)
<1> DEFINE u == a \o b
           v == u \o c
           line == v \o d
<1>0. Len(a) \in Nat /\ Len(b) \in Nat /\ Len(c) \in Nat /\ Len(d) \in Nat
  OBVIOUS
<1>1. /\ u \in Seq(X) /\ Len(u) = Len(a) + Len(b)
      /\ \A i \in 1..Len(a) : u[i] = a[i]
      /\ \A i \in 1..Len(b) : u[Len(a) + i] = b[i]
  BY JoinedHas
<1> HIDE DEF u
<1>2. /\ v \in Seq(X) /\ Len(v) = Len(u) + Len(c)
      /\ \A i \in 1..Len(u) : v[i] = u[i]
      /\ \A i \in 1..Len(c) : v[Len(u) + i] = c[i]
  <2>1. u \in Seq(X)
    BY <1>1
  <2> QED
    BY <2>1, JoinedHas
<1> HIDE DEF v
<1>3. /\ line \in Seq(X) /\ Len(line) = Len(v) + Len(d)
      /\ \A i \in 1..Len(v) : line[i] = v[i]
      /\ \A i \in 1..Len(d) : line[Len(v) + i] = d[i]
  <2>1. v \in Seq(X)
    BY <1>2
  <2> QED
    BY <2>1, JoinedHas
<1> HIDE DEF line
<1>4. /\ Len(v) = Len(a) + Len(b) + Len(c)
      /\ Len(line) = Len(a) + Len(b) + Len(c) + Len(d)
  BY <1>0, <1>1, <1>2, <1>3
<1>5. \A i \in 1..Len(a) : line[i] = a[i]
  <2>1. \A i \in 1..Len(a) : i \in 1..Len(u) /\ i \in 1..Len(v)
    BY <1>0, <1>1, <1>4
  <2> QED
    BY <1>1, <1>2, <1>3, <2>1
<1>6. \A i \in 1..Len(b) : line[Len(a) + i] = b[i]
  <2>1. \A i \in 1..Len(b) : Len(a) + i \in 1..Len(u) /\ Len(a) + i \in 1..Len(v)
    BY <1>0, <1>1, <1>4
  <2> QED
    BY <1>1, <1>2, <1>3, <2>1
<1>7. \A i \in 1..Len(c) : line[Len(a) + Len(b) + i] = c[i]
  <2>1. \A i \in 1..Len(c) : Len(a) + Len(b) + i \in 1..Len(v)
    BY <1>0, <1>4
  <2> QED
    BY <1>1, <1>2, <1>3, <2>1
<1> QED
  BY <1>3, <1>4, <1>5, <1>6, <1>7 DEF IsLine, line, v, u

\* The same clauses and condition, read in three orders, ask for the same.
Asks(req, field, up, c) ==
  /\ req.filters = <<c>> /\ req.sortBy = field /\ req.sortAsc = up
  /\ req.limit = 2 /\ req.projection = {}

\* The three orders ask for the same.
LEMMA OrdersAsk ==
  ASSUME NEW field, NEW up, NEW c,
         NEW req \in {Narrowed(Limited(Directed(SortedBy(EmptyRequest, field), up), 2), <<c>>),
                      Limited(Directed(SortedBy(Narrowed(EmptyRequest, <<c>>), field), up), 2),
                      SortedBy(Directed(Narrowed(Limited(EmptyRequest, 2), <<c>>), up), field)}
  PROVE  Asks(req, field, up, c)
<1>1. IsRequest(EmptyRequest) /\ EmptyRequest.filters = <<>> /\ EmptyRequest.projection = {}
  BY FirstRequest
<1>2. CASE req = Narrowed(Limited(Directed(SortedBy(EmptyRequest, field), up), 2), <<c>>)
  <2> DEFINE r == SortedBy(EmptyRequest, field)
             s == Directed(r, up)
             t == Limited(s, 2)
  <2>1. IsRequest(r) /\ r.filters = <<>> /\ r.sortBy = field /\ r.projection = {}
    BY <1>1, SortedByHas
  <2> HIDE DEF r
  <2>2. IsRequest(s) /\ s.filters = <<>> /\ s.sortBy = field /\ s.sortAsc = up /\ s.projection = {}
    BY <2>1, DirectedHas
  <2> HIDE DEF s
  <2>3. /\ IsRequest(t) /\ t.filters = <<>> /\ t.sortBy = field /\ t.sortAsc = up
        /\ t.limit = 2 /\ t.projection = {}
    BY <2>2, LimitedHas
  <2> HIDE DEF t
  <2>4. req = Narrowed(t, <<c>>)
    BY <1>2 DEF t, s, r
  <2> QED
    BY <2>3, <2>4, NarrowedHas, ConditionAlone DEF Asks
<1>3. CASE req = Limited(Directed(SortedBy(Narrowed(EmptyRequest, <<c>>), field), up), 2)
  <2> DEFINE r == Narrowed(EmptyRequest, <<c>>)
             s == SortedBy(r, field)
             t == Directed(s, up)
  <2>1. IsRequest(r) /\ r.filters = <<c>> /\ r.projection = {}
    BY <1>1, NarrowedHas, ConditionAlone
  <2> HIDE DEF r
  <2>2. IsRequest(s) /\ s.filters = <<c>> /\ s.sortBy = field /\ s.projection = {}
    BY <2>1, SortedByHas
  <2> HIDE DEF s
  <2>3. IsRequest(t) /\ t.filters = <<c>> /\ t.sortBy = field /\ t.sortAsc = up /\ t.projection = {}
    BY <2>2, DirectedHas
  <2> HIDE DEF t
  <2>4. req = Limited(t, 2)
    BY <1>3 DEF t, s, r
  <2> QED
    BY <2>3, <2>4, LimitedHas DEF Asks
<1>4. CASE req = SortedBy(Directed(Narrowed(Limited(EmptyRequest, 2), <<c>>), up), field)
  <2> DEFINE r == Limited(EmptyRequest, 2)
             s == Narrowed(r, <<c>>)
             t == Directed(s, up)
  <2>1. IsRequest(r) /\ r.filters = <<>> /\ r.limit = 2 /\ r.projection = {}
    BY <1>1, LimitedHas
  <2> HIDE DEF r
  <2>2. IsRequest(s) /\ s.filters = <<c>> /\ s.limit = 2 /\ s.projection = {}
    BY <2>1, NarrowedHas, ConditionAlone
  <2> HIDE DEF s
  <2>3. IsRequest(t) /\ t.filters = <<c>> /\ t.sortAsc = up /\ t.limit = 2 /\ t.projection = {}
    BY <2>2, DirectedHas
  <2> HIDE DEF t
  <2>4. req = SortedBy(t, field)
    BY <1>4 DEF t, s, r
  <2> QED
    BY <2>3, <2>4, SortedByHas DEF Asks
<1> QED
  BY <1>2, <1>3, <1>4

\* The clauses of a line as sequences of words.
LEMMA ClausesAre ==
  ASSUME NEW field, NEW direction, NEW word
  PROVE  \E X, a, b, c, d :
           /\ Clauses(field, direction, word) = <<a, b, c, d>>
           /\ a \in Seq(X) /\ Len(a) = 2 /\ a[1] = <<"sort">> /\ a[2] = <<field>>
           /\ b \in Seq(X) /\ Len(b) = 1 /\ b[1] = <<direction>>
           /\ c \in Seq(X) /\ Len(c) = 2 /\ c[1] = <<"limit">> /\ c[2] = <<"2">>
           /\ d \in Seq(X) /\ Len(d) = 1 /\ d[1] = word
<1> DEFINE X == {<<"sort">>, <<field>>, <<direction>>, <<"limit">>, <<"2">>, word}
           a == << <<"sort">>, <<field>> >>
           b == << <<direction>> >>
           c == << <<"limit">>, <<"2">> >>
           d == <<word>>
           p == <<"sort">>
           q == <<field>>
           r == <<direction>>
           s == <<"limit">>
           t == <<"2">>
<1>1. p \in X /\ q \in X /\ r \in X /\ s \in X /\ t \in X /\ word \in X
  OBVIOUS
<1> HIDE DEF X, p, q, r, s, t
<1>2. /\ <<p, q>> \in Seq(X) /\ Len(<<p, q>>) = 2 /\ <<p, q>>[1] = p /\ <<p, q>>[2] = q
      /\ <<r>> \in Seq(X) /\ Len(<<r>>) = 1 /\ <<r>>[1] = r
      /\ <<s, t>> \in Seq(X) /\ Len(<<s, t>>) = 2 /\ <<s, t>>[1] = s /\ <<s, t>>[2] = t
      /\ <<word>> \in Seq(X) /\ Len(<<word>>) = 1 /\ <<word>>[1] = word
  BY <1>1
<1>3. Clauses(field, direction, word) = <<a, b, c, d>>
  BY DEF Clauses
<1> USE DEF p, q, r, s, t
<1> HIDE DEF a, b, c, d
<1>4. /\ a \in Seq(X) /\ Len(a) = 2 /\ a[1] = <<"sort">> /\ a[2] = <<field>>
      /\ b \in Seq(X) /\ Len(b) = 1 /\ b[1] = <<direction>>
      /\ c \in Seq(X) /\ Len(c) = 2 /\ c[1] = <<"limit">> /\ c[2] = <<"2">>
      /\ d \in Seq(X) /\ Len(d) = 1 /\ d[1] = word
  BY <1>2, Zenon DEF a, b, c, d
<1> QED
  BY <1>3, <1>4

\* The three orders as they stand.
LEMMA LineOf ==
  ASSUME NEW cl
  PROVE  /\ Line(cl, <<1, 2, 3, 4>>) = ((cl[1] \o cl[2]) \o cl[3]) \o cl[4]
         /\ Line(cl, <<4, 1, 2, 3>>) = ((cl[4] \o cl[1]) \o cl[2]) \o cl[3]
         /\ Line(cl, <<3, 4, 2, 1>>) = ((cl[3] \o cl[4]) \o cl[2]) \o cl[1]
<1>1. Line(cl, <<1, 2, 3, 4>>) = ((cl[1] \o cl[2]) \o cl[3]) \o cl[4]
  <2> DEFINE o == <<1, 2, 3, 4>>
  <2>1. o[1] = 1 /\ o[2] = 2 /\ o[3] = 3 /\ o[4] = 4
    OBVIOUS
  <2> HIDE DEF o
  <2>2. Line(cl, o) = ((cl[o[1]] \o cl[o[2]]) \o cl[o[3]]) \o cl[o[4]]
    BY DEF Line
  <2>3. Line(cl, o) = ((cl[1] \o cl[2]) \o cl[3]) \o cl[4]
    BY <2>1, <2>2
  <2> QED
    BY <2>3 DEF o
<1>2. Line(cl, <<4, 1, 2, 3>>) = ((cl[4] \o cl[1]) \o cl[2]) \o cl[3]
  <2> DEFINE o == <<4, 1, 2, 3>>
  <2>1. o[1] = 4 /\ o[2] = 1 /\ o[3] = 2 /\ o[4] = 3
    OBVIOUS
  <2> HIDE DEF o
  <2>2. Line(cl, o) = ((cl[o[1]] \o cl[o[2]]) \o cl[o[3]]) \o cl[o[4]]
    BY DEF Line
  <2>3. Line(cl, o) = ((cl[4] \o cl[1]) \o cl[2]) \o cl[3]
    BY <2>1, <2>2
  <2> QED
    BY <2>3 DEF o
<1>3. Line(cl, <<3, 4, 2, 1>>) = ((cl[3] \o cl[4]) \o cl[2]) \o cl[1]
  <2> DEFINE o == <<3, 4, 2, 1>>
  <2>1. o[1] = 3 /\ o[2] = 4 /\ o[3] = 2 /\ o[4] = 1
    OBVIOUS
  <2> HIDE DEF o
  <2>2. Line(cl, o) = ((cl[o[1]] \o cl[o[2]]) \o cl[o[3]]) \o cl[o[4]]
    BY DEF Line
  <2>3. Line(cl, o) = ((cl[3] \o cl[4]) \o cl[2]) \o cl[1]
    BY <2>1, <2>2
  <2> QED
    BY <2>3 DEF o
<1> QED
  BY <1>1, <1>2, <1>3

\* In each order the line is read as the same request.
LEMMA LineRead ==
  ASSUME NEW field, NEW direction \in {"asc", "desc"}, NEW word, word \notin Keywords,
         NEW c, ParseFilterToken(word) = <<c>>, NEW order \in Orders
  PROVE  \E req :
           /\ ParseFind(Line(Clauses(field, direction, word), order)) = <<req>>
           /\ Asks(req, field, direction = "asc", c)
<1> DEFINE up == direction = "asc"
           E == EmptyRequest
<1>1. PICK X, h, i, j, k :
        /\ Clauses(field, direction, word) = <<h, i, j, k>>
        /\ h \in Seq(X) /\ Len(h) = 2 /\ h[1] = <<"sort">> /\ h[2] = <<field>>
        /\ i \in Seq(X) /\ Len(i) = 1 /\ i[1] = <<direction>>
        /\ j \in Seq(X) /\ Len(j) = 2 /\ j[1] = <<"limit">> /\ j[2] = <<"2">>
        /\ k \in Seq(X) /\ Len(k) = 1 /\ k[1] = word
  BY ClausesAre, SMTT(30)
<1> DEFINE cl == Clauses(field, direction, word)
<1>6. cl[1] = h /\ cl[2] = i /\ cl[3] = j /\ cl[4] = k
  BY <1>1
<1> HIDE DEF cl
<1>2. /\ 1 \in 1..1 /\ 1 \in 1..2 /\ 2 \in 1..2
      /\ 2 + 1 = 3 /\ 2 + 1 + 1 = 4 /\ 2 + 1 + 2 = 5 /\ 2 + 1 + 2 + 1 = 6
      /\ 1 + 1 = 2 /\ 1 + 2 = 3 /\ 1 + 2 + 1 = 4 /\ 1 + 2 + 1 + 1 = 5 /\ 1 + 2 + 1 + 2 = 6
      /\ 2 + 1 + 1 + 1 = 5 /\ 2 + 1 + 1 + 2 = 6
  OBVIOUS
<1>3. CASE order = <<1, 2, 3, 4>>
  <2> DEFINE line == ((h \o i) \o j) \o k
  <2>1. Line(cl, order) = line
    <3>1. Line(cl, <<1, 2, 3, 4>>) = line
      BY <1>6, LineOf, Zenon
    <3> QED
      BY <1>3, <3>1, Zenon
  <2>2. IsLine(line, h, i, j, k)
    <3>1. h \in Seq(X) /\ i \in Seq(X) /\ j \in Seq(X) /\ k \in Seq(X)
      BY <1>1
    <3> QED
      BY <3>1, LineIs, Zenon
  <2> HIDE DEF line
  <2>3. /\ Len(line) = 6
        /\ line[1] = <<"sort">>
        /\ line[2] = <<field>>
        /\ line[3] = <<direction>>
        /\ line[4] = <<"limit">>
        /\ line[5] = <<"2">>
        /\ line[6] = word
    BY <1>1, <1>2, <2>2 DEF IsLine
  <2> DEFINE p == SortedBy(E, field)
             q == Directed(p, up)
             r == Limited(q, 2)
             s == Narrowed(r, <<c>>)
  <2>4. ParseTurn(line, At(1, E)) = At(3, p)
    <3> DEFINE n == 1
    <3>1. ~ (n > Len(line)) /\ line[n] = <<"sort">> /\ n # Len(line) /\ line[n + 1] = <<field>> /\ n + 2 = 3
      BY <2>3
    <3> HIDE DEF n, E
    <3>2. ParseTurn(line, At(n, E)) = At(n + 2, p)
      BY <3>1, TurnSort
    <3> QED
      BY <3>1, <3>2 DEF n
  <2>5. ParseTurn(line, At(3, p)) = At(4, q)
    <3> DEFINE n == 3
    <3>1. ~ (n > Len(line)) /\ line[n] = <<direction>> /\ n + 1 = 4
      BY <2>3
    <3> HIDE DEF n, p
    <3>2. ParseTurn(line, At(n, p)) = At(n + 1, q)
      BY <3>1, TurnDirection
    <3> QED
      BY <3>1, <3>2 DEF n
  <2>6. ParseTurn(line, At(4, q)) = At(6, r)
    <3> DEFINE n == 4
    <3>1. ~ (n > Len(line)) /\ line[n] = <<"limit">> /\ n # Len(line) /\ line[n + 1] = <<"2">> /\ n + 2 = 6
      BY <2>3
    <3> HIDE DEF n, q
    <3>2. ParseTurn(line, At(n, q)) = At(n + 2, r)
      BY <3>1, TurnLimit
    <3> QED
      BY <3>1, <3>2 DEF n
  <2>7. ParseTurn(line, At(6, r)) = At(7, s)
    <3> DEFINE n == 6
    <3>1. ~ (n > Len(line)) /\ line[n] \notin Keywords /\ ParseFilterToken(line[n]) = <<c>> /\ n + 1 = 7
      BY <2>3
    <3> HIDE DEF n, r
    <3>2. ParseTurn(line, At(n, r)) = At(n + 1, s)
      BY <3>1, TurnFilter
    <3> QED
      BY <3>1, <3>2 DEF n
  <2>8. Asks(s, field, up, c)
    <3>1. s \in {Narrowed(Limited(Directed(SortedBy(EmptyRequest, field), up), 2), <<c>>),
                  Limited(Directed(SortedBy(Narrowed(EmptyRequest, <<c>>), field), up), 2),
                  SortedBy(Directed(Narrowed(Limited(EmptyRequest, 2), <<c>>), up), field)}
      OBVIOUS
    <3> HIDE DEF s, up
    <3> QED
      BY <3>1, OrdersAsk, Zenon
  <2> HIDE DEF p, q, r, s, E
  <2>9. ParseFind(line) = <<s>>
    BY <2>3, <2>4, <2>5, <2>6, <2>7, SixWords DEF E
  <2> QED
    BY <2>1, <2>8, <2>9 DEF cl
<1>4. CASE order = <<4, 1, 2, 3>>
  <2> DEFINE line == ((k \o h) \o i) \o j
  <2>1. Line(cl, order) = line
    <3>1. Line(cl, <<4, 1, 2, 3>>) = line
      BY <1>6, LineOf, Zenon
    <3> QED
      BY <1>4, <3>1, Zenon
  <2>2. IsLine(line, k, h, i, j)
    <3>1. h \in Seq(X) /\ i \in Seq(X) /\ j \in Seq(X) /\ k \in Seq(X)
      BY <1>1
    <3> QED
      BY <3>1, LineIs, Zenon
  <2> HIDE DEF line
  <2>3. /\ Len(line) = 6
        /\ line[1] = word
        /\ line[2] = <<"sort">>
        /\ line[3] = <<field>>
        /\ line[4] = <<direction>>
        /\ line[5] = <<"limit">>
        /\ line[6] = <<"2">>
    BY <1>1, <1>2, <2>2 DEF IsLine
  <2> DEFINE p == Narrowed(E, <<c>>)
             q == SortedBy(p, field)
             r == Directed(q, up)
             s == Limited(r, 2)
  <2>4. ParseTurn(line, At(1, E)) = At(2, p)
    <3> DEFINE n == 1
    <3>1. ~ (n > Len(line)) /\ line[n] \notin Keywords /\ ParseFilterToken(line[n]) = <<c>> /\ n + 1 = 2
      BY <2>3
    <3> HIDE DEF n, E
    <3>2. ParseTurn(line, At(n, E)) = At(n + 1, p)
      BY <3>1, TurnFilter
    <3> QED
      BY <3>1, <3>2 DEF n
  <2>5. ParseTurn(line, At(2, p)) = At(4, q)
    <3> DEFINE n == 2
    <3>1. ~ (n > Len(line)) /\ line[n] = <<"sort">> /\ n # Len(line) /\ line[n + 1] = <<field>> /\ n + 2 = 4
      BY <2>3
    <3> HIDE DEF n, p
    <3>2. ParseTurn(line, At(n, p)) = At(n + 2, q)
      BY <3>1, TurnSort
    <3> QED
      BY <3>1, <3>2 DEF n
  <2>6. ParseTurn(line, At(4, q)) = At(5, r)
    <3> DEFINE n == 4
    <3>1. ~ (n > Len(line)) /\ line[n] = <<direction>> /\ n + 1 = 5
      BY <2>3
    <3> HIDE DEF n, q
    <3>2. ParseTurn(line, At(n, q)) = At(n + 1, r)
      BY <3>1, TurnDirection
    <3> QED
      BY <3>1, <3>2 DEF n
  <2>7. ParseTurn(line, At(5, r)) = At(7, s)
    <3> DEFINE n == 5
    <3>1. ~ (n > Len(line)) /\ line[n] = <<"limit">> /\ n # Len(line) /\ line[n + 1] = <<"2">> /\ n + 2 = 7
      BY <2>3
    <3> HIDE DEF n, r
    <3>2. ParseTurn(line, At(n, r)) = At(n + 2, s)
      BY <3>1, TurnLimit
    <3> QED
      BY <3>1, <3>2 DEF n
  <2>8. Asks(s, field, up, c)
    <3>1. s \in {Narrowed(Limited(Directed(SortedBy(EmptyRequest, field), up), 2), <<c>>),
                  Limited(Directed(SortedBy(Narrowed(EmptyRequest, <<c>>), field), up), 2),
                  SortedBy(Directed(Narrowed(Limited(EmptyRequest, 2), <<c>>), up), field)}
      OBVIOUS
    <3> HIDE DEF s, up
    <3> QED
      BY <3>1, OrdersAsk, Zenon
  <2> HIDE DEF p, q, r, s, E
  <2>9. ParseFind(line) = <<s>>
    BY <2>3, <2>4, <2>5, <2>6, <2>7, SixWords DEF E
  <2> QED
    BY <2>1, <2>8, <2>9 DEF cl
<1>5. CASE order = <<3, 4, 2, 1>>
  <2> DEFINE line == ((j \o k) \o i) \o h
  <2>1. Line(cl, order) = line
    <3>1. Line(cl, <<3, 4, 2, 1>>) = line
      BY <1>6, LineOf, Zenon
    <3> QED
      BY <1>5, <3>1, Zenon
  <2>2. IsLine(line, j, k, i, h)
    <3>1. h \in Seq(X) /\ i \in Seq(X) /\ j \in Seq(X) /\ k \in Seq(X)
      BY <1>1
    <3> QED
      BY <3>1, LineIs, Zenon
  <2> HIDE DEF line
  <2>3. /\ Len(line) = 6
        /\ line[1] = <<"limit">>
        /\ line[2] = <<"2">>
        /\ line[3] = word
        /\ line[4] = <<direction>>
        /\ line[5] = <<"sort">>
        /\ line[6] = <<field>>
    BY <1>1, <1>2, <2>2 DEF IsLine
  <2> DEFINE p == Limited(E, 2)
             q == Narrowed(p, <<c>>)
             r == Directed(q, up)
             s == SortedBy(r, field)
  <2>4. ParseTurn(line, At(1, E)) = At(3, p)
    <3> DEFINE n == 1
    <3>1. ~ (n > Len(line)) /\ line[n] = <<"limit">> /\ n # Len(line) /\ line[n + 1] = <<"2">> /\ n + 2 = 3
      BY <2>3
    <3> HIDE DEF n, E
    <3>2. ParseTurn(line, At(n, E)) = At(n + 2, p)
      BY <3>1, TurnLimit
    <3> QED
      BY <3>1, <3>2 DEF n
  <2>5. ParseTurn(line, At(3, p)) = At(4, q)
    <3> DEFINE n == 3
    <3>1. ~ (n > Len(line)) /\ line[n] \notin Keywords /\ ParseFilterToken(line[n]) = <<c>> /\ n + 1 = 4
      BY <2>3
    <3> HIDE DEF n, p
    <3>2. ParseTurn(line, At(n, p)) = At(n + 1, q)
      BY <3>1, TurnFilter
    <3> QED
      BY <3>1, <3>2 DEF n
  <2>6. ParseTurn(line, At(4, q)) = At(5, r)
    <3> DEFINE n == 4
    <3>1. ~ (n > Len(line)) /\ line[n] = <<direction>> /\ n + 1 = 5
      BY <2>3
    <3> HIDE DEF n, q
    <3>2. ParseTurn(line, At(n, q)) = At(n + 1, r)
      BY <3>1, TurnDirection
    <3> QED
      BY <3>1, <3>2 DEF n
  <2>7. ParseTurn(line, At(5, r)) = At(7, s)
    <3> DEFINE n == 5
    <3>1. ~ (n > Len(line)) /\ line[n] = <<"sort">> /\ n # Len(line) /\ line[n + 1] = <<field>> /\ n + 2 = 7
      BY <2>3
    <3> HIDE DEF n, r
    <3>2. ParseTurn(line, At(n, r)) = At(n + 2, s)
      BY <3>1, TurnSort
    <3> QED
      BY <3>1, <3>2 DEF n
  <2>8. Asks(s, field, up, c)
    <3>1. s \in {Narrowed(Limited(Directed(SortedBy(EmptyRequest, field), up), 2), <<c>>),
                  Limited(Directed(SortedBy(Narrowed(EmptyRequest, <<c>>), field), up), 2),
                  SortedBy(Directed(Narrowed(Limited(EmptyRequest, 2), <<c>>), up), field)}
      OBVIOUS
    <3> HIDE DEF s, up
    <3> QED
      BY <3>1, OrdersAsk, Zenon
  <2> HIDE DEF p, q, r, s, E
  <2>9. ParseFind(line) = <<s>>
    BY <2>3, <2>4, <2>5, <2>6, <2>7, SixWords DEF E
  <2> QED
    BY <2>1, <2>8, <2>9 DEF cl
<1> QED
  BY <1>3, <1>4, <1>5 DEF Orders

------------------------------------------------------------------------------
(* What is refused *)

\* A name is a field that is no operator, number, keyword or limit.
LEMMA NamesAre ==
  ASSUME NEW field \in Names
  PROVE  /\ field \in Fields /\ field \notin Operators /\ field \notin DOMAIN Number
         /\ field # NoField /\ field # "asc" /\ field # "desc" /\ field \notin Positive
<1>1. field \in Fields /\ field \notin {"=", "<", ">", "asc", "desc", NoField} \cup DOMAIN Number
  BY DEF Names
<1>2. field # NoField
  BY <1>1
<1> QED
  BY <1>1, <1>2, Limits DEF Operators

\* What the first turn refuses, the shell refuses.
LEMMA FirstTurnRefused ==
  ASSUME NEW words, NEW n \in 1..2, Len(words) = n,
         \/ words[1] = <<"sort">> /\ 1 = n
         \/ words[1] = <<"limit">> /\ 1 = n
         \/ words[1] = <<"limit">> /\ Joined(words[2]) \notin Positive
         \/ words[1] \notin Keywords /\ ParseFilterToken(words[1]) = Refused
  PROVE  CmdFind(words) = {}
<1> DEFINE i == 1
<1>1. /\ ~ (i > Len(words)) /\ words[i + 1] = words[2]
      /\ \/ words[i] = <<"sort">> /\ i = Len(words)
         \/ words[i] = <<"limit">> /\ i = Len(words)
         \/ words[i] = <<"limit">> /\ Joined(words[i + 1]) \notin Positive
         \/ words[i] \notin Keywords /\ ParseFilterToken(words[i]) = Refused
  <2>1. words[i + 1] = words[2]
    OBVIOUS
  <2>2. ~ (i > Len(words))
    OBVIOUS
  <2> QED
    BY <2>1, <2>2
<1> HIDE DEF i
<1>2. ParseTurn(words, At(i, EmptyRequest)).parsed = Refused
  BY <1>1, TurnRefuses, Zenon
<1>3. ParseFind(words) = Refused
  <2>1. Len(words) \in 1..2
    OBVIOUS
  <2> QED
    BY <1>2, <2>1, RefusedLine, Zenon DEF i
<1>4. ToSet(Refused) = {}
  BY DEF Refused, ToSet
<1> QED
  BY <1>3, <1>4, Zenon DEF CmdFind

\* Each malformed line is refused by its first turn.
LEMMA MalformedRefused ==
  ASSUME NEW field \in Names, NEW line \in Malformed(field)
  PROVE  CmdFind(line) = {}
<1>1. /\ field \notin Operators /\ field \notin DOMAIN Number
      /\ field # "asc" /\ field # "desc" /\ field \notin Positive
  BY NamesAre
<1>2. ASSUME NEW word, word \notin Keywords, ParseFilterToken(word) = Refused
      PROVE  CmdFind(<<word>>) = {}
  <2> DEFINE words == <<word>>
  <2>1. Len(words) = 1 /\ words[1] = word
    OBVIOUS
  <2> HIDE DEF words
  <2>2. CmdFind(words) = {}
    BY <1>2, <2>1, FirstTurnRefused
  <2> QED
    BY <2>2 DEF words
<1>3. /\ CmdFind(<< <<"sort">> >>) = {}
      /\ CmdFind(<< <<"limit">> >>) = {}
  <2>1. ASSUME NEW word \in {<<"sort">>, <<"limit">>}
        PROVE  CmdFind(<<word>>) = {}
    <3> DEFINE words == <<word>>
    <3>1. Len(words) = 1 /\ words[1] = word
      OBVIOUS
    <3> HIDE DEF words
    <3>2. CmdFind(words) = {}
      BY <2>1, <3>1, FirstTurnRefused
    <3> QED
      BY <3>2 DEF words
  <2> QED
    BY <2>1
<1>4. ASSUME NEW part, part \notin Positive
      PROVE  CmdFind(<< <<"limit">>, <<part>> >>) = {}
  <2> DEFINE words == << <<"limit">>, <<part>> >>
  <2>1. Len(words) = 2 /\ words[1] = <<"limit">> /\ words[2] = <<part>>
    OBVIOUS
  <2>2. Joined(<<part>>) = part
    BY JoinedOne
  <2> HIDE DEF words
  <2>3. Joined(words[2]) \notin Positive
    BY <1>4, <2>1, <2>2, Zenon
  <2>4. CmdFind(words) = {}
    BY <2>1, <2>3, FirstTurnRefused
  <2> QED
    BY <2>4 DEF words
<1>5. CASE line = << <<"sort">> >> \/ line = << <<"limit">> >>
  BY <1>3, <1>5
<1>6. CASE line = << <<"limit">>, <<"0">> >>
  <2>1. "0" \notin Positive
    BY Limits
  <2> QED
    BY <1>4, <1>6, <2>1, Zenon
<1>7. CASE line = << <<"limit">>, <<field>> >>
  BY <1>1, <1>4, <1>7, Zenon
<1>8. CASE line = << <<field, ">">> >>
  <2>1. <<field, ">">> \notin Keywords
    <3>1. \A k \in Keywords : Len(k) = 1
      BY DEF Keywords
    <3>2. Len(<<field, ">">>) = 2
      OBVIOUS
    <3> QED
      BY <3>1, <3>2
  <2>2. ParseFilterToken(<<field, ">">>) = Refused
    BY <1>1, NoCondition
  <2> QED
    BY <1>2, <1>8, <2>1, <2>2, Zenon
<1>9. CASE line = << <<field, ">", "=">> >>
  <2>1. <<field, ">", "=">> \notin Keywords
    <3>1. \A k \in Keywords : Len(k) = 1
      BY DEF Keywords
    <3>2. Len(<<field, ">", "=">>) = 3
      OBVIOUS
    <3> QED
      BY <3>1, <3>2
  <2>2. ParseFilterToken(<<field, ">", "=">>) = Refused
    BY <1>1, NoCondition
  <2> QED
    BY <1>2, <1>9, <2>1, <2>2, Zenon
<1>10. CASE line = << <<">", "1">> >>
  <2>1. <<">", "1">> \notin Keywords
    <3>1. \A k \in Keywords : Len(k) = 1
      BY DEF Keywords
    <3>2. Len(<<">", "1">>) = 2
      OBVIOUS
    <3> QED
      BY <3>1, <3>2
  <2>2. ParseFilterToken(<<">", "1">>) = Refused
    BY <1>1, NoCondition
  <2> QED
    BY <1>2, <1>10, <2>1, <2>2, Zenon
<1>11. CASE line = << <<field, ">", field>> >>
  <2>1. <<field, ">", field>> \notin Keywords
    <3>1. \A k \in Keywords : Len(k) = 1
      BY DEF Keywords
    <3>2. Len(<<field, ">", field>>) = 3
      OBVIOUS
    <3> QED
      BY <3>1, <3>2
  <2>2. ParseFilterToken(<<field, ">", field>>) = Refused
    BY <1>1, ThreeParts
  <2> QED
    BY <1>2, <1>11, <2>1, <2>2, Zenon
<1>12. CASE line = << <<field>> >>
  <2>1. ParseFilterToken(<<field>>) = Refused
    BY <1>1, NoCondition
  <2>2. CASE <<field>> \in Keywords
    <3>1. \A k \in Keywords : k[1] \in {"sort", "asc", "desc", "limit"}
      BY DEF Keywords
    <3>2. <<field>>[1] = field
      OBVIOUS
    <3>3. field = "sort" \/ field = "limit"
      BY <1>1, <2>2, <3>1, <3>2
    <3> QED
      BY <1>3, <1>12, <3>3
  <2>3. CASE <<field>> \notin Keywords
    BY <1>2, <1>12, <2>1, <2>3, Zenon
  <2> QED
    BY <2>2, <2>3
<1>13. \/ line = << <<"sort">> >> \/ line = << <<"limit">> >>
       \/ line = << <<"limit">>, <<"0">> >> \/ line = << <<"limit">>, <<field>> >>
       \/ line = << <<field, ">">> >> \/ line = << <<field, ">", "=">> >>
       \/ line = << <<">", "1">> >> \/ line = << <<field, ">", field>> >>
       \/ line = << <<field>> >>
  BY Zenon DEF Malformed
<1> QED
  BY <1>5, <1>6, <1>7, <1>8, <1>9, <1>10, <1>11, <1>12, <1>13, Zenon

------------------------------------------------------------------------------
(* What is found *)

SymbolsDiffer ==
  /\ <<"=">> # <<">">> /\ <<"=">> # <<"<">> /\ <<"=">> # <<">", "=">> /\ <<"=">> # <<"<", "=">>
  /\ <<">">> # <<"<">> /\ <<">">> # <<">", "=">> /\ <<">">> # <<"<", "=">>
  /\ <<"<">> # <<">", "=">> /\ <<"<">> # <<"<", "=">> /\ <<">", "=">> # <<"<", "=">>

\* No symbol is another.
LEMMA SymbolsAre ==
  SymbolsDiffer
BY DEF SymbolsDiffer

\* What is meant with each of the symbols.
MeantBy(field, symbol, value, v) ==
  CASE symbol = <<"=">> -> Printed[v] = value
    [] symbol # <<"=">> /\ v \notin NumericVals -> FALSE
    [] symbol = <<">">> /\ v \in NumericVals ->
         Num[v] > Number[value] /\ ~ Near(Number[value], Num[v]) /\ Num[v] <= MaxKey
    [] symbol = <<"<">> /\ v \in NumericVals ->
         Num[v] < Number[value] /\ ~ Near(Number[value], Num[v]) /\ Num[v] >= MinKey
    [] symbol = <<">", "=">> /\ v \in NumericVals -> Num[v] >= Number[value] /\ Num[v] <= MaxKey
    [] OTHER -> Num[v] <= Number[value] /\ Num[v] >= MinKey

\* What is meant, value by value ...
LEMMA MeantIs ==
  ASSUME NEW field, NEW symbol, NEW value
  PROVE  Meant(field, symbol, value) =
           {rec \in Live : field \in DOMAIN rec.doc /\ MeantBy(field, symbol, value, rec.doc[field])}
BY Zenon DEF Meant, MeantBy

\* What a range that is typed means.
InRange(op, k, n) ==
  CASE op = "gt" -> n > k /\ ~ Near(k, n) /\ n <= MaxKey
    [] op = "lt" -> n < k /\ ~ Near(k, n) /\ n >= MinKey
    [] op = "gte" -> n >= k /\ n <= MaxKey
    [] op = "lte" -> n <= k /\ n >= MinKey

\* ... and symbol by symbol.
LEMMA MeantBySymbol ==
  ASSUME NEW field, NEW value, NEW v
  PROVE  /\ MeantBy(field, <<"=">>, value, v) <=> Printed[v] = value
         /\ MeantBy(field, <<">">>, value, v) <=>
              v \in NumericVals /\ InRange("gt", Number[value], Num[v])
         /\ MeantBy(field, <<"<">>, value, v) <=>
              v \in NumericVals /\ InRange("lt", Number[value], Num[v])
         /\ MeantBy(field, <<">", "=">>, value, v) <=>
              v \in NumericVals /\ InRange("gte", Number[value], Num[v])
         /\ MeantBy(field, <<"<", "=">>, value, v) <=>
              v \in NumericVals /\ InRange("lte", Number[value], Num[v])
<1> DEFINE eq == <<"=">>
           gt == <<">">>
           lt == <<"<">>
           gte == <<">", "=">>
           lte == <<"<", "=">>
           gtv == Num[v] > Number[value] /\ ~ Near(Number[value], Num[v]) /\ Num[v] <= MaxKey
           ltv == Num[v] < Number[value] /\ ~ Near(Number[value], Num[v]) /\ Num[v] >= MinKey
           gev == Num[v] >= Number[value] /\ Num[v] <= MaxKey
           lev == Num[v] <= Number[value] /\ Num[v] >= MinKey
<1>1. /\ eq # gt /\ eq # lt /\ eq # gte /\ eq # lte /\ gt # lt /\ gt # gte /\ gt # lte
      /\ lt # gte /\ lt # lte /\ gte # lte
  BY SymbolsAre, Zenon DEF SymbolsDiffer
<1>2. \A symbol : MeantBy(field, symbol, value, v) <=>
        CASE symbol = eq -> Printed[v] = value
          [] symbol # eq /\ v \notin NumericVals -> FALSE
          [] symbol = gt /\ v \in NumericVals -> gtv
          [] symbol = lt /\ v \in NumericVals -> ltv
          [] symbol = gte /\ v \in NumericVals -> gev
          [] OTHER -> lev
  BY Zenon DEF MeantBy
<1>8. /\ InRange("gt", Number[value], Num[v]) <=> gtv
      /\ InRange("lt", Number[value], Num[v]) <=> ltv
      /\ InRange("gte", Number[value], Num[v]) <=> gev
      /\ InRange("lte", Number[value], Num[v]) <=> lev
  BY DEF InRange
<1> HIDE DEF eq, gt, lt, gte, lte, gtv, ltv, gev, lev
<1>3. MeantBy(field, eq, value, v) <=> Printed[v] = value
  BY <1>1, <1>2, Zenon
<1>4. MeantBy(field, gt, value, v) <=> v \in NumericVals /\ gtv
  BY <1>1, <1>2, Zenon
<1>5. MeantBy(field, lt, value, v) <=> v \in NumericVals /\ ltv
  BY <1>1, <1>2, Zenon
<1>6. MeantBy(field, gte, value, v) <=> v \in NumericVals /\ gev
  BY <1>1, <1>2, Zenon
<1>7. MeantBy(field, lte, value, v) <=> v \in NumericVals /\ lev
  BY <1>1, <1>2, Zenon
<1> QED
  BY <1>3, <1>4, <1>5, <1>6, <1>7, <1>8, Zenon DEF eq, gt, lt, gte, lte

\* Records, each once, and which.
Once(found, S) ==
  /\ found \in Seq(Recs) /\ IsInjective(found)
  /\ Len(found) = Cardinality(ToSet(found)) /\ ToSet(found) = S

\* A range that is typed is read from the tree of its field.
LEMMA RangeMeant ==
  ASSUME IInv, FiledAsRead, NEW field \in Names, NEW value \in DOMAIN Number,
         NEW op \in {"gt", "lt", "gte", "lte"}
  PROVE  Once(Matched(ix, <<[field |-> field, op |-> op, value |-> Number[value]]>>),
              {rec \in Live :
                 /\ field \in DOMAIN rec.doc /\ rec.doc[field] \in NumericVals
                 /\ InRange(op, Number[value], Num[rec.doc[field]])})
<1> DEFINE k == Number[value]
           c == [field |-> field, op |-> op, value |-> k]
           found == Matched(ix, <<c>>)
           n(rec) == Num[rec.doc[field]]
<1>1. k \in Keys /\ field \in Fields /\ field # IdField
  BY TypedAssumption, NamesAre, IdFieldAssumption
<1>2. c \in Filters /\ c.field = field /\ c.op = op /\ c.value = k
  BY <1>1 DEF Filters
<1> HIDE DEF c, k
<1>3. OneFinds(c, found)
  BY <1>2, OneFound
<1> HIDE DEF found
<1>4. /\ found \in Seq(Recs) /\ IsInjective(found) /\ Len(found) = Cardinality(ToSet(found))
      /\ ToSet(found) \cap Live = Scanned(c) \cap Indexed(c)
      /\ ToSet(found) \subseteq Live \cup Treed(trees)
  BY <1>3 DEF OneFinds
<1>5. ToSet(found) = Scanned(c) \cap Indexed(c)
  <2>1. Treed(trees) \subseteq Live
    BY DEF FiledAsRead
  <2> QED
    BY <1>4, <2>1
<1>6. \A rec \in Live :
        rec \in Indexed(c) <=> field \in NumericFields(rec.doc) /\ Reached(c, n(rec))
  <2> DEFINE Numbered == {i \in DOMAIN docs : /\ field \in NumericFields(filed[i])
                                              /\ Reached(c, Num[filed[i][field]])}
  <2>1. Indexed(c) = {docs[id] : id \in Numbered}
    BY <1>1, <1>2 DEF Indexed
  <2>2. \A i \in DOMAIN docs :
          i \in Numbered <=> field \in NumericFields(docs[i].doc) /\ Reached(c, n(docs[i]))
    BY DEF FiledAsRead
  <2>3. Numbered \subseteq DOMAIN docs
    OBVIOUS
  <2> HIDE DEF Numbered, n
  <2>4. ASSUME NEW rec \in Live
        PROVE  rec \in Indexed(c) <=> field \in NumericFields(rec.doc) /\ Reached(c, n(rec))
    <3>1. PICK id \in DOMAIN docs : rec = docs[id]
      BY DEF Live
    <3>2. ASSUME rec \in Indexed(c)
          PROVE  field \in NumericFields(rec.doc) /\ Reached(c, n(rec))
      <4>1. PICK i \in Numbered : rec = docs[i]
        BY <2>1, <3>2
      <4> QED
        BY <2>2, <2>3, <4>1
    <3>3. ASSUME field \in NumericFields(rec.doc), Reached(c, n(rec))
          PROVE  rec \in Indexed(c)
      <4>1. id \in Numbered
        BY <2>2, <3>1, <3>3
      <4> QED
        BY <2>1, <3>1, <4>1
    <3> QED
      BY <3>2, <3>3
  <2> QED
    BY <2>4
<1>7. \A doc : field \in NumericFields(doc) <=>
                 field \in DOMAIN doc /\ doc[field] \in NumericVals
  BY DEF NumericFields
<1>8. ASSUME NEW rec \in Live, field \in NumericFields(rec.doc)
      PROVE  Matches(rec, c) /\ Reached(c, n(rec)) <=> InRange(op, k, n(rec))
  <2>1. Has(rec, field) /\ NumOf(rec, field) = n(rec)
    BY <1>7, <1>8 DEF Has, NumOf
  <2>2. n(rec) \in Int /\ k \in Int
    <3>1. rec.doc \in Docs
      BY LiveTyped
    <3>2. n(rec) \in Keys
      BY <1>8, <3>1, NumbersTyped
    <3> QED
      BY <1>1, <3>2, KeysAssumption
  <2> DEFINE m == n(rec)
  <2>3. NumOf(rec, field) = m /\ m \in Int
    BY <2>1, <2>2
  <2> HIDE DEF n, m
  <2>4. CASE op = "gt"
    <3>1. Matches(rec, c) <=> m > k
      BY <1>2, <2>1, <2>3, <2>4 DEF Matches
    <3>2. Reached(c, m) <=> m <= MaxKey /\ ((m > k /\ ~ Near(k, m)) \/ (m = k /\ Above[m] = m))
      BY <1>2, <2>4 DEF Reached
    <3>3. InRange(op, k, m) <=> m > k /\ ~ Near(k, m) /\ m <= MaxKey
      BY <2>4 DEF InRange
    <3>4. m > k => m # k
      BY <2>2, <2>3
    <3> QED
      BY <3>1, <3>2, <3>3, <3>4 DEF m
  <2>5. CASE op = "lt"
    <3>1. Matches(rec, c) <=> m < k
      BY <1>2, <2>1, <2>3, <2>5 DEF Matches
    <3>2. Reached(c, m) <=> m >= MinKey /\ ((m < k /\ ~ Near(k, m)) \/ (m = k /\ Below[m] = m))
      BY <1>2, <2>5 DEF Reached
    <3>3. InRange(op, k, m) <=> m < k /\ ~ Near(k, m) /\ m >= MinKey
      BY <2>5 DEF InRange
    <3>4. m < k => m # k
      BY <2>2, <2>3
    <3> QED
      BY <3>1, <3>2, <3>3, <3>4 DEF m
  <2>6. CASE op = "gte"
    <3>1. Matches(rec, c) <=> m >= k
      BY <1>2, <2>1, <2>3, <2>6 DEF Matches
    <3>2. Reached(c, m) <=> m <= MaxKey /\ m >= k
      BY <1>2, <2>6 DEF Reached
    <3>3. InRange(op, k, m) <=> m >= k /\ m <= MaxKey
      BY <2>6 DEF InRange
    <3> QED
      BY <3>1, <3>2, <3>3 DEF m
  <2>7. CASE op = "lte"
    <3>1. Matches(rec, c) <=> m <= k
      BY <1>2, <2>1, <2>3, <2>7 DEF Matches
    <3>2. Reached(c, m) <=> m >= MinKey /\ m <= k
      BY <1>2, <2>7 DEF Reached
    <3>3. InRange(op, k, m) <=> m <= k /\ m >= MinKey
      BY <2>7 DEF InRange
    <3> QED
      BY <3>1, <3>2, <3>3 DEF m
  <2> QED
    BY <2>4, <2>5, <2>6, <2>7
<1>9. ASSUME NEW rec \in Live
      PROVE  rec \in Scanned(c) \cap Indexed(c) <=>
               field \in DOMAIN rec.doc /\ rec.doc[field] \in NumericVals /\ InRange(op, k, n(rec))
  <2>1. rec \in Scanned(c) <=> Matches(rec, c)
    BY DEF Scanned
  <2> HIDE DEF n
  <2> QED
    BY <1>6, <1>7, <1>8, <2>1
<1>10. Scanned(c) \cap Indexed(c) =
        {rec \in Live : /\ field \in DOMAIN rec.doc /\ rec.doc[field] \in NumericVals
                        /\ InRange(op, k, n(rec))}
  <2>1. Scanned(c) \subseteq Live
    BY DEF Scanned
  <2> HIDE DEF n
  <2> QED
    BY <1>9, <2>1
<1> QED
  BY <1>4, <1>5, <1>10 DEF Once, c, k, found

\* An equality that is typed is read from the list of its key; nothing prints as what
\* is no printed value.
LEMMA EqualMeant ==
  ASSUME IInv, FiledAsRead, NEW field \in Names, NEW value
  PROVE  LET c == [field |-> field, op |-> "eq", value |-> value]
         IN  Once(Matched(ix, <<c>>),
                  {rec \in Live : field \in DOMAIN rec.doc /\ Printed[rec.doc[field]] = value})
<1> DEFINE c == [field |-> field, op |-> "eq", value |-> value]
           S == {rec \in Live : field \in DOMAIN rec.doc /\ Printed[rec.doc[field]] = value}
<1>1. field \in Fields /\ field # IdField
  BY NamesAre, IdFieldAssumption
<1>2. c.field = field /\ c.op = "eq" /\ c.value = value
  OBVIOUS
<1>3. CASE value \in Prints
  <2> DEFINE found == Matched(ix, <<c>>)
  <2>1. c \in Filters
    BY <1>1, <1>3 DEF Filters
  <2> HIDE DEF c
  <2>2. OneFinds(c, found)
    BY <2>1, OneFound
  <2> HIDE DEF found
  <2>3. /\ found \in Seq(Recs) /\ IsInjective(found) /\ Len(found) = Cardinality(ToSet(found))
        /\ ToSet(found) \cap Live = Scanned(c) \cap Indexed(c)
        /\ \A rec \in ToSet(found) \ Live : c.op \in RangeOps
    BY <2>2 DEF OneFinds
  <2>4. ToSet(found) = Scanned(c) \cap Indexed(c)
    <3>1. c.op \notin RangeOps
      BY <1>2 DEF RangeOps
    <3> QED
      BY <2>3, <3>1
  <2>5. \A rec \in Live : Matches(rec, c) <=> rec \in S
    <3>1. ASSUME NEW rec \in Live
          PROVE  Matches(rec, c) <=> field \in DOMAIN rec.doc /\ Printed[rec.doc[field]] = value
      BY <1>1, <1>2 DEF Matches, Has, PrintOf
    <3> QED
      BY <3>1
  <2>6. S \subseteq Indexed(c)
    <3> DEFINE Printing == {i \in DOMAIN docs : <<field, value>> \in SecondaryKeys(filed[i])}
    <3>1. Indexed(c) = {docs[id] : id \in Printing}
      BY <1>1, <1>2 DEF Indexed
    <3>2. ASSUME NEW rec \in S
          PROVE  rec \in Indexed(c)
      <4>1. PICK id \in DOMAIN docs : rec = docs[id]
        BY DEF Live
      <4>2. filed[id] = rec.doc
        BY <4>1 DEF FiledAsRead
      <4>3. <<field, value>> \in SecondaryKeys(rec.doc)
        BY DEF SecondaryKeys
      <4>4. id \in Printing
        BY <4>1, <4>2, <4>3
      <4> HIDE DEF Printing
      <4> QED
        BY <3>1, <4>1, <4>4
    <3> QED
      BY <3>2
  <2>7. Scanned(c) \cap Indexed(c) = S
    <3>1. Scanned(c) = S
      BY <2>5 DEF Scanned
    <3> HIDE DEF S
    <3> QED
      BY <2>6, <3>1
  <2> QED
    BY <2>3, <2>4, <2>7 DEF Once, c, found
<1>4. CASE value \notin Prints
  <2>1. DOMAIN secondary \subseteq Fields \X Prints
    BY PostingsTyped DEF IInv, Held, ListsHold
  <2>2. Candidates(ix, <<c>>) = SecondaryLookup(secondary, field, value)
    <3> HIDE DEF c
    <3> QED
      BY <1>2, CandidatesAre
  <2>3. Candidates(ix, <<c>>) = <<>>
    BY <1>4, <2>1, <2>2 DEF SecondaryLookup
  <2> DEFINE none == <<>>
  <2>4. none \in Seq(Recs) /\ IsInjective(none) /\ ToSet(none) = {}
    BY DEF IsInjective, ToSet
  <2> HIDE DEF none, c
  <2>5. Once(Matched(ix, <<c>>), {})
    <3>1. Candidates(ix, <<c>>) = none
      BY <2>3 DEF none
    <3>2. /\ Candidates(ix, <<c>>) \in Seq(Recs) /\ IsInjective(Candidates(ix, <<c>>))
          /\ ToSet(Candidates(ix, <<c>>)) = {}
      BY <2>4, <3>1
    <3>3. /\ Matched(ix, <<c>>) \in Seq(Recs) /\ IsInjective(Matched(ix, <<c>>))
          /\ Len(Matched(ix, <<c>>)) = Cardinality(ToSet(Matched(ix, <<c>>)))
          /\ ToSet(Matched(ix, <<c>>)) = {r \in {} : MatchesAll(r, <<c>>)}
      BY <3>2, FoundAmong
    <3> QED
      BY <3>3 DEF Once
  <2>6. S = {}
    <3>1. ASSUME NEW rec \in Live, field \in DOMAIN rec.doc
          PROVE  Printed[rec.doc[field]] \in Prints
      <4>1. rec.doc \in Docs
        BY LiveTyped
      <4>2. rec.doc[field] \in Vals
        BY <3>1, <4>1 DEF Docs
      <4> QED
        BY <4>2, ValuesAssumption
    <3> QED
      BY <1>4, <3>1
  <2> QED
    BY <2>5, <2>6 DEF c
<1> QED
  BY <1>3, <1>4

\* A typed condition finds what is meant, each document once.
LEMMA ConditionFinds ==
  ASSUME IInv, FiledAsRead, NEW field \in Names, NEW symbol \in Symbols,
         NEW value \in DOMAIN Number
  PROVE  Once(Matched(ix, <<Condition(field, symbol, value)>>), Meant(field, symbol, value))
<1> DEFINE c == Condition(field, symbol, value)
           k == Number[value]
           n(rec) == Num[rec.doc[field]]
<1>1. Meant(field, symbol, value) =
        {rec \in Live : field \in DOMAIN rec.doc /\ MeantBy(field, symbol, value, rec.doc[field])}
  BY MeantIs
<1>2. CASE symbol = <<"=">>
  <2>1. c = [field |-> field, op |-> "eq", value |-> value]
    BY <1>2 DEF Condition, OpOf
  <2>2. Meant(field, symbol, value) =
          {rec \in Live : field \in DOMAIN rec.doc /\ Printed[rec.doc[field]] = value}
    BY <1>1, <1>2, MeantBySymbol
  <2> HIDE DEF c
  <2>3. Once(Matched(ix, <<c>>),
             {rec \in Live : field \in DOMAIN rec.doc /\ Printed[rec.doc[field]] = value})
    BY <2>1, EqualMeant, Zenon
  <2> QED
    BY <2>2, <2>3, Zenon DEF c
<1>3. ASSUME NEW op \in {"gt", "lt", "gte", "lte"}, c = [field |-> field, op |-> op, value |-> k],
             \A v : MeantBy(field, symbol, value, v) <=> v \in NumericVals /\ InRange(op, k, Num[v])
      PROVE  Once(Matched(ix, <<c>>), Meant(field, symbol, value))
  <2> DEFINE S == {rec \in Live : /\ field \in DOMAIN rec.doc /\ rec.doc[field] \in NumericVals
                                  /\ InRange(op, k, n(rec))}
  <2>1. Once(Matched(ix, <<[field |-> field, op |-> op, value |-> k]>>), S)
    BY RangeMeant, Zenon
  <2> HIDE DEF c
  <2>2. Once(Matched(ix, <<c>>), S)
    BY <1>3, <2>1, Zenon
  <2>3. Meant(field, symbol, value) = S
    BY <1>1, <1>3, Zenon
  <2> QED
    BY <2>2, <2>3, Zenon
<1>4. CASE symbol = <<">">>
  <2>1. c = [field |-> field, op |-> "gt", value |-> k]
    BY <1>4 DEF Condition, OpOf
  <2>2. \A v : MeantBy(field, symbol, value, v) <=> v \in NumericVals /\ InRange("gt", k, Num[v])
    BY <1>4, MeantBySymbol, Zenon
  <2> HIDE DEF c, k
  <2>3. Once(Matched(ix, <<c>>), Meant(field, symbol, value))
    BY <1>3, <2>1, <2>2
  <2> QED
    BY <2>3 DEF c
<1>5. CASE symbol = <<"<">>
  <2>1. c = [field |-> field, op |-> "lt", value |-> k]
    BY <1>5 DEF Condition, OpOf
  <2>2. \A v : MeantBy(field, symbol, value, v) <=> v \in NumericVals /\ InRange("lt", k, Num[v])
    BY <1>5, MeantBySymbol, Zenon
  <2> HIDE DEF c, k
  <2>3. Once(Matched(ix, <<c>>), Meant(field, symbol, value))
    BY <1>3, <2>1, <2>2
  <2> QED
    BY <2>3 DEF c
<1>6. CASE symbol = <<">", "=">>
  <2>1. c = [field |-> field, op |-> "gte", value |-> k]
    BY <1>6 DEF Condition, OpOf
  <2>2. \A v : MeantBy(field, symbol, value, v) <=> v \in NumericVals /\ InRange("gte", k, Num[v])
    BY <1>6, MeantBySymbol, Zenon
  <2> HIDE DEF c, k
  <2>3. Once(Matched(ix, <<c>>), Meant(field, symbol, value))
    BY <1>3, <2>1, <2>2
  <2> QED
    BY <2>3 DEF c
<1>7. CASE symbol = <<"<", "=">>
  <2>1. c = [field |-> field, op |-> "lte", value |-> k]
    BY <1>7, SymbolsAre DEF Condition, OpOf, SymbolsDiffer
  <2>2. \A v : MeantBy(field, symbol, value, v) <=> v \in NumericVals /\ InRange("lte", k, Num[v])
    BY <1>7, MeantBySymbol, Zenon
  <2> HIDE DEF c, k
  <2>3. Once(Matched(ix, <<c>>), Meant(field, symbol, value))
    BY <1>3, <2>1, <2>2
  <2> QED
    BY <2>3 DEF c
<1>8. \/ symbol = <<"=">> \/ symbol = <<">">> \/ symbol = <<"<">>
      \/ symbol = <<">", "=">> \/ symbol = <<"<", "=">>
  BY Zenon DEF Symbols
<1> QED
  BY <1>2, <1>4, <1>5, <1>6, <1>7, <1>8, Zenon

------------------------------------------------------------------------------
(* What is answered *)

\* What Find makes of the requests that are typed.
LEMMA PlainAnswer ==
  ASSUME NEW c, NEW req, req.filters = <<c>>, req.sortBy = NoField, req.limit = 0,
         req.projection = {}
  PROVE  ExecuteFind(ix, req) = Matched(ix, <<c>>)
<1> DEFINE recs == Matched(ix, <<c>>)
<1> HIDE DEF recs
<1>1. Matched(ix, req.filters) = recs
  BY DEF recs
<1>2. Picks(recs, req) = recs
  BY DEF Picks
<1> QED
  BY <1>1, <1>2, Zenon DEF ExecuteFind, Projected, recs

LEMMA AskedAnswer ==
  ASSUME NEW c, NEW req, NEW field, field # NoField, NEW up, Asks(req, field, up, c)
  PROVE  ExecuteFind(ix, req) = TopK(Matched(ix, <<c>>), field, up, 2)
<1> DEFINE recs == Matched(ix, <<c>>)
<1>1. /\ req.filters = <<c>> /\ req.sortBy = field /\ req.sortAsc = up
      /\ req.limit = 2 /\ req.projection = {}
  BY DEF Asks
<1> HIDE DEF recs
<1>2. Matched(ix, req.filters) = recs
  BY <1>1 DEF recs
<1>3. Picks(recs, req) = TopK(recs, field, up, 2)
  <2>1. 2 > 0 /\ ~ (2 <= 0)
    OBVIOUS
  <2> QED
    BY <1>1, <2>1 DEF Picks
<1> QED
  BY <1>1, <1>2, <1>3, Zenon DEF ExecuteFind, Projected, recs

\* The two best of what was found.
LEMMA TopTwo ==
  ASSUME NEW recs \in Seq(Recs), IsInjective(recs), NEW field, NEW up \in BOOLEAN
  PROVE  LET best == TopK(recs, field, up, 2)
             Better(r, s) == IF up THEN NumOf(r, field) < NumOf(s, field)
                                   ELSE NumOf(r, field) > NumOf(s, field)
         IN  /\ Len(best) = IF Len(recs) < 2 THEN Len(recs) ELSE 2
             /\ \A i \in DOMAIN best, rec \in ToSet(recs) :
                  Better(rec, best[i]) => rec \in ToSet(best)
             /\ Len(best) = 2 => ~ Better(best[2], best[1])
<1> DEFINE k == 2
           best == TopK(recs, field, up, k)
           W == Weights(field, up)
           Value(rec) == NumOf(rec, field)
           Better(r, s) == IF up THEN Value(r) < Value(s) ELSE Value(r) > Value(s)
<1>1. \A rec \in Recs : W[rec] = (IF up THEN - Value(rec) ELSE Value(rec)) /\ Value(rec) \in Int
  <2>1. Weights(field, FALSE) \in [Recs -> Int]
    BY WeightsTyped
  <2>2. \A rec \in Recs : Weights(field, FALSE)[rec] = Value(rec)
    BY DEF Weights
  <2> QED
    BY <2>1, <2>2 DEF Weights
<1>2. k \in Nat /\ k >= 1
  OBVIOUS
<1> HIDE DEF k
<1>3. AreBest(best, recs, W, k)
  BY <1>2, TopKIsBest
<1> HIDE DEF best, W, Value
<1>4. /\ best \in Seq(Recs) /\ Descending(best, W)
      /\ Len(best) = IF Len(recs) < k THEN Len(recs) ELSE k
      /\ \A rec \in ToSet(recs) \ ToSet(best), s \in ToSet(best) : W[rec] <= W[s]
  BY <1>3 DEF AreBest
<1>5. Len(best) = IF Len(recs) < 2 THEN Len(recs) ELSE 2
  BY <1>4 DEF k
<1>6. \A r, s \in Recs : Better(r, s) <=> W[r] > W[s]
  BY <1>1
<1>7. \A r \in ToSet(recs) : r \in Recs
  BY DEF ToSet
<1>8. \A i \in DOMAIN best : best[i] \in Recs /\ best[i] \in ToSet(best)
  BY <1>4 DEF ToSet
<1>9. \A r, s \in Recs : W[r] \in Int /\ W[s] \in Int /\ (W[r] <= W[s] => ~ (W[r] > W[s]))
  BY <1>1
<1> HIDE DEF Better
<1>10. ASSUME NEW i \in DOMAIN best, NEW rec \in ToSet(recs), Better(rec, best[i])
       PROVE  rec \in ToSet(best)
  BY <1>4, <1>6, <1>7, <1>8, <1>9, <1>10
<1>11. ASSUME Len(best) = 2
       PROVE  ~ Better(best[2], best[1])
  <2>1. 1 \in DOMAIN best /\ 2 \in DOMAIN best /\ 1 < 2
    BY <1>4, <1>11
  <2>2. W[best[1]] >= W[best[2]] /\ best[1] \in Recs /\ best[2] \in Recs
    BY <1>4, <1>8, <2>1 DEF Descending
  <2>3. ~ (W[best[2]] > W[best[1]])
    BY <1>9, <2>2
  <2> QED
    BY <1>6, <2>2, <2>3
<1> QED
  BY <1>5, <1>10, <1>11 DEF best, k, Better, Value

\* The line is answered with the list, and nothing else.
AnswersWith(words, found) == CmdFind(words) = {found}

\* A typed condition is answered ...
LEMMA WordAnswered ==
  ASSUME NEW field \in Names, NEW symbol \in Symbols, NEW value \in DOMAIN Number
  PROVE  AnswersWith(<<Typed(field, symbol, value)>>, Matched(ix, <<Condition(field, symbol, value)>>))
<1> DEFINE word == Typed(field, symbol, value)
           c == Condition(field, symbol, value)
<1>1. ParseFilterToken(word) = <<c>> /\ word \notin Keywords
  BY TypedReads
<1> HIDE DEF word, c
<1>2. PICK req : /\ ParseFind(<<word>>) = <<req>>
                 /\ req.filters = <<c>> /\ req.sortBy = NoField
                 /\ req.limit = 0 /\ req.projection = {}
  BY <1>1, OneWord
<1>3. ExecuteFind(ix, req) = Matched(ix, <<c>>)
  BY <1>2, PlainAnswer
<1>4. ToSet(<<req>>) = {req}
  BY DEF ToSet
<1>5. CmdFind(<<word>>) = {ExecuteFind(ix, req)}
  BY <1>2, <1>4 DEF CmdFind
<1> QED
  BY <1>3, <1>5, Zenon DEF word, c, AnswersWith

\* ... and so is a line of clauses around it.
LEMMA LineAnswered ==
  ASSUME NEW field \in Names, NEW symbol \in Symbols, NEW value \in DOMAIN Number,
         NEW direction \in {"asc", "desc"}, NEW order \in Orders
  PROVE  AnswersWith(Line(Clauses(field, direction, Typed(field, symbol, value)), order),
               TopK(Matched(ix, <<Condition(field, symbol, value)>>), field, direction = "asc", 2))
<1> DEFINE word == Typed(field, symbol, value)
           c == Condition(field, symbol, value)
           line == Line(Clauses(field, direction, word), order)
           up == direction = "asc"
<1>1. ParseFilterToken(word) = <<c>> /\ word \notin Keywords /\ field # NoField
  BY TypedReads, NamesAre
<1> HIDE DEF word, c
<1>2. PICK req : ParseFind(line) = <<req>> /\ Asks(req, field, up, c)
  <2>1. \E req : ParseFind(line) = <<req>> /\ Asks(req, field, direction = "asc", c)
    BY <1>1, LineRead
  <2> QED
    BY <2>1
<1> HIDE DEF line, up
<1>3. ExecuteFind(ix, req) = TopK(Matched(ix, <<c>>), field, up, 2)
  BY <1>1, <1>2, AskedAnswer, Zenon
<1>4. ToSet(<<req>>) = {req}
  BY DEF ToSet
<1>5. CmdFind(line) = {ExecuteFind(ix, req)}
  BY <1>2, <1>4 DEF CmdFind
<1> QED
  BY <1>3, <1>5, Zenon DEF word, c, line, up, AnswersWith

\* What is typed after find is understood as it reads: a condition finds the live
\* documents it means, through the parser of cmd/repl.go, ExecuteFind and the index; a line
\* that sorts and limits too shows the best of them, in whichever order its clauses come;
\* and a malformed line is refused.
THEOREM ShellAnswers ==
  Spec => []ShellFinds
<1>1. ASSUME IInv, FiledAsRead, NEW field \in Names, NEW symbol \in Symbols,
             NEW value \in DOMAIN Number
      PROVE  LET word == Typed(field, symbol, value)
             IN  \E found \in CmdFind(<<word>>) :
                   /\ ToSet(found) = Meant(field, symbol, value)
                   /\ Len(found) = Cardinality(ToSet(found))
                   /\ \A direction \in {"asc", "desc"}, order \in Orders :
                        \E best \in CmdFind(Line(Clauses(field, direction, word), order)) :
                          LET Better(r, s) == IF direction = "asc"
                                                THEN NumOf(r, field) < NumOf(s, field)
                                                ELSE NumOf(r, field) > NumOf(s, field)
                          IN  /\ Len(best) = IF Len(found) < 2 THEN Len(found) ELSE 2
                              /\ \A i \in DOMAIN best, rec \in ToSet(found) :
                                   Better(rec, best[i]) => rec \in ToSet(best)
                              /\ Len(best) = 2 => ~ Better(best[2], best[1])
  <2> DEFINE word == Typed(field, symbol, value)
             recs == Matched(ix, <<Condition(field, symbol, value)>>)
             line(direction, order) == Line(Clauses(field, direction, word), order)
             top(direction) == TopK(recs, field, direction = "asc", 2)
             Ahead(direction, r, s) == IF direction = "asc" THEN NumOf(r, field) < NumOf(s, field)
                                                            ELSE NumOf(r, field) > NumOf(s, field)
             Fine(direction, best) ==
               /\ Len(best) = IF Len(recs) < 2 THEN Len(recs) ELSE 2
               /\ \A i \in DOMAIN best, rec \in ToSet(recs) :
                    Ahead(direction, rec, best[i]) => rec \in ToSet(best)
               /\ Len(best) = 2 => ~ Ahead(direction, best[2], best[1])
  <2>1. Once(recs, Meant(field, symbol, value))
    BY <1>1, ConditionFinds, Zenon
  <2>2. AnswersWith(<<word>>, recs)
    BY WordAnswered, Zenon
  <2>3. ASSUME NEW direction \in {"asc", "desc"}, NEW order \in Orders
        PROVE  AnswersWith(line(direction, order), top(direction))
    BY LineAnswered, Zenon
  <2> HIDE DEF word, recs, line
  <2>4. ASSUME NEW direction \in {"asc", "desc"}
        PROVE  Fine(direction, top(direction))
    <3> DEFINE up == direction = "asc"
    <3>1. up \in BOOLEAN /\ recs \in Seq(Recs) /\ IsInjective(recs)
      BY <2>1 DEF Once
    <3> HIDE DEF up
    <3>2. LET best == TopK(recs, field, up, 2)
              Better(r, s) == IF up THEN NumOf(r, field) < NumOf(s, field)
                                    ELSE NumOf(r, field) > NumOf(s, field)
          IN  /\ Len(best) = IF Len(recs) < 2 THEN Len(recs) ELSE 2
              /\ \A i \in DOMAIN best, rec \in ToSet(recs) :
                   Better(rec, best[i]) => rec \in ToSet(best)
              /\ Len(best) = 2 => ~ Better(best[2], best[1])
      BY <3>1, TopTwo
    <3> QED
      BY <3>2, Zenon DEF up
  <2> HIDE DEF top, Fine
  <2>5. ToSet(recs) = Meant(field, symbol, value) /\ Len(recs) = Cardinality(ToSet(recs))
    BY <2>1 DEF Once
  <2>6. recs \in CmdFind(<<word>>)
    BY <2>2, Zenon DEF AnswersWith
  <2>7. ASSUME NEW direction \in {"asc", "desc"}, NEW order \in Orders
        PROVE  \E best \in CmdFind(line(direction, order)) : Fine(direction, best)
    BY <2>3, <2>4, Zenon DEF AnswersWith
  <2> QED
    BY <2>5, <2>6, <2>7, ZenonT(40) DEF word, line, Fine
<1>2. IInv => ShellFinds
  BY <1>1, MalformedRefused, Zenon DEF ShellFinds
<1> QED
  BY <1>2, IndexesHold, PTL
=============================================================================
