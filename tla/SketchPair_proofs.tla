--------------------------- MODULE SketchPair_proofs ---------------------------
(***************************************************************************)
(* The Count-Min Sketch never undercounts, and the registers of a          *)
(* HyperLogLog are those of the set of values it stands for, for any keys, *)
(* rows, columns and hashes.                                               *)
(***************************************************************************)
EXTENDS SketchPair, LoopLemmas, FiniteSetTheorems

------------------------------------------------------------------------------
(* Sums over finite sets, as MapThenSumSet adds them up: an element at a time *)

SumOf(w, S) == MapThenSumSet(LAMBDA k : w[k], S)

\* The element that is added next, and what is left then.
NextOf(S) == CHOOSE x \in S : TRUE
RestOf(S) == S \ {NextOf(S)}

\* g is the sum over each subset of S.
IsSum(g, w, S) ==
  \A s \in SUBSET S : g[s] = IF s = {} THEN 0 ELSE w[NextOf(s)] + g[RestOf(s)]

\* Induction over the subsets of a finite set: those reached from the empty one,
\* adding back the elements that are taken out one at a time.
LEMMA AllSubsets ==
  ASSUME NEW S, IsFiniteSet(S), NEW G, {} \in G,
         \A s \in SUBSET S : s # {} /\ RestOf(s) \in G => s \in G
  PROVE  \A s \in SUBSET S : s \in G
<1> DEFINE T == {n \in Nat : \A s \in SUBSET S : Cardinality(s) = n => s \in G}
<1>1. \A s \in SUBSET S : IsFiniteSet(s) /\ Cardinality(s) \in Nat
  BY FS_Subset, FS_CardinalityType
<1>2. 0 \in T
  BY <1>1, FS_EmptySet
<1>3. ASSUME NEW n \in Nat, n \in T
      PROVE  n + 1 \in T
  <2> SUFFICES ASSUME NEW s \in SUBSET S, Cardinality(s) = n + 1
               PROVE  s \in G
    OBVIOUS
  <2>1. s # {}
    BY FS_EmptySet
  <2>2. NextOf(s) \in s
    BY <2>1 DEF NextOf
  <2>3. Cardinality(RestOf(s)) = n
    BY <1>1, <2>2, FS_RemoveElement DEF RestOf
  <2>4. RestOf(s) \in SUBSET S
    BY DEF RestOf
  <2>5. RestOf(s) \in G
    BY <1>3, <2>3, <2>4
  <2> QED
    BY <2>1, <2>5
<1>4. T \in SUBSET Nat
  OBVIOUS
<1>5. T = Nat
  <2> HIDE DEF T
  <2> QED
    BY <1>2, <1>3, <1>4, AllNaturals
<1> QED
  BY <1>1, <1>5

\* The subsets of a finite set have their sums.
LEMMA SumsExist ==
  ASSUME NEW S, IsFiniteSet(S), NEW w, \A k \in S : w[k] \in Nat
  PROVE  \E g \in [SUBSET S -> Nat] : IsSum(g, w, S)
<1> DEFINE N == Cardinality(S)
           X == [SUBSET S -> Nat]
           Sum(h) == [s \in SUBSET S |-> IF s = {} THEN 0 ELSE w[NextOf(s)] + h[RestOf(s)]]
           base == [s \in SUBSET S |-> 0]
           step == [t \in (1..(N + 1)) \X X |-> Sum(t[2])]
<1>1. N \in Nat /\ \A s \in SUBSET S : Cardinality(s) \in Nat /\ Cardinality(s) <= N
  BY FS_Subset, FS_CardinalityType
<1>2. \A s \in SUBSET S : s # {} => /\ NextOf(s) \in S
                                    /\ RestOf(s) \in SUBSET S
                                    /\ Cardinality(RestOf(s)) = Cardinality(s) - 1
  <2> SUFFICES ASSUME NEW s \in SUBSET S, s # {}
               PROVE  /\ NextOf(s) \in S
                      /\ RestOf(s) \in SUBSET S
                      /\ Cardinality(RestOf(s)) = Cardinality(s) - 1
    OBVIOUS
  <2>1. NextOf(s) \in s /\ IsFiniteSet(s)
    BY FS_Subset DEF NextOf
  <2> QED
    BY <2>1, FS_RemoveElement DEF RestOf
<1>3. \A h \in X : Sum(h) \in X
  BY <1>2
<1>4. base \in X /\ step \in [(1..(N + 1)) \X X -> X]
  BY <1>3
<1>5. PICK f : IsLoop(f, N + 1, X, base, step)
  <2> HIDE DEF X, base, step
  <2> QED
    BY <1>1, <1>4, LoopExists
<1>6. ASSUME NEW n \in 1..(N + 1)
      PROVE  f[n] = Sum(f[n - 1]) /\ f[n - 1] \in X
  <2>1. <<n, f[n - 1]>> \in (1..(N + 1)) \X X
    <3> HIDE DEF X, base, step
    <3> QED
      BY <1>1, <1>5 DEF IsLoop
  <2>2. f[n] = step[<<n, f[n - 1]>>]
    BY <1>5 DEF IsLoop
  <2> QED
    BY <2>1, <2>2
<1> DEFINE Same == {n \in Nat : n <= N => \A s \in SUBSET S : Cardinality(s) <= n => f[n + 1][s] = f[n][s]}
<1> HIDE DEF N, X
<1>7. 0 \in Same
  <2>1. SUFFICES ASSUME NEW s \in SUBSET S, Cardinality(s) <= 0
                 PROVE  f[0 + 1][s] = f[0][s]
    OBVIOUS
  <2>2. s = {}
    BY <1>1, <2>1, FS_EmptySet, FS_Subset
  <2>3. f[0] = base /\ 1 \in 1..(N + 1) /\ 0 + 1 = 1 /\ 1 - 1 = 0
    BY <1>1, <1>5 DEF IsLoop
  <2>4. f[1][s] = 0
    BY <1>6, <2>2, <2>3
  <2> QED
    BY <2>3, <2>4
<1>8. ASSUME NEW n \in Nat, n \in Same
      PROVE  n + 1 \in Same
  <2>1. SUFFICES ASSUME n + 1 <= N, NEW s \in SUBSET S, Cardinality(s) <= n + 1
                 PROVE  f[(n + 1) + 1][s] = f[n + 1][s]
    OBVIOUS
  <2>2. /\ n + 1 \in 1..(N + 1) /\ (n + 1) + 1 \in 1..(N + 1)
        /\ (n + 1) - 1 = n /\ ((n + 1) + 1) - 1 = n + 1 /\ n <= N
    BY <1>1, <2>1
  <2>3. f[n + 1] = Sum(f[n]) /\ f[(n + 1) + 1] = Sum(f[n + 1])
    BY <1>6, <2>2
  <2>4. CASE s = {}
    BY <2>3, <2>4
  <2>5. CASE s # {}
    <3>1. RestOf(s) \in SUBSET S /\ Cardinality(RestOf(s)) <= n
      BY <1>1, <1>2, <2>1, <2>5
    <3>2. f[n + 1][RestOf(s)] = f[n][RestOf(s)]
      BY <1>8, <2>2, <3>1
    <3>3. f[n + 1][s] = w[NextOf(s)] + f[n][RestOf(s)]
      BY <2>3, <2>5
    <3>4. f[(n + 1) + 1][s] = w[NextOf(s)] + f[n + 1][RestOf(s)]
      BY <2>3, <2>5
    <3> QED
      BY <3>2, <3>3, <3>4
  <2> QED
    BY <2>4, <2>5
<1>9. N \in Same
  <2>1. Same \in SUBSET Nat
    OBVIOUS
  <2> HIDE DEF Same
  <2>2. Same = Nat
    BY <1>7, <1>8, <2>1, AllNaturals
  <2> QED
    BY <1>1, <2>2
<1>10. \A s \in SUBSET S : f[N + 1][s] = f[N][s]
  BY <1>1, <1>9
<1>11. N + 1 \in 1..(N + 1) /\ (N + 1) - 1 = N
  BY <1>1
<1>12. f[N + 1] = Sum(f[N]) /\ f[N] \in X
  BY <1>6, <1>11
<1>13. \A s \in SUBSET S : f[N][s] = IF s = {} THEN 0 ELSE w[NextOf(s)] + f[N][RestOf(s)]
  BY <1>10, <1>12
<1> QED
  BY <1>12, <1>13 DEF IsSum, X

\* What MapThenSumSet computes is one of them.
LEMMA SumIs ==
  ASSUME NEW S, IsFiniteSet(S), NEW w, \A k \in S : w[k] \in Nat
  PROVE  \E g : /\ SumOf(w, S) = g[S]
                /\ IsSum(g, w, S)
                /\ \A s \in SUBSET S : g[s] \in Nat
<1> DEFINE g == CHOOSE g : g = [s \in SUBSET S |-> IF s = {} THEN 0
                                                 ELSE w[NextOf(s)] + g[RestOf(s)]]
<1>1. SumOf(w, S) = g[S]
  BY DEF SumOf, MapThenSumSet, MapThenFoldSet, NextOf, RestOf
<1>2. PICK h \in [SUBSET S -> Nat] : IsSum(h, w, S)
  BY SumsExist
<1>3. h = [s \in SUBSET S |-> IF s = {} THEN 0 ELSE w[NextOf(s)] + h[RestOf(s)]]
  <2>1. h = [s \in SUBSET S |-> h[s]]
    OBVIOUS
  <2>2. \A s \in SUBSET S : h[s] = IF s = {} THEN 0 ELSE w[NextOf(s)] + h[RestOf(s)]
    BY <1>2 DEF IsSum
  <2> QED
    BY <2>1, <2>2, Zenon
<1>4. g = [s \in SUBSET S |-> IF s = {} THEN 0 ELSE w[NextOf(s)] + g[RestOf(s)]]
  BY <1>3
<1> HIDE DEF g
<1>5. \A s \in SUBSET S : g[s] = IF s = {} THEN 0 ELSE w[NextOf(s)] + g[RestOf(s)]
  BY <1>4
<1> DEFINE G == {s \in SUBSET S : g[s] \in Nat}
<1>6. {} \in G
  BY <1>5
<1>7. ASSUME NEW s \in SUBSET S, s # {}, RestOf(s) \in G
      PROVE  s \in G
  <2>1. NextOf(s) \in S
    BY <1>7 DEF NextOf
  <2> QED
    BY <1>5, <1>7, <2>1
<1>8. \A s \in SUBSET S : s \in G
  <2> HIDE DEF G
  <2> QED
    BY <1>6, <1>7, AllSubsets
<1> QED
  BY <1>1, <1>5, <1>8 DEF IsSum

\* A sum is a natural number, and at least each of its terms.
LEMMA SumBounds ==
  ASSUME NEW S, IsFiniteSet(S), NEW w, \A k \in S : w[k] \in Nat
  PROVE  /\ SumOf(w, S) \in Nat
         /\ \A k \in S : SumOf(w, S) >= w[k]
<1>1. PICK g : /\ SumOf(w, S) = g[S]
               /\ IsSum(g, w, S)
               /\ \A s \in SUBSET S : g[s] \in Nat
  BY SumIs
<1> DEFINE G == {s \in SUBSET S : \A k \in s : g[s] >= w[k]}
<1>2. {} \in G
  OBVIOUS
<1>3. ASSUME NEW s \in SUBSET S, s # {}, RestOf(s) \in G
      PROVE  s \in G
  <2>1. NextOf(s) \in s
    BY <1>3 DEF NextOf
  <2>2. g[s] = w[NextOf(s)] + g[RestOf(s)] /\ g[RestOf(s)] \in Nat
    BY <1>1, <1>3 DEF IsSum
  <2>3. ASSUME NEW k \in s
        PROVE  g[s] >= w[k]
    <3>1. CASE k = NextOf(s)
      BY <2>2, <3>1
    <3>2. CASE k # NextOf(s)
      <4>1. g[RestOf(s)] >= w[k]
        BY <1>3, <3>2 DEF RestOf
      <4> QED
        BY <2>1, <2>2, <4>1
    <3> QED
      BY <3>1, <3>2
  <2> QED
    BY <2>3
<1>4. S \in G
  <2> HIDE DEF G
  <2> QED
    BY <1>2, <1>3, AllSubsets
<1> QED
  BY <1>1, <1>4

\* A sum of zeros.
LEMMA SumOfZeros ==
  ASSUME NEW S, IsFiniteSet(S), NEW w, \A k \in S : w[k] = 0
  PROVE  SumOf(w, S) = 0
<1>1. PICK g : /\ SumOf(w, S) = g[S]
               /\ IsSum(g, w, S)
               /\ \A s \in SUBSET S : g[s] \in Nat
  BY SumIs
<1> DEFINE G == {s \in SUBSET S : g[s] = 0}
<1>2. {} \in G
  BY <1>1 DEF IsSum
<1>3. ASSUME NEW s \in SUBSET S, s # {}, RestOf(s) \in G
      PROVE  s \in G
  <2>1. NextOf(s) \in s
    BY <1>3 DEF NextOf
  <2> QED
    BY <1>1, <1>3, <2>1 DEF IsSum
<1>4. S \in G
  <2> HIDE DEF G
  <2> QED
    BY <1>2, <1>3, AllSubsets
<1> QED
  BY <1>1, <1>4

\* One term more or less changes the sums it is in by the difference.
LEMMA SumOfChanged ==
  ASSUME NEW S, IsFiniteSet(S), NEW w, NEW v, NEW key, NEW n \in Nat,
         \A k \in S : /\ w[k] \in Nat
                      /\ v[k] = IF k = key THEN w[k] + n ELSE w[k]
  PROVE  SumOf(v, S) = IF key \in S THEN SumOf(w, S) + n ELSE SumOf(w, S)
<1>1. PICK g : /\ SumOf(w, S) = g[S]
               /\ IsSum(g, w, S)
               /\ \A s \in SUBSET S : g[s] \in Nat
  BY SumIs
<1>2. PICK h : /\ SumOf(v, S) = h[S]
               /\ IsSum(h, v, S)
               /\ \A s \in SUBSET S : h[s] \in Nat
  <2>1. \A k \in S : v[k] \in Nat
    OBVIOUS
  <2> QED
    BY <2>1, SumIs
<1> DEFINE G == {s \in SUBSET S : h[s] = IF key \in s THEN g[s] + n ELSE g[s]}
<1>3. {} \in G
  BY <1>1, <1>2 DEF IsSum
<1>4. ASSUME NEW s \in SUBSET S, s # {}, RestOf(s) \in G
      PROVE  s \in G
  <2>1. NextOf(s) \in s
    BY <1>4 DEF NextOf
  <2>2. /\ g[s] = w[NextOf(s)] + g[RestOf(s)] /\ g[RestOf(s)] \in Nat
        /\ h[s] = v[NextOf(s)] + h[RestOf(s)]
    BY <1>1, <1>2, <1>4 DEF IsSum, RestOf
  <2>3. h[RestOf(s)] = IF key \in RestOf(s) THEN g[RestOf(s)] + n ELSE g[RestOf(s)]
    BY <1>4
  <2>4. w[NextOf(s)] \in Nat
    BY <2>1
  <2>5. CASE NextOf(s) = key
    <3>1. key \in s /\ key \notin RestOf(s) /\ v[NextOf(s)] = w[NextOf(s)] + n
      BY <2>1, <2>5 DEF RestOf
    <3>2. h[s] = g[s] + n
      BY <2>2, <2>3, <2>4, <3>1
    <3> QED
      BY <3>1, <3>2
  <2>6. CASE NextOf(s) # key
    <3>1. key \in s <=> key \in RestOf(s)
      BY <2>6 DEF RestOf
    <3>2. v[NextOf(s)] = w[NextOf(s)]
      BY <2>1, <2>6
    <3>3. h[s] = IF key \in s THEN g[s] + n ELSE g[s]
      BY <2>2, <2>3, <2>4, <3>1, <3>2
    <3> QED
      BY <3>3
  <2> QED
    BY <2>5, <2>6
<1>5. S \in G
  <2> HIDE DEF G
  <2> QED
    BY <1>3, <1>4, AllSubsets
<1> QED
  BY <1>1, <1>2, <1>5

------------------------------------------------------------------------------
(* The Count-Min Sketch *)

\* The keys a row counts in a column.
InColumn(row, col) == {k \in Terms : Column[row][k] = col}

\* What is counted in each column, as far as the counters have room for it.
CountersHold ==
  /\ counters \in [Rows -> [Columns -> Nat]]
  /\ counts \in [Terms -> Nat]
  /\ \A row \in Rows, col \in Columns :
       counters[row][col] = SumOf(counts, InColumn(row, col)) % Modulus

LEMMA FiniteColumns == \A row, col : IsFiniteSet(InColumn(row, col))
<1>1. \A row, col : InColumn(row, col) \in SUBSET Terms
  BY DEF InColumn
<1> QED
  BY <1>1, FS_Subset, CmsAssumption

\* An unsigned addition forgets what an earlier one has lost.
LEMMA WrapsOnce ==
  ASSUME NEW M \in Nat \ {0}, NEW a \in Nat, NEW n \in Nat
  PROVE  /\ ((a % M) + n) % M = (a + n) % M
         /\ a % M \in 0..(M - 1)
         /\ a < M => a % M = a
<1>1. a % M \in 0..(M - 1) /\ a = (M * (a \div M)) + (a % M) /\ a \div M \in Nat
  OBVIOUS
<1>2. a < M => a % M = a
  OBVIOUS
<1> DEFINE q == a \div M
           r == a % M
           b == r + n
           p == b \div M
           t == b % M
<1> HIDE DEF q, r
<1>3. a = (M * q) + r /\ q \in Nat /\ r \in 0..(M - 1)
  BY <1>1 DEF q, r
<1>4. b \in Nat
  BY <1>3
<1> HIDE DEF b
<1>5. t \in 0..(M - 1) /\ b = (M * p) + t /\ p \in Nat
  BY <1>4
<1> HIDE DEF p, t
<1>6. a + n = (M * (q + p)) + t
  BY <1>3, <1>4, <1>5 DEF b
<1> DEFINE c == q + p
<1>7. c \in Nat
  BY <1>3, <1>5
<1> HIDE DEF c
<1>8. ((M * c) + t) % M = t
  BY <1>5, <1>7
<1>9. (a + n) % M = t
  BY <1>6, <1>8 DEF c
<1> QED
  BY <1>1, <1>2, <1>9 DEF t, b, r

LEMMA CountersHoldInit == CmsInit => CountersHold
<1> SUFFICES ASSUME CmsInit
             PROVE  CountersHold
  OBVIOUS
<1>1. ASSUME NEW row \in Rows, NEW col \in Columns
      PROVE  counters[row][col] = SumOf(counts, InColumn(row, col)) % Modulus
  <2> DEFINE S == InColumn(row, col)
  <2>1. \A k \in S : counts[k] = 0
    BY DEF S, InColumn, CmsInit
  <2>2. IsFiniteSet(S)
    BY FiniteColumns
  <2> HIDE DEF S
  <2>3. SumOf(counts, S) = 0
    BY <2>1, <2>2, SumOfZeros
  <2>4. 0 % Modulus = 0
    BY CmsAssumption
  <2> QED
    BY <2>3, <2>4 DEF S, CmsInit
<1> QED
  BY <1>1 DEF CountersHold, CmsInit

LEMMA CountersHoldAdd ==
  ASSUME CountersHold, NEW key \in Terms, NEW n \in Amounts, AddN(key, n)
  PROVE  CountersHold'
<1>1. n \in Nat /\ Modulus \in Nat \ {0}
  BY CmsAssumption
<1>2. counts' \in [Terms -> Nat] /\ \A k \in Terms : counts'[k] = IF k = key THEN counts[k] + n ELSE counts[k]
  BY <1>1 DEF CountersHold, AddN
<1>3. \A row \in Rows : Column[row][key] \in Columns
  BY CmsAssumption
<1>4. ASSUME NEW row \in Rows
      PROVE  /\ counters'[row] \in [Columns -> Nat]
             /\ \A col \in Columns : counters'[row][col] =
                  IF col = Column[row][key] THEN (counters[row][col] + n) % Modulus
                  ELSE counters[row][col]
  <2> DEFINE c == counters[row]
             d == Column[row][key]
  <2>1. c \in [Columns -> Nat] /\ d \in Columns
    BY <1>3 DEF CountersHold
  <2>2. counters'[row] = [c EXCEPT ![d] = (c[d] + n) % Modulus]
    BY DEF AddN
  <2> HIDE DEF c, d
  <2>3. (c[d] + n) % Modulus \in Nat
    BY <1>1, <2>1
  <2> QED
    BY <2>1, <2>2, <2>3 DEF c, d
<1>5. ASSUME NEW row \in Rows, NEW col \in Columns
      PROVE  counters'[row][col] = SumOf(counts', InColumn(row, col)) % Modulus
  <2> DEFINE S == InColumn(row, col)
             a == SumOf(counts, S)
  <2>1. IsFiniteSet(S) /\ \A k \in S : counts[k] \in Nat
    <3>1. IsFiniteSet(S)
      BY FiniteColumns
    <3>2. \A k \in S : counts[k] \in Nat
      BY DEF InColumn, CountersHold
    <3> QED
      BY <3>1, <3>2
  <2>2. key \in S <=> col = Column[row][key]
    BY DEF InColumn
  <2>3. \A k \in S : counts'[k] = IF k = key THEN counts[k] + n ELSE counts[k]
    BY <1>2 DEF InColumn
  <2>4. counters[row][col] = a % Modulus
    BY DEF CountersHold
  <2> HIDE DEF S
  <2>5. a \in Nat
    BY <2>1, SumBounds
  <2>6. SumOf(counts', S) = IF key \in S THEN a + n ELSE a
    BY <1>1, <2>1, <2>3, SumOfChanged
  <2> HIDE DEF a
  <2>7. CASE key \in S
    <3>1. counters'[row][col] = ((a % Modulus) + n) % Modulus
      BY <1>4, <2>2, <2>4, <2>7
    <3>2. ((a % Modulus) + n) % Modulus = (a + n) % Modulus
      BY <1>1, <2>5, WrapsOnce
    <3>3. SumOf(counts', S) = a + n
      BY <2>6, <2>7
    <3> QED
      BY <3>1, <3>2, <3>3 DEF S
  <2>8. CASE key \notin S
    BY <1>4, <2>2, <2>4, <2>6, <2>8 DEF S
  <2> QED
    BY <2>7, <2>8
<1>6. counters' \in [Rows -> [Columns -> Nat]]
  <2>1. counters' = [row \in Rows |-> counters'[row]]
    BY DEF AddN
  <2> QED
    BY <1>4, <2>1
<1> QED
  BY <1>2, <1>5, <1>6 DEF CountersHold

LEMMA CountersHoldNext == CountersHold /\ [Next]_vars => CountersHold'
<1> SUFFICES ASSUME CountersHold, [Next]_vars
             PROVE  CountersHold'
  OBVIOUS
<1>1. ASSUME NEW key \in Terms, NEW n \in Amounts, AddN(key, n)
      PROVE  CountersHold'
  BY <1>1, CountersHoldAdd
<1>2. ASSUME ResetCounters
      PROVE  CountersHold'
  <2>1. CmsInit'
    BY <1>2 DEF ResetCounters, CmsInit
  <2>2. CmsInit' => CountersHold'
    BY CountersHoldInit, PTL
  <2> QED
    BY <2>1, <2>2
<1>3. ASSUME UNCHANGED cmsVars
      PROVE  CountersHold'
  BY <1>3 DEF cmsVars, CountersHold
<1> QED
  BY <1>1, <1>2, <1>3 DEF Next, CmsNext, vars

\* The smallest of the counters has no fewer than the key, and no more than the row
\* with the fewest strangers.
LEMMA HeldNeverUndercounts == CountersHold => NeverUndercounts
<1> SUFFICES ASSUME CountersHold, NEW key \in Terms,
                    \A row \in Rows : SharedCount(row, key) < Modulus
             PROVE  /\ Estimate(key) >= counts[key]
                    /\ (\E row \in Rows : SharedCount(row, key) = counts[key]) =>
                         Estimate(key) = counts[key]
  BY DEF NeverUndercounts
<1> DEFINE count(row) == counters[row][Column[row][key]]
           E == {Modulus - 1} \cup {count(row) : row \in Rows}
<1>1. ASSUME NEW row \in Rows
      PROVE  /\ count(row) = SharedCount(row, key)
             /\ count(row) \in Nat
             /\ count(row) >= counts[key]
             /\ Modulus - 1 >= counts[key]
  <2> DEFINE S == InColumn(row, Column[row][key])
  <2>1. SharedCount(row, key) = SumOf(counts, S)
    BY DEF SharedCount, SumOf, InColumn
  <2>2. Column[row][key] \in Columns
    BY CmsAssumption
  <2>3. count(row) = SumOf(counts, S) % Modulus
    BY <2>2 DEF CountersHold
  <2>4. IsFiniteSet(S) /\ key \in S /\ \A k \in S : counts[k] \in Nat
    <3>1. IsFiniteSet(S)
      BY FiniteColumns
    <3>2. key \in S /\ \A k \in S : counts[k] \in Nat
      BY DEF InColumn, CountersHold
    <3> QED
      BY <3>1, <3>2
  <2> HIDE DEF S
  <2>5. SumOf(counts, S) \in Nat /\ SumOf(counts, S) >= counts[key] /\ counts[key] \in Nat
    BY <2>4, SumBounds
  <2>6. SumOf(counts, S) < Modulus /\ Modulus \in Nat \ {0}
    BY <2>1, CmsAssumption
  <2>7. SumOf(counts, S) % Modulus = SumOf(counts, S)
    BY <2>5, <2>6, WrapsOnce
  <2> QED
    BY <2>1, <2>3, <2>5, <2>6, <2>7
<1>2. PICK r \in Rows : TRUE
  BY CmsAssumption
<1>3. counts[key] \in Nat /\ Modulus \in Nat /\ Modulus - 1 >= counts[key]
  BY <1>1, <1>2, CmsAssumption DEF CountersHold
<1> HIDE DEF count
<1>4. \A e \in E : e \in Nat /\ e >= counts[key]
  BY <1>1, <1>3
<1>5. PICK least \in E : \A e \in E : least <= e
  <2>1. E \in SUBSET Nat /\ E # {}
    BY <1>4
  <2> HIDE DEF E
  <2> QED
    BY <2>1, LeastElement
<1>6. Estimate(key) = CHOOSE x \in E : \A y \in E : x <= y
  BY DEF Estimate, Min, count
<1> HIDE DEF E
<1>7. Estimate(key) \in E /\ \A e \in E : Estimate(key) <= e
  BY <1>5, <1>6
<1>8. \A row \in Rows : count(row) \in E
  BY DEF E
<1>9. Estimate(key) >= counts[key] /\ Estimate(key) \in Nat
  BY <1>4, <1>7
<1>10. ASSUME NEW row \in Rows, SharedCount(row, key) = counts[key]
       PROVE  Estimate(key) = counts[key]
  BY <1>1, <1>3, <1>7, <1>8, <1>9, <1>10
<1> QED
  BY <1>9, <1>10

\* Before a counter of it has wrapped, a key is never estimated below its count, and
\* exactly when a row keeps it apart.
THEOREM EstimatesNeverUndercount == Spec => []NeverUndercounts
<1>1. Init => CountersHold
  BY CountersHoldInit DEF Init
<1> QED
  BY <1>1, CountersHoldNext, HeldNeverUndercounts, PTL DEF Spec

------------------------------------------------------------------------------
(* Powers of two *)

LEMMA Pow2Is ==
  /\ Pow2(0) = 1
  /\ \A n \in Nat : Pow2(n + 1) = 2 * Pow2(n)
<1>1. \A n : Pow2(n) = Doubling(1, n)
  BY DEF Pow2, Doubling
<1> QED
  BY <1>1, DoublingIs

\* They are positive, their product is that of the sum, and they grow.
LEMMA Pow2Sum ==
  /\ \A n \in Nat : Pow2(n) \in Nat \ {0}
  /\ \A m, n \in Nat : Pow2(m + n) = Pow2(m) * Pow2(n)
  /\ \A m, n \in Nat : m <= n => Pow2(m) <= Pow2(n)
<1> DEFINE T == {n \in Nat : Pow2(n) \in Nat \ {0}}
<1>1. T = Nat
  <2>1. 0 \in T /\ T \in SUBSET Nat
    BY Pow2Is
  <2>2. \A n \in Nat : n \in T => n + 1 \in T
    BY Pow2Is
  <2> HIDE DEF T
  <2> QED
    BY <2>1, <2>2, AllNaturals
<1>2. \A n \in Nat : Pow2(n) \in Nat \ {0}
  BY <1>1
<1>3. ASSUME NEW m \in Nat
      PROVE  \A n \in Nat : Pow2(m + n) = Pow2(m) * Pow2(n)
  <2> DEFINE U == {n \in Nat : Pow2(m + n) = Pow2(m) * Pow2(n)}
  <2>1. 0 \in U /\ U \in SUBSET Nat
    BY <1>2, Pow2Is
  <2>2. ASSUME NEW n \in Nat, n \in U
        PROVE  n + 1 \in U
    <3>1. Pow2(m + (n + 1)) = 2 * Pow2(m + n)
      <4>1. m + (n + 1) = (m + n) + 1 /\ m + n \in Nat
        OBVIOUS
      <4> QED
        BY <4>1, Pow2Is
    <3>2. Pow2(n + 1) = 2 * Pow2(n)
      BY Pow2Is
    <3> DEFINE a == Pow2(m)
               b == Pow2(n)
    <3>3. a \in Nat /\ b \in Nat
      BY <1>2
    <3>4. Pow2(m + (n + 1)) = 2 * (a * b) /\ Pow2(n + 1) = 2 * b
      BY <2>2, <3>1, <3>2
    <3> HIDE DEF a, b
    <3>5. 2 * (a * b) = a * (2 * b)
      BY <3>3
    <3>6. Pow2(m + (n + 1)) = a * Pow2(n + 1)
      BY <3>4, <3>5
    <3> QED
      BY <3>6 DEF a
  <2> HIDE DEF U
  <2>3. U = Nat
    BY <2>1, <2>2, AllNaturals
  <2> QED
    BY <2>3 DEF U
<1>4. ASSUME NEW m \in Nat, NEW n \in Nat, m <= n
      PROVE  Pow2(m) <= Pow2(n)
  <2> DEFINE d == n - m
  <2>1. d \in Nat /\ n = m + d
    BY <1>4
  <2> HIDE DEF d
  <2>2. Pow2(n) = Pow2(m) * Pow2(d)
    BY <1>3, <2>1
  <2> DEFINE a == Pow2(m)
             b == Pow2(d)
  <2>3. a \in Nat \ {0} /\ b \in Nat \ {0}
    BY <1>2, <2>1
  <2> HIDE DEF a, b
  <2>4. a <= a * b
    BY <2>3
  <2> QED
    BY <2>2, <2>4 DEF a, b
<1> QED
  BY <1>2, <1>3, <1>4

\* A quotient and a remainder are known by what they add up to.
LEMMA Divides ==
  ASSUME NEW B \in Nat \ {0}, NEW q \in Nat, NEW r \in 0..(B - 1)
  PROVE  /\ ((B * q) + r) \div B = q
         /\ ((B * q) + r) % B = r
OBVIOUS

------------------------------------------------------------------------------
(* The rank *)

Rest == HashBits - P
Low(hash) == hash % Pow2(Rest)
Hashes == 0..(Pow2(HashBits) - 1)

\* A hash is made of the bits that select the register and those behind them.
LEMMA Parts ==
  ASSUME NEW hash \in Hashes
  PROVE  /\ Rest \in Nat \ {0} /\ P \in Nat /\ HashBits = P + Rest
         /\ Register(hash) \in Registers
         /\ Low(hash) \in 0..(Pow2(Rest) - 1)
         /\ hash = (Pow2(Rest) * Register(hash)) + Low(hash)
<1>1. Rest \in Nat \ {0} /\ P \in Nat /\ HashBits = P + Rest
  BY HllAssumption DEF Rest
<1> DEFINE A == Pow2(P)
           B == Pow2(Rest)
           q == hash \div B
<1>2. A \in Nat \ {0} /\ B \in Nat \ {0} /\ Pow2(HashBits) = A * B
  BY <1>1, Pow2Sum
<1>3. hash \in Nat /\ hash < A * B
  BY <1>2 DEF Hashes
<1> HIDE DEF A, B
<1>4. q \in Nat /\ hash % B \in 0..(B - 1) /\ hash = (B * q) + (hash % B)
  BY <1>2, <1>3
<1> HIDE DEF q
<1>5. q < A
  <2>1. ASSUME q >= A PROVE FALSE
    <3>1. B * q >= B * A
      BY <1>2, <1>4, <2>1
    <3> QED
      BY <1>2, <1>3, <1>4, <3>1
  <2> QED
    BY <1>2, <1>4, <2>1
<1>6. Register(hash) = q /\ Low(hash) = hash % B /\ Registers = 0..(A - 1)
  BY DEF Register, Low, Registers, q, A, B, Rest
<1> QED
  BY <1>1, <1>2, <1>4, <1>5, <1>6 DEF B

\* The least number of a set of naturals, as Min chooses it.
LEMMA MinIs ==
  ASSUME NEW S \in SUBSET Nat, NEW least \in S, \A y \in S : least <= y
  PROVE  Min(S) = least
<1>1. Min(S) = CHOOSE x \in S : \A y \in S : x <= y
  BY DEF Min
<1>2. Min(S) \in S /\ \A y \in S : Min(S) <= y
  BY <1>1
<1>3. Min(S) <= least /\ least <= Min(S) /\ Min(S) \in Nat /\ least \in Nat
  BY <1>2
<1> QED
  BY <1>3

\* The bit at a place: 0 where the low part is smaller than it, 1 where it is the
\* first that is not.
LEMMA BitIs ==
  ASSUME NEW hash \in Hashes, NEW i \in 1..Rest
  PROVE  /\ Pow2(Rest - i) \in Nat \ {0}
         /\ Low(hash) < Pow2(Rest - i) => (hash \div Pow2(Rest - i)) % 2 = 0
         /\ (Pow2(Rest - i) <= Low(hash) /\ Low(hash) < 2 * Pow2(Rest - i)) =>
              (hash \div Pow2(Rest - i)) % 2 = 1
<1>1. /\ Rest \in Nat /\ Register(hash) \in Nat /\ Low(hash) \in Nat
      /\ hash = (Pow2(Rest) * Register(hash)) + Low(hash)
  BY Parts DEF Registers
<1>2. Rest - i \in Nat /\ i - 1 \in Nat /\ Rest = (Rest - i) + ((i - 1) + 1)
  BY <1>1
<1> DEFINE B == Pow2(Rest - i)
           C == Pow2(i - 1)
           r == Register(hash)
           low == Low(hash)
           q == C * r
<1>3. B \in Nat \ {0} /\ C \in Nat \ {0} /\ r \in Nat /\ low \in Nat
  BY <1>1, <1>2, Pow2Sum
<1>4. Pow2(Rest) = B * (2 * C)
  <2>1. Pow2(Rest) = B * Pow2((i - 1) + 1)
    BY <1>2, Pow2Sum
  <2> QED
    BY <1>2, <2>1, Pow2Is
<1>5. hash = ((B * (2 * C)) * r) + low
  BY <1>1, <1>4
<1> HIDE DEF B, C, r, low
<1>6. (B * (2 * C)) * r = B * (2 * q)
  BY <1>3
<1>7. q \in Nat
  BY <1>3
<1> HIDE DEF q
<1>8. hash = (B * (2 * q)) + low
  BY <1>5, <1>6
<1>9. ASSUME low < B
      PROVE  (hash \div B) % 2 = 0
  <2>1. low \in 0..(B - 1) /\ 2 * q \in Nat
    BY <1>3, <1>7, <1>9
  <2>2. hash \div B = 2 * q
    BY <1>3, <1>8, <2>1, Divides
  <2> QED
    BY <1>7, <2>2
<1>10. ASSUME B <= low, low < 2 * B
       PROVE  (hash \div B) % 2 = 1
  <2>1. hash = (B * ((2 * q) + 1)) + (low - B)
    BY <1>3, <1>7, <1>8
  <2>2. low - B \in 0..(B - 1) /\ (2 * q) + 1 \in Nat
    BY <1>3, <1>7, <1>10
  <2>3. hash \div B = (2 * q) + 1
    BY <1>3, <2>1, <2>2, Divides
  <2> QED
    BY <1>7, <2>3
<1> QED
  BY <1>3, <1>9, <1>10 DEF B, low

\* The bits moved to the front with ones behind are as large as a power of two just
\* when the bits themselves reach the place it comes from.
LEMMA TailIs ==
  ASSUME NEW hash \in Hashes
  PROVE  LET tail == ((hash * Pow2(P)) % Pow2(HashBits)) + (Pow2(P) - 1)
         IN  \A z \in 0..(HashBits - 1) :
               (tail >= Pow2(HashBits - z - 1)) <=>
                 IF z < Rest THEN Low(hash) >= Pow2(Rest - z - 1) ELSE TRUE
<1> DEFINE A == Pow2(P)
           B == Pow2(Rest)
           r == Register(hash)
           low == Low(hash)
           front == low * A
<1>1. /\ Rest \in Nat \ {0} /\ P \in Nat /\ HashBits = P + Rest
      /\ r \in Nat /\ low \in 0..(B - 1) /\ hash = (B * r) + low
  BY Parts DEF Registers
<1>2. A \in Nat \ {0} /\ B \in Nat \ {0} /\ Pow2(HashBits) = A * B
  BY <1>1, Pow2Sum
<1>3. Pow2(HashBits) \in Nat \ {0}
  <2>1. HashBits \in Nat
    BY <1>1
  <2> QED
    BY <2>1, Pow2Sum
<1> HIDE DEF A, B, r, low
<1>4. hash * A = ((A * B) * r) + front
  BY <1>1, <1>2
<1>5. front \in Nat
  BY <1>1, <1>2
<1>6. front < A * B
  <2>1. low + 1 <= B
    BY <1>1, <1>2
  <2>2. A * (low + 1) <= A * B
    BY <1>1, <1>2, <2>1
  <2> QED
    BY <1>1, <1>2, <2>2
<1> HIDE DEF front
<1>7. (hash * A) % Pow2(HashBits) = front
  <2> DEFINE M == Pow2(HashBits)
  <2>1. hash * A = (M * r) + front /\ M \in Nat \ {0} /\ front \in 0..(M - 1)
    BY <1>2, <1>3, <1>4, <1>5, <1>6
  <2> HIDE DEF M
  <2>2. ((M * r) + front) % M = front
    BY <1>1, <2>1, Divides
  <2> QED
    BY <2>1, <2>2 DEF M
<1>8. ASSUME NEW z \in 0..(HashBits - 1)
      PROVE  (front + (A - 1) >= Pow2(HashBits - z - 1)) <=>
               IF z < Rest THEN low >= Pow2(Rest - z - 1) ELSE TRUE
  <2>1. CASE z < Rest
    <3> DEFINE D == Pow2(Rest - z - 1)
    <3>1. Rest - z - 1 \in Nat /\ HashBits - z - 1 = P + (Rest - z - 1)
      BY <1>1, <2>1
    <3>2. Pow2(HashBits - z - 1) = A * D /\ D \in Nat \ {0}
      BY <1>1, <3>1, Pow2Sum DEF A
    <3> HIDE DEF D
    <3>3. ASSUME low >= D PROVE front + (A - 1) >= A * D
      <4>1. A * low >= A * D
        BY <1>1, <1>2, <3>2, <3>3
      <4> QED
        BY <1>1, <1>2, <3>2, <4>1 DEF front
    <3>4. ASSUME low < D PROVE front + (A - 1) < A * D
      <4>1. A * (low + 1) <= A * D
        BY <1>1, <1>2, <3>2, <3>4
      <4>2. A * (low + 1) = front + A
        BY <1>1, <1>2 DEF front
      <4> QED
        BY <1>1, <1>2, <1>5, <3>2, <4>1, <4>2
    <3>5. (front + (A - 1) >= A * D) <=> low >= D
      BY <1>1, <1>2, <1>5, <3>2, <3>3, <3>4
    <3> QED
      BY <2>1, <3>2, <3>5 DEF D
  <2>2. CASE ~(z < Rest)
    <3>1. HashBits - z - 1 \in Nat /\ (HashBits - z - 1) + 1 <= P
      BY <1>1, <2>2
    <3> DEFINE D == Pow2(HashBits - z - 1)
    <3>2. D \in Nat \ {0} /\ Pow2((HashBits - z - 1) + 1) = 2 * D
      BY <3>1, Pow2Is, Pow2Sum
    <3>3. (HashBits - z - 1) + 1 \in Nat
      BY <3>1
    <3>4. 2 * D <= A
      BY <1>1, <3>1, <3>2, <3>3, Pow2Sum DEF A
    <3> HIDE DEF D
    <3>5. front + (A - 1) >= D
      BY <1>2, <1>5, <3>2, <3>4
    <3> QED
      BY <2>2, <3>5 DEF D
  <2> QED
    BY <2>1, <2>2
<1> QED
  BY <1>7, <1>8 DEF A, low

\* The place of the first 1 that is not in the bits of the register, or the one behind
\* the last.
FirstPlace(hash, i) ==
  /\ i \in 1..(Rest + 1)
  /\ i <= Rest => Low(hash) >= Pow2(Rest - i)
  /\ \A j \in 1..Rest : j < i => Low(hash) < Pow2(Rest - j)

LEMMA PlaceExists ==
  ASSUME NEW hash \in Hashes
  PROVE  \E i : FirstPlace(hash, i)
<1> DEFINE S == {Rest + 1} \cup {i \in 1..Rest : Low(hash) >= Pow2(Rest - i)}
<1>1. Rest \in Nat /\ Low(hash) \in Nat
  BY Parts
<1>2. S \in SUBSET Nat /\ S # {}
  BY <1>1
<1>3. PICK i \in S : \A y \in S : i <= y
  <2> HIDE DEF S
  <2> QED
    BY <1>2, LeastElement
<1>4. i \in 1..(Rest + 1)
  BY <1>1, <1>3
<1>5. i <= Rest => Low(hash) >= Pow2(Rest - i)
  BY <1>1, <1>3
<1>6. ASSUME NEW j \in 1..Rest, j < i
      PROVE  Low(hash) < Pow2(Rest - j)
  <2>1. j \notin S
    BY <1>1, <1>3, <1>4, <1>6
  <2>2. Pow2(Rest - j) \in Nat
    BY BitIs
  <2> QED
    BY <1>1, <2>1, <2>2
<1> QED
  BY <1>4, <1>5, <1>6 DEF FirstPlace

LEMMA FirstOneIs ==
  ASSUME NEW hash \in Hashes, NEW i, FirstPlace(hash, i)
  PROVE  FirstOne(hash) = i
<1> DEFINE S == {Rest + 1} \cup {j \in 1..Rest : (hash \div Pow2(Rest - j)) % 2 = 1}
<1>1. /\ Rest \in Nat \ {0} /\ Low(hash) \in 0..(Pow2(Rest) - 1) /\ i \in 1..(Rest + 1)
      /\ Pow2(Rest) \in Nat \ {0}
  <2>1. Rest \in Nat \ {0} /\ Low(hash) \in 0..(Pow2(Rest) - 1)
    BY Parts
  <2> QED
    BY <2>1, Pow2Sum DEF FirstPlace
<1>2. i \in S
  <2>1. CASE i <= Rest
    <3>1. i \in 1..Rest
      BY <1>1, <2>1
    <3>2. Low(hash) < 2 * Pow2(Rest - i)
      <4>1. CASE i = 1
        <5>1. Rest - 1 \in Nat /\ (Rest - 1) + 1 = Rest
          BY <1>1
        <5>2. Pow2(Rest) = 2 * Pow2(Rest - 1)
          BY <5>1, Pow2Is
        <5> QED
          BY <1>1, <4>1, <5>2
      <4>2. CASE i # 1
        <5>1. i - 1 \in 1..Rest /\ i - 1 < i
          BY <1>1, <3>1, <4>2
        <5>2. Low(hash) < Pow2(Rest - (i - 1))
          BY <5>1 DEF FirstPlace
        <5>3. Rest - (i - 1) = (Rest - i) + 1 /\ Rest - i \in Nat
          BY <1>1, <3>1
        <5> QED
          BY <5>2, <5>3, Pow2Is
      <4> QED
        BY <4>1, <4>2
    <3>3. Low(hash) >= Pow2(Rest - i)
      BY <2>1 DEF FirstPlace
    <3>4. (hash \div Pow2(Rest - i)) % 2 = 1
      BY <1>1, <3>1, <3>2, <3>3, BitIs
    <3> QED
      BY <3>1, <3>4
  <2>2. CASE ~(i <= Rest)
    BY <1>1, <2>2
  <2> QED
    BY <2>1, <2>2
<1>3. ASSUME NEW j \in S
      PROVE  i <= j
  <2>1. CASE j = Rest + 1
    BY <1>1, <2>1
  <2>2. CASE j \in 1..Rest /\ (hash \div Pow2(Rest - j)) % 2 = 1
    <3>1. ~(j < i)
      <4>1. ASSUME j < i PROVE FALSE
        <5>1. Low(hash) < Pow2(Rest - j)
          BY <2>2, <4>1 DEF FirstPlace
        <5>2. (hash \div Pow2(Rest - j)) % 2 = 0
          BY <2>2, <5>1, BitIs
        <5> QED
          BY <2>2, <5>2
      <4> QED
        BY <4>1
    <3> QED
      BY <1>1, <2>2, <3>1
  <2> QED
    BY <2>1, <2>2
<1>4. S \in SUBSET Nat
  BY <1>1
<1>5. FirstOne(hash) = Min(S)
  BY DEF FirstOne, Rest
<1> HIDE DEF S
<1> QED
  BY <1>2, <1>3, <1>4, <1>5, MinIs

LEMMA RankOf ==
  ASSUME NEW hash \in Hashes, NEW i, FirstPlace(hash, i)
  PROVE  Rank(hash) = i
<1> DEFINE tail == ((hash * Pow2(P)) % Pow2(HashBits)) + (Pow2(P) - 1)
           S == {HashBits} \cup {z \in 0..(HashBits - 1) : tail >= Pow2(HashBits - z - 1)}
<1>1. Rest \in Nat \ {0} /\ P \in Nat /\ HashBits = P + Rest /\ i \in 1..(Rest + 1)
  BY Parts DEF FirstPlace
<1>2. \A z \in 0..(HashBits - 1) :
        (tail >= Pow2(HashBits - z - 1)) <=>
          IF z < Rest THEN Low(hash) >= Pow2(Rest - z - 1) ELSE TRUE
  BY TailIs
<1>3. Rank(hash) = Min(S) + 1
  BY DEF Rank, LeadingZeros
<1> HIDE DEF tail
<1>4. i - 1 \in S
  <2>1. CASE i - 1 = HashBits
    BY <2>1
  <2>2. CASE i - 1 # HashBits
    <3>1. i - 1 \in 0..(HashBits - 1)
      BY <1>1, <2>2
    <3>2. i - 1 < Rest => Low(hash) >= Pow2(Rest - (i - 1) - 1)
      <4>1. i - 1 < Rest => i <= Rest /\ Rest - (i - 1) - 1 = Rest - i
        BY <1>1
      <4> QED
        BY <4>1 DEF FirstPlace
    <3> QED
      BY <1>2, <3>1, <3>2
  <2> QED
    BY <2>1, <2>2
<1>5. ASSUME NEW z \in S
      PROVE  i - 1 <= z
  <2>1. CASE ~(z < Rest)
    BY <1>1, <2>1
  <2>2. CASE z < Rest
    <3>1. z \in 0..(HashBits - 1) /\ z + 1 \in 1..Rest
      BY <1>1, <2>2
    <3>2. z # HashBits
      BY <1>1, <2>2
    <3>3. Low(hash) >= Pow2(Rest - z - 1)
      BY <1>2, <2>2, <3>1, <3>2
    <3>4. Rest - (z + 1) = Rest - z - 1
      BY <1>1, <3>1
    <3>5. Low(hash) \in Nat /\ Pow2(Rest - (z + 1)) \in Nat
      BY <3>1, Parts, BitIs
    <3>6. ~(z + 1 < i)
      BY <3>1, <3>3, <3>4, <3>5 DEF FirstPlace
    <3> QED
      BY <1>1, <3>1, <3>6
  <2> QED
    BY <2>1, <2>2
<1>6. S \in SUBSET Nat /\ i - 1 \in Nat
  BY <1>1
<1> HIDE DEF S
<1>7. Min(S) = i - 1
  BY <1>4, <1>5, <1>6, MinIs
<1> QED
  BY <1>1, <1>3, <1>7

\* What LeadingZeros64 makes of the shifted bits is where their first 1 is; a hash
\* without one behind the register has the rank behind the last bit.
LEMMA RankIs ==
  ASSUME NEW hash \in Hashes
  PROVE  Rank(hash) = FirstOne(hash) /\ FirstOne(hash) \in Nat \ {0}
<1>1. PICK i : FirstPlace(hash, i)
  BY PlaceExists
<1>2. i \in Nat \ {0}
  BY <1>1, Parts DEF FirstPlace
<1> QED
  BY <1>1, <1>2, FirstOneIs, RankOf

------------------------------------------------------------------------------
(* The registers *)

\* A value is one of those a register of a sketch stands for.
Selects(s, r, v) == v \in seen[s] /\ Register(Hash[v]) = r

\* Each register is no smaller than the rank of any of its values, and is the rank of
\* one of them unless it is 0.
RegistersHold ==
  /\ regs \in [Sketches -> [Registers -> Nat]]
  /\ seen \in [Sketches -> SUBSET Values]
  /\ \A s \in Sketches, r \in Registers :
       /\ \A v \in Values : Selects(s, r, v) => FirstOne(Hash[v]) <= regs[s][r]
       /\ regs[s][r] # 0 => \E v \in Values : Selects(s, r, v) /\ regs[s][r] = FirstOne(Hash[v])

LEMMA HashOf == \A v \in Values : /\ Hash[v] \in Hashes
                                  /\ Register(Hash[v]) \in Registers
                                  /\ Rank(Hash[v]) = FirstOne(Hash[v])
                                  /\ FirstOne(Hash[v]) \in Nat \ {0}
<1> SUFFICES ASSUME NEW v \in Values
             PROVE  /\ Hash[v] \in Hashes
                    /\ Register(Hash[v]) \in Registers
                    /\ Rank(Hash[v]) = FirstOne(Hash[v])
                    /\ FirstOne(Hash[v]) \in Nat \ {0}
  OBVIOUS
<1>1. Hash[v] \in Hashes
  BY HllAssumption DEF Hashes
<1>2. Register(Hash[v]) \in Registers
  BY <1>1, Parts
<1> QED
  BY <1>1, <1>2, RankIs

LEMMA RegistersHoldInit == HllInit => RegistersHold
BY DEF HllInit, RegistersHold, Selects

LEMMA RegistersHoldAdd ==
  ASSUME RegistersHold, NEW s \in Sketches, NEW value \in Values, Add(s, value)
  PROVE  RegistersHold'
<1> DEFINE reg == Register(Hash[value])
           rank == Rank(Hash[value])
           new == IF rank > regs[s][reg] THEN rank ELSE regs[s][reg]
<1>1. reg \in Registers /\ rank = FirstOne(Hash[value]) /\ rank \in Nat \ {0}
  BY HashOf
<1>2. regs' = IF rank > regs[s][reg] THEN [regs EXCEPT ![s][reg] = rank] ELSE regs
  BY DEF Add
<1>3. seen' = [seen EXCEPT ![s] = @ \cup {value}]
  BY DEF Add
<1>4. value \in Values /\ reg = Register(Hash[value])
  OBVIOUS
<1> HIDE DEF reg, rank
<1>5. regs[s][reg] \in Nat
  BY <1>1 DEF RegistersHold
<1>6. regs' \in [Sketches -> [Registers -> Nat]]
  <2>1. CASE rank > regs[s][reg]
    <3>1. [regs[s] EXCEPT ![reg] = rank] \in [Registers -> Nat]
      BY <1>1 DEF RegistersHold
    <3>2. regs' = [regs EXCEPT ![s] = [regs[s] EXCEPT ![reg] = rank]]
      BY <1>2, <2>1
    <3> QED
      BY <3>1, <3>2 DEF RegistersHold
  <2>2. CASE ~(rank > regs[s][reg])
    BY <1>2, <2>2 DEF RegistersHold
  <2> QED
    BY <2>1, <2>2
<1>7. \A t \in Sketches, r \in Registers :
        regs'[t][r] = IF t = s /\ r = reg THEN new ELSE regs[t][r]
  <2> SUFFICES ASSUME NEW t \in Sketches, NEW r \in Registers
               PROVE  regs'[t][r] = IF t = s /\ r = reg THEN new ELSE regs[t][r]
    OBVIOUS
  <2>1. regs[t] \in [Registers -> Nat] /\ regs \in [Sketches -> [Registers -> Nat]]
    BY DEF RegistersHold
  <2>2. CASE rank > regs[s][reg]
    <3>1. regs'[t] = IF t = s THEN [regs[t] EXCEPT ![reg] = rank] ELSE regs[t]
      BY <1>2, <2>1, <2>2
    <3> QED
      BY <1>1, <2>1, <2>2, <3>1
  <2>3. CASE ~(rank > regs[s][reg])
    BY <1>2, <2>3
  <2> QED
    BY <2>2, <2>3
<1>8. seen' \in [Sketches -> SUBSET Values]
  BY <1>3, <1>4 DEF RegistersHold
<1>9. \A t \in Sketches, r \in Registers, v \in Values :
        Selects(t, r, v)' <=> Selects(t, r, v) \/ (t = s /\ v = value /\ r = reg)
  BY <1>3, <1>4 DEF RegistersHold, Selects
<1>10. ASSUME NEW t \in Sketches, NEW r \in Registers
       PROVE  /\ \A v \in Values : Selects(t, r, v)' => FirstOne(Hash[v]) <= regs'[t][r]
              /\ regs'[t][r] # 0 => \E v \in Values : Selects(t, r, v)' /\ regs'[t][r] = FirstOne(Hash[v])
  <2>1. /\ \A v \in Values : Selects(t, r, v) => FirstOne(Hash[v]) <= regs[t][r]
        /\ regs[t][r] # 0 => \E v \in Values : Selects(t, r, v) /\ regs[t][r] = FirstOne(Hash[v])
        /\ regs[t][r] \in Nat
    BY DEF RegistersHold
  <2>2. \A v \in Values : FirstOne(Hash[v]) \in Nat
    BY HashOf
  <2>3. CASE t = s /\ r = reg
    <3>1. regs'[t][r] = new /\ new >= regs[t][r] /\ new >= rank /\ new \in {rank, regs[t][r]}
      BY <1>1, <1>5, <1>7, <2>3
    <3>2. ASSUME NEW v \in Values, Selects(t, r, v)'
          PROVE  FirstOne(Hash[v]) <= regs'[t][r]
      <4>1. Selects(t, r, v) \/ v = value
        BY <1>9, <3>2
      <4> QED
        BY <1>1, <1>5, <2>1, <2>2, <2>3, <3>1, <4>1
    <3>3. ASSUME regs'[t][r] # 0
          PROVE  \E v \in Values : Selects(t, r, v)' /\ regs'[t][r] = FirstOne(Hash[v])
      <4>1. CASE regs'[t][r] = rank
        <5>1. Selects(t, r, value)'
          BY <1>4, <1>9, <2>3
        <5> QED
          BY <1>1, <1>4, <4>1, <5>1
      <4>2. CASE regs'[t][r] = regs[t][r]
        <5>1. PICK v \in Values : Selects(t, r, v) /\ regs[t][r] = FirstOne(Hash[v])
          BY <2>1, <3>3, <4>2
        <5> QED
          BY <1>9, <4>2, <5>1
      <4> QED
        BY <3>1, <4>1, <4>2
    <3> QED
      BY <3>2, <3>3
  <2>4. CASE ~(t = s /\ r = reg)
    BY <1>7, <1>9, <2>1, <2>4
  <2> QED
    BY <2>3, <2>4
<1> QED
  BY <1>6, <1>8, <1>10 DEF RegistersHold

LEMMA RegistersHoldMerge ==
  ASSUME RegistersHold, NEW s \in Sketches, NEW other \in Sketches, Merge(s, other)
  PROVE  RegistersHold'
<1>1. /\ regs \in [Sketches -> [Registers -> Nat]]
      /\ seen \in [Sketches -> SUBSET Values]
  BY DEF RegistersHold
<1> DEFINE larger == [r \in Registers |-> IF regs[other][r] > regs[s][r] THEN regs[other][r] ELSE regs[s][r]]
<1>2. larger \in [Registers -> Nat]
  BY <1>1
<1>3. regs' = [regs EXCEPT ![s] = larger] /\ seen' = [seen EXCEPT ![s] = @ \cup seen[other]]
  BY DEF Merge
<1>4. \A r \in Registers : /\ larger[r] >= regs[other][r] /\ larger[r] >= regs[s][r]
                           /\ larger[r] = regs[other][r] \/ larger[r] = regs[s][r]
  BY <1>1
<1> HIDE DEF larger
<1>5. /\ regs' \in [Sketches -> [Registers -> Nat]]
      /\ seen' \in [Sketches -> SUBSET Values]
      /\ \A t \in Sketches : regs'[t] = IF t = s THEN larger ELSE regs[t]
  BY <1>1, <1>2, <1>3
<1>6. \A t \in Sketches, r \in Registers, v \in Values :
        Selects(t, r, v)' <=> Selects(t, r, v) \/ (t = s /\ Selects(other, r, v))
  BY <1>1, <1>3 DEF Selects
<1>7. ASSUME NEW t \in Sketches, NEW r \in Registers
      PROVE  /\ \A v \in Values : Selects(t, r, v)' => FirstOne(Hash[v]) <= regs'[t][r]
             /\ regs'[t][r] # 0 => \E v \in Values : Selects(t, r, v)' /\ regs'[t][r] = FirstOne(Hash[v])
  <2>1. \A u \in Sketches :
           /\ \A v \in Values : Selects(u, r, v) => FirstOne(Hash[v]) <= regs[u][r]
           /\ regs[u][r] # 0 => \E v \in Values : Selects(u, r, v) /\ regs[u][r] = FirstOne(Hash[v])
           /\ regs[u][r] \in Nat
    BY DEF RegistersHold
  <2>2. \A v \in Values : FirstOne(Hash[v]) \in Nat
    BY HashOf
  <2>3. CASE t = s
    <3>1. /\ regs'[t][r] = larger[r] /\ larger[r] \in Nat
          /\ larger[r] >= regs[other][r] /\ larger[r] >= regs[s][r]
          /\ larger[r] = regs[other][r] \/ larger[r] = regs[s][r]
      BY <1>2, <1>4, <1>5, <2>3
    <3>2. ASSUME NEW v \in Values, Selects(t, r, v)'
          PROVE  FirstOne(Hash[v]) <= regs'[t][r]
      <4>1. Selects(s, r, v) \/ Selects(other, r, v)
        BY <1>6, <2>3, <3>2
      <4>2. FirstOne(Hash[v]) <= regs[s][r] \/ FirstOne(Hash[v]) <= regs[other][r]
        BY <2>1, <4>1
      <4>3. regs[s][r] \in Nat /\ regs[other][r] \in Nat /\ FirstOne(Hash[v]) \in Nat
        BY <2>1, <2>2
      <4> QED
        BY <3>1, <4>2, <4>3
    <3>3. ASSUME regs'[t][r] # 0
          PROVE  \E v \in Values : Selects(t, r, v)' /\ regs'[t][r] = FirstOne(Hash[v])
      <4>1. PICK u \in {s, other} : regs'[t][r] = regs[u][r]
        BY <3>1
      <4>2. PICK v \in Values : Selects(u, r, v) /\ regs[u][r] = FirstOne(Hash[v])
        BY <2>1, <3>3, <4>1
      <4>3. Selects(t, r, v)'
        BY <1>6, <2>3, <4>1, <4>2
      <4> QED
        BY <4>1, <4>2, <4>3
    <3> QED
      BY <3>2, <3>3
  <2>4. CASE t # s
    BY <1>5, <1>6, <2>1, <2>4
  <2> QED
    BY <2>3, <2>4
<1> QED
  BY <1>5, <1>7 DEF RegistersHold

LEMMA RegistersHoldReset ==
  ASSUME RegistersHold, NEW s \in Sketches, ResetRegisters(s)
  PROVE  RegistersHold'
<1>1. /\ regs \in [Sketches -> [Registers -> Nat]]
      /\ seen \in [Sketches -> SUBSET Values]
      /\ regs' = [regs EXCEPT ![s] = [r \in Registers |-> 0]]
      /\ seen' = [seen EXCEPT ![s] = {}]
  BY DEF RegistersHold, ResetRegisters
<1>2. /\ regs' \in [Sketches -> [Registers -> Nat]]
      /\ seen' \in [Sketches -> SUBSET Values]
  BY <1>1
<1>3. \A t \in Sketches, r \in Registers, v \in Values :
        Selects(t, r, v)' <=> t # s /\ Selects(t, r, v)
  BY <1>1 DEF Selects
<1>4. \A t \in Sketches, r \in Registers : regs'[t][r] = IF t = s THEN 0 ELSE regs[t][r]
  BY <1>1
<1> QED
  BY <1>2, <1>3, <1>4 DEF RegistersHold

LEMMA RegistersHoldNext == RegistersHold /\ [Next]_vars => RegistersHold'
<1> SUFFICES ASSUME RegistersHold, [Next]_vars
             PROVE  RegistersHold'
  OBVIOUS
<1>1. ASSUME UNCHANGED hllVars
      PROVE  RegistersHold'
  BY <1>1 DEF hllVars, RegistersHold, Selects
<1>2. ASSUME NEW s \in Sketches, NEW value \in Values, Add(s, value)
      PROVE  RegistersHold'
  BY <1>2, RegistersHoldAdd
<1>3. ASSUME NEW s \in Sketches, NEW other \in Sketches, Merge(s, other)
      PROVE  RegistersHold'
  BY <1>3, RegistersHoldMerge
<1>4. ASSUME NEW s \in Sketches, ResetRegisters(s)
      PROVE  RegistersHold'
  BY <1>4, RegistersHoldReset
<1> QED
  BY <1>1, <1>2, <1>3, <1>4 DEF Next, HllNext, vars

LEMMA HeldRegistersOfUnion == RegistersHold => RegistersOfUnion
<1> SUFFICES ASSUME RegistersHold, NEW s \in Sketches, NEW r \in Registers
             PROVE  regs[s][r] = Max({0} \cup {FirstOne(Hash[v]) :
                                   v \in {w \in seen[s] : Register(Hash[w]) = r}})
  BY DEF RegistersOfUnion
<1> DEFINE S == {0} \cup {FirstOne(Hash[v]) : v \in {w \in seen[s] : Register(Hash[w]) = r}}
           top == regs[s][r]
<1>1. /\ top \in Nat /\ seen[s] \subseteq Values
      /\ \A v \in Values : Selects(s, r, v) => FirstOne(Hash[v]) <= top
      /\ top # 0 => \E v \in Values : Selects(s, r, v) /\ top = FirstOne(Hash[v])
  BY DEF RegistersHold
<1>2. top \in S
  BY <1>1 DEF Selects
<1>3. \A y \in S : y <= top /\ y \in Nat
  BY <1>1, HashOf DEF Selects
<1>4. Max(S) = CHOOSE x \in S : \A y \in S : x >= y
  BY DEF Max
<1> HIDE DEF S, top
<1>5. Max(S) \in S /\ \A y \in S : Max(S) >= y
  BY <1>1, <1>2, <1>3, <1>4
<1>6. Max(S) >= top /\ Max(S) <= top /\ Max(S) \in Nat
  BY <1>2, <1>3, <1>5
<1>7. Max(S) = top
  BY <1>1, <1>6
<1> QED
  BY <1>7 DEF S, top

\* The registers of a sketch are a function of the set of values it stands for,
\* whatever order, repetition and nesting of adds and merges has led to it.
THEOREM RegistersAreOfUnion == Spec => []RegistersOfUnion
<1>1. Init => RegistersHold
  BY RegistersHoldInit DEF Init
<1> QED
  BY <1>1, RegistersHoldNext, HeldRegistersOfUnion, PTL DEF Spec
==============================================================================
