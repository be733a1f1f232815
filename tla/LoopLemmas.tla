------------------------------ MODULE LoopLemmas ------------------------------
(***************************************************************************)
(* Induction over the naturals, for sets of naturals instead of formulas:  *)
(* the theorems of the library that are about formulas take operators as   *)
(* parameters.  With it, that a function defined by recursion over the     *)
(* turns of a loop exists, so that the definition satisfies its equation,  *)
(* and the rule for the invariant of a loop; the same for trees, and for   *)
(* functions defined by recursion over their nodes; and what is in a       *)
(* sequence that an element was inserted into or removed from.             *)
(***************************************************************************)
EXTENDS Integers, SequencesExt, SequenceTheorems, WellFoundedInduction, TLAPS

\* A set of naturals that is not empty has a least element.
LEMMA LeastElement ==
  ASSUME NEW T \in SUBSET Nat, T # {}
  PROVE  \E x \in T : \A y \in T : x <= y
<1> DEFINE R == {ss \in Nat \X Nat : ss[1] < ss[2]}
<1>1. IsWellFoundedOn(R, Nat)
  BY NatLessThanWellFounded DEF OpToRel
<1> HIDE DEF R
<1>2. PICK x \in T : \A y \in T : <<y, x>> \notin R
  BY <1>1, WFMin
<1>3. \A y \in T : ~(y < x)
  BY <1>2 DEF R
<1> QED
  BY <1>3

\* One that holds 0 and with each number the next holds all of them.
LEMMA AllNaturals ==
  ASSUME NEW T \in SUBSET Nat, 0 \in T, \A n \in Nat : n \in T => n + 1 \in T
  PROVE  T = Nat
<1>1. ASSUME Nat \ T # {} PROVE FALSE
  <2>1. PICK x \in Nat \ T : \A y \in Nat \ T : x <= y
    BY <1>1, LeastElement
  <2>2. x # 0 /\ x - 1 \in Nat
    BY <2>1
  <2>3. x - 1 \in T
    BY <2>1, <2>2
  <2> QED
    BY <2>1, <2>2, <2>3
<1> QED
  BY <1>1

\* f holds the states of a loop from base, which turn n takes from s to step[<<n, s>>].
IsLoop(f, N, X, base, step) ==
  /\ f \in [0..N -> X]
  /\ f[0] = base
  /\ \A n \in 1..N : f[n] = step[<<n, f[n - 1]>>]

\* A loop of N turns has its states.
LEMMA LoopExists ==
  ASSUME NEW N \in Nat, NEW X, NEW base \in X, NEW step \in [(1..N) \X X -> X]
  PROVE  \E f : IsLoop(f, N, X, base, step)
<1> DEFINE T == {n \in Nat : n <= N => \E g : IsLoop(g, n, X, base, step)}
<1>1. 0 \in T
  <2>1. IsLoop([k \in 0..0 |-> base], 0, X, base, step)
    BY DEF IsLoop
  <2> QED
    BY <2>1
<1>2. ASSUME NEW n \in Nat, n \in T
      PROVE  n + 1 \in T
  <2>1. SUFFICES ASSUME n + 1 <= N
                 PROVE  \E g : IsLoop(g, n + 1, X, base, step)
    OBVIOUS
  <2>2. PICK g : IsLoop(g, n, X, base, step)
    BY <1>2, <2>1
  <2> DEFINE h == [k \in 0..(n + 1) |-> IF k = n + 1 THEN step[<<n + 1, g[n]>>] ELSE g[k]]
  <2>3. g \in [0..n -> X] /\ g[n] \in X /\ n + 1 \in 1..N
    BY <2>1, <2>2 DEF IsLoop
  <2>4. h \in [0..(n + 1) -> X]
    BY <2>3
  <2>5. h[0] = base
    BY <2>2 DEF IsLoop
  <2>6. ASSUME NEW k \in 1..(n + 1)
        PROVE  h[k] = step[<<k, h[k - 1]>>]
    <3>1. CASE k = n + 1
      <4>1. k - 1 = n /\ n \in 0..(n + 1) /\ n # n + 1 /\ k \in 0..(n + 1)
        BY <3>1
      <4>2. h[k] = step[<<n + 1, g[n]>>] /\ h[n] = g[n]
        BY <3>1, <4>1
      <4> QED
        BY <3>1, <4>1, <4>2
    <3>2. CASE k # n + 1
      <4>1. k \in 1..n /\ k - 1 \in 0..n /\ k \in 0..n
        BY <3>2
      <4>2. h[k] = g[k] /\ h[k - 1] = g[k - 1]
        BY <4>1
      <4>3. g[k] = step[<<k, g[k - 1]>>]
        BY <2>2, <4>1 DEF IsLoop
      <4> QED
        BY <4>2, <4>3
    <3> QED
      BY <3>1, <3>2
  <2> HIDE DEF h
  <2> QED
    BY <2>4, <2>5, <2>6 DEF IsLoop
<1>3. T = Nat
  <2>1. T \in SUBSET Nat
    OBVIOUS
  <2> HIDE DEF T
  <2> QED
    BY <1>1, <1>2, <2>1, AllNaturals
<1> QED
  BY <1>3

\* The states of a loop as the code of the modules has them, by recursion over the turns.
IsRun(f, N, X, base, step) ==
  /\ f \in [0..N -> X]
  /\ f = [n \in 0..N |-> IF n = 0 THEN base ELSE step[<<n, f[n - 1]>>]]

LEMMA LoopRuns ==
  ASSUME NEW N \in Nat, NEW X, NEW base \in X, NEW step \in [(1..N) \X X -> X]
  PROVE  \E f : IsRun(f, N, X, base, step)
<1>1. PICK f : IsLoop(f, N, X, base, step)
  BY LoopExists
<1>2. f \in [0..N -> X] /\ f = [n \in 0..N |-> f[n]]
  BY <1>1 DEF IsLoop
<1>3. ASSUME NEW n \in 0..N
      PROVE  f[n] = IF n = 0 THEN base ELSE step[<<n, f[n - 1]>>]
  <2>1. n = 0 \/ n \in 1..N
    OBVIOUS
  <2> QED
    BY <1>1, <2>1 DEF IsLoop
<1>4. f = [n \in 0..N |-> IF n = 0 THEN base ELSE step[<<n, f[n - 1]>>]]
  BY <1>2, <1>3, Zenon
<1> QED
  BY <1>2, <1>4 DEF IsRun

\* What holds before the first turn and after a turn if it held before it holds
\* after every turn; Good[n] is the set of the states it may be in after n turns.
LEMMA LoopInvariant ==
  ASSUME NEW N \in Nat, NEW f, NEW Good,
         f[0] \in Good[0],
         \A n \in 1..N : f[n - 1] \in Good[n - 1] => f[n] \in Good[n]
  PROVE  \A n \in 0..N : f[n] \in Good[n]
<1> DEFINE T == {n \in Nat : n <= N => f[n] \in Good[n]}
<1>1. 0 \in T
  OBVIOUS
<1>2. ASSUME NEW n \in Nat, n \in T
      PROVE  n + 1 \in T
  <2>1. CASE n + 1 <= N
    <3>1. n + 1 \in 1..N /\ (n + 1) - 1 = n /\ n <= N
      BY <2>1
    <3>2. f[n] \in Good[n]
      BY <1>2, <3>1
    <3> QED
      BY <3>1, <3>2
  <2> QED
    BY <2>1
<1>3. T \in SUBSET Nat
  OBVIOUS
<1> HIDE DEF T
<1>4. T = Nat
  BY <1>1, <1>2, <1>3, AllNaturals
<1> QED
  BY <1>4 DEF T

\* A number that is doubled n times: a loop over the turns, as HashMap and
\* HyperLogLog write it.
Doubling(base, n) ==
  LET c[k \in 0..n] == IF k = 0 THEN base ELSE 2 * c[k - 1]
  IN  c[n]

LEMMA DoublingIs ==
  ASSUME NEW base \in Int
  PROVE  /\ Doubling(base, 0) = base
         /\ \A n \in Nat : Doubling(base, n + 1) = 2 * Doubling(base, n)
<1> DEFINE c(n) == CHOOSE f : f = [k \in 0..n |-> IF k = 0 THEN base ELSE 2 * f[k - 1]]
<1>1. ASSUME NEW n \in Nat
      PROVE  c(n) = [k \in 0..n |-> IF k = 0 THEN base ELSE 2 * c(n)[k - 1]]
  <2> DEFINE step == [s \in (1..n) \X Int |-> 2 * s[2]]
  <2>1. step \in [(1..n) \X Int -> Int]
    OBVIOUS
  <2>2. PICK f : IsLoop(f, n, Int, base, step)
    <3> HIDE DEF step
    <3> QED
      BY <2>1, LoopExists
  <2>3. f = [k \in 0..n |-> IF k = 0 THEN base ELSE 2 * f[k - 1]]
    <3>1. ASSUME NEW k \in 1..n
          PROVE  f[k] = 2 * f[k - 1]
      <4>1. <<k, f[k - 1]>> \in (1..n) \X Int
        BY <2>2 DEF IsLoop
      <4> QED
        BY <2>2, <4>1 DEF IsLoop
    <3>2. f = [k \in 0..n |-> f[k]] /\ f[0] = base
      BY <2>2 DEF IsLoop
    <3>3. ASSUME NEW k \in 0..n
          PROVE  f[k] = IF k = 0 THEN base ELSE 2 * f[k - 1]
      <4>1. k # 0 => k \in 1..n
        OBVIOUS
      <4> QED
        BY <3>1, <3>2, <4>1
    <3> QED
      BY <3>2, <3>3, Zenon
  <2> QED
    BY <2>3
<1>2. \A n : Doubling(base, n) = c(n)[n]
  BY DEF Doubling
<1> HIDE DEF c
<1>3. \A n \in Nat : /\ c(n)[0] = base
                     /\ \A k \in 1..n : c(n)[k] = 2 * c(n)[k - 1]
  <2> SUFFICES ASSUME NEW n \in Nat
               PROVE  /\ c(n)[0] = base
                      /\ \A k \in 1..n : c(n)[k] = 2 * c(n)[k - 1]
    OBVIOUS
  <2> DEFINE g == c(n)
  <2>1. g = [k \in 0..n |-> IF k = 0 THEN base ELSE 2 * g[k - 1]]
    BY <1>1
  <2> HIDE DEF g
  <2>2. g[0] = base /\ \A k \in 1..n : g[k] = 2 * g[k - 1]
    BY <2>1
  <2> QED
    BY <2>2 DEF g
<1>4. ASSUME NEW n \in Nat
      PROVE  Doubling(base, n + 1) = 2 * Doubling(base, n)
  <2> DEFINE f == c(n)
             g == c(n + 1)
             Good == [k \in 0..n |-> {g[k]}]
  <2>1. f[0] = base /\ \A k \in 1..n : f[k] = 2 * f[k - 1]
    BY <1>3
  <2>2. g[0] = base /\ \A k \in 1..(n + 1) : g[k] = 2 * g[k - 1]
    BY <1>3
  <2> HIDE DEF f, g
  <2>3. f[0] \in Good[0]
    BY <2>1, <2>2
  <2>4. ASSUME NEW k \in 1..n, f[k - 1] \in Good[k - 1]
        PROVE  f[k] \in Good[k]
    <3>1. k - 1 \in 0..n /\ k \in 0..n /\ k \in 1..(n + 1)
      OBVIOUS
    <3> QED
      BY <2>1, <2>2, <2>4, <3>1
  <2>5. f[n] \in Good[n]
    <3> HIDE DEF Good
    <3> QED
      BY <2>3, <2>4, LoopInvariant
  <2>6. f[n] = g[n]
    BY <2>5
  <2>7. g[n + 1] = 2 * g[n]
    <3>1. n + 1 \in 1..(n + 1) /\ (n + 1) - 1 = n
      OBVIOUS
    <3> QED
      BY <2>2, <3>1
  <2> QED
    BY <1>2, <2>6, <2>7 DEF f, g
<1> QED
  BY <1>2, <1>3, <1>4

------------------------------------------------------------------------------
(* Trees: T[d] holds those of d levels at most, nil the one of none. *)

Layered(T, nil) ==
  /\ T[0] = {nil}
  /\ \A d \in Nat : nil \in T[d] /\ T[d] \subseteq T[d + 1]
  /\ \A d \in Nat : \A t \in T[d + 1] : t # nil => t.left \in T[d] /\ t.right \in T[d]

AllOf(T) == UNION {T[d] : d \in Nat}

\* A set that holds nil, and a node when it holds its two subtrees, holds every tree.
LEMMA TreeInduction ==
  ASSUME NEW T, NEW nil, Layered(T, nil), NEW P, nil \in P,
         \A n \in AllOf(T) : n # nil /\ n.left \in P /\ n.right \in P => n \in P
  PROVE  AllOf(T) \subseteq P
<1> DEFINE D == {d \in Nat : T[d] \subseteq P}
<1>1. 0 \in D
  BY DEF Layered
<1>2. ASSUME NEW d \in Nat, d \in D
      PROVE  d + 1 \in D
  <2>1. d + 1 \in Nat
    OBVIOUS
  <2>2. ASSUME NEW t \in T[d + 1]
        PROVE  t \in P
    <3>1. t \in AllOf(T)
      BY <2>1 DEF AllOf
    <3>2. CASE t # nil
      <4>1. t.left \in T[d] /\ t.right \in T[d]
        BY <3>2 DEF Layered
      <4>2. T[d] \subseteq P
        BY <1>2
      <4> QED
        BY <3>1, <3>2, <4>1, <4>2
    <3> QED
      BY <3>2
  <2> QED
    BY <2>1, <2>2
<1>3. D = Nat
  <2> HIDE DEF D
  <2> QED
    BY <1>1, <1>2, AllNaturals DEF D
<1> QED
  BY <1>3 DEF AllOf

\* Subtrees are trees.
LEMMA Subtrees ==
  ASSUME NEW T, NEW nil, Layered(T, nil)
  PROVE  /\ nil \in AllOf(T)
         /\ \A n \in AllOf(T) : n # nil => n.left \in AllOf(T) /\ n.right \in AllOf(T)
         /\ \A d \in Nat : \A n \in T[d] : n # nil => n.left \in T[d] /\ n.right \in T[d]
<1>1. ASSUME NEW d \in Nat, NEW n \in T[d], n # nil
      PROVE  d - 1 \in Nat /\ n.left \in T[d - 1] /\ n.right \in T[d - 1]
             /\ T[d - 1] \subseteq T[d]
  <2>1. d # 0
    BY <1>1 DEF Layered
  <2> DEFINE e == d - 1
  <2>2. e \in Nat /\ d = e + 1
    BY <2>1
  <2> HIDE DEF e
  <2>3. n.left \in T[e] /\ n.right \in T[e] /\ T[e] \subseteq T[d]
    BY <1>1, <2>2 DEF Layered
  <2> QED
    BY <2>2, <2>3 DEF e
<1>2. nil \in AllOf(T)
  BY DEF AllOf, Layered
<1>3. ASSUME NEW n \in AllOf(T), n # nil
      PROVE  n.left \in AllOf(T) /\ n.right \in AllOf(T)
  <2>1. PICK d \in Nat : n \in T[d]
    BY DEF AllOf
  <2>2. d - 1 \in Nat /\ n.left \in T[d - 1] /\ n.right \in T[d - 1]
    BY <1>1, <1>3, <2>1
  <2> QED
    BY <2>2 DEF AllOf
<1>4. ASSUME NEW d \in Nat, NEW n \in T[d], n # nil
      PROVE  n.left \in T[d] /\ n.right \in T[d]
  BY <1>1, <1>4
<1> QED
  BY <1>2, <1>3, <1>4

\* f is the recursion over the trees of S that has base for nil and takes a node n,
\* with the values of its two subtrees, to step[<<n, l, r>>].
IsFold(f, S, nil, R, base, step) ==
  /\ f \in [S -> R]
  /\ \A n \in S : f[n] = IF n = nil THEN base ELSE step[<<n, f[n.left], f[n.right]>>]

\* Two such recursions agree where both are.
LEMMA FoldsAgree ==
  ASSUME NEW T, NEW nil, Layered(T, nil), NEW R, NEW base, NEW step,
         NEW d \in Nat, NEW e \in Nat, NEW f, NEW g,
         IsFold(f, T[d], nil, R, base, step), IsFold(g, T[e], nil, R, base, step)
  PROVE  \A t \in T[d] : t \in T[e] => f[t] = g[t]
<1> DEFINE P == {t \in AllOf(T) : t \in T[d] /\ t \in T[e] => f[t] = g[t]}
<1>1. nil \in P
  <2>1. nil \in T[d] /\ nil \in T[e] /\ nil \in AllOf(T)
    BY Subtrees DEF Layered
  <2> QED
    BY <2>1 DEF IsFold
<1>2. ASSUME NEW n \in AllOf(T), n # nil, n.left \in P, n.right \in P, n \in T[d], n \in T[e]
      PROVE  f[n] = g[n]
  <2>1. /\ n.left \in T[d] /\ n.right \in T[d]
        /\ n.left \in T[e] /\ n.right \in T[e]
    BY <1>2, Subtrees
  <2>2. f[n.left] = g[n.left] /\ f[n.right] = g[n.right]
    BY <1>2, <2>1
  <2>3. f[n] = step[<<n, f[n.left], f[n.right]>>]
    BY <1>2 DEF IsFold
  <2>4. g[n] = step[<<n, g[n.left], g[n.right]>>]
    BY <1>2 DEF IsFold
  <2> QED
    BY <2>2, <2>3, <2>4
<1>3. \A n \in AllOf(T) : n # nil /\ n.left \in P /\ n.right \in P => n \in P
  BY <1>2
<1> HIDE DEF P
<1>4. AllOf(T) \subseteq P
  BY <1>1, <1>3, TreeInduction
<1>5. \A t \in T[d] : t \in AllOf(T)
  BY DEF AllOf
<1> QED
  BY <1>4, <1>5 DEF P

\* There is one on the trees of so many levels ...
LEMMA FoldExistsTo ==
  ASSUME NEW T, NEW nil, Layered(T, nil), NEW R, NEW base \in R, NEW step,
         \A n \in AllOf(T), a, b \in R : n # nil => step[<<n, a, b>>] \in R,
         NEW e \in Nat
  PROVE  \E f : IsFold(f, T[e], nil, R, base, step)
<1> DEFINE D == {d \in Nat : \E f : IsFold(f, T[d], nil, R, base, step)}
<1>1. 0 \in D
  <2>1. IsFold([t \in T[0] |-> base], T[0], nil, R, base, step)
    BY DEF IsFold, Layered
  <2> QED
    BY <2>1
<1>2. ASSUME NEW d \in Nat, d \in D
      PROVE  d + 1 \in D
  <2>1. PICK f : IsFold(f, T[d], nil, R, base, step)
    BY <1>2
  <2> DEFINE Value(n) == IF n = nil THEN base ELSE step[<<n, f[n.left], f[n.right]>>]
             g == [n \in T[d + 1] |-> Value(n)]
  <2>2. nil \in T[d] /\ T[d] \subseteq T[d + 1] /\ d + 1 \in Nat
    BY DEF Layered
  <2>3. \A n \in T[d + 1] : n # nil => n.left \in T[d] /\ n.right \in T[d]
    BY DEF Layered
  <2>4. \A n \in T[d] : n # nil => n.left \in T[d] /\ n.right \in T[d]
    BY Subtrees
  <2>5. \A n \in T[d] : f[n] \in R /\ f[n] = Value(n)
    BY <2>1 DEF IsFold
  <2>6. \A n \in T[d + 1] : Value(n) \in R
    <3> SUFFICES ASSUME NEW n \in T[d + 1], n # nil
                 PROVE  step[<<n, f[n.left], f[n.right]>>] \in R
      OBVIOUS
    <3>1. n \in AllOf(T)
      BY <2>2 DEF AllOf
    <3>2. f[n.left] \in R /\ f[n.right] \in R
      BY <2>3, <2>5
    <3> QED
      BY <3>1, <3>2
  <2> HIDE DEF Value
  <2>7. g \in [T[d + 1] -> R] /\ \A n \in T[d] : g[n] = f[n]
    BY <2>2, <2>5, <2>6
  <2> HIDE DEF g
  <2>8. ASSUME NEW n \in T[d + 1]
        PROVE  g[n] = IF n = nil THEN base ELSE step[<<n, g[n.left], g[n.right]>>]
    <3>1. g[n] = Value(n)
      BY DEF g
    <3>2. n # nil => g[n.left] = f[n.left] /\ g[n.right] = f[n.right]
      BY <2>3, <2>7
    <3> QED
      BY <3>1, <3>2 DEF Value
  <2>9. IsFold(g, T[d + 1], nil, R, base, step)
    BY <2>7, <2>8 DEF IsFold
  <2> QED
    BY <2>2, <2>9
<1>3. D = Nat
  <2> HIDE DEF D
  <2> QED
    BY <1>1, <1>2, AllNaturals DEF D
<1> QED
  BY <1>3

\* ... and one on all of them.
LEMMA FoldExists ==
  ASSUME NEW T, NEW nil, Layered(T, nil), NEW R, NEW base \in R, NEW step,
         \A n \in AllOf(T), a, b \in R : n # nil => step[<<n, a, b>>] \in R
  PROVE  \E f : IsFold(f, AllOf(T), nil, R, base, step)
<1> DEFINE c(d) == CHOOSE f : IsFold(f, T[d], nil, R, base, step)
           level(t) == CHOOSE d \in Nat : t \in T[d]
           f == [t \in AllOf(T) |-> c(level(t))[t]]
<1>1. ASSUME NEW d \in Nat
      PROVE  IsFold(c(d), T[d], nil, R, base, step)
  <2>1. \E g : IsFold(g, T[d], nil, R, base, step)
    BY FoldExistsTo
  <2> QED
    BY <2>1
<1>2. ASSUME NEW t \in AllOf(T)
      PROVE  level(t) \in Nat /\ t \in T[level(t)]
  BY DEF AllOf
<1> HIDE DEF c, level
<1>3. ASSUME NEW d \in Nat, NEW t \in T[d]
      PROVE  t \in AllOf(T) /\ f[t] = c(d)[t]
  <2>1. t \in AllOf(T)
    BY DEF AllOf
  <2> DEFINE e == level(t)
  <2>2. e \in Nat /\ t \in T[e]
    BY <1>2, <2>1
  <2>3. f[t] = c(e)[t]
    BY <2>1
  <2> HIDE DEF e
  <2>4. IsFold(c(e), T[e], nil, R, base, step) /\ IsFold(c(d), T[d], nil, R, base, step)
    BY <1>1, <2>2
  <2>5. c(e)[t] = c(d)[t]
    BY <2>2, <2>4, FoldsAgree
  <2> QED
    BY <2>1, <2>3, <2>5
<1> HIDE DEF f
<1>4. ASSUME NEW t \in AllOf(T)
      PROVE  /\ f[t] \in R
             /\ f[t] = IF t = nil THEN base ELSE step[<<t, f[t.left], f[t.right]>>]
  <2>1. PICK d \in Nat : t \in T[d]
    BY DEF AllOf
  <2>2. IsFold(c(d), T[d], nil, R, base, step)
    BY <1>1
  <2>3. t # nil => t.left \in T[d] /\ t.right \in T[d]
    BY <2>1, Subtrees
  <2>4. f[t] = c(d)[t] /\ (t # nil => f[t.left] = c(d)[t.left] /\ f[t.right] = c(d)[t.right])
    BY <1>3, <2>1, <2>3
  <2> QED
    BY <2>1, <2>2, <2>4 DEF IsFold
<1>5. f \in [AllOf(T) -> R]
  BY <1>4 DEF f
<1> QED
  BY <1>4, <1>5 DEF IsFold

------------------------------------------------------------------------------
(* Sequences *)

\* What is where in a sequence with an element inserted...
LEMMA InsertAtElements ==
  ASSUME NEW S, NEW s \in Seq(S), NEW i \in 1..(Len(s) + 1), NEW e \in S
  PROVE  LET t == InsertAt(s, i, e)
         IN  /\ t \in Seq(S)
             /\ Len(t) = Len(s) + 1
             /\ \A j \in 1..Len(t) :
                  t[j] = IF j < i THEN s[j] ELSE IF j = i THEN e ELSE s[j - 1]
<1> DEFINE a == SubSeq(s, 1, i - 1)
           b == SubSeq(s, i, Len(s))
<1>1. a \in Seq(S) /\ Len(a) = i - 1 /\ \A j \in 1..(i - 1) : a[j] = s[j]
  BY SubSeqProperties
<1>2. /\ b \in Seq(S) /\ Len(b) = Len(s) - i + 1
      /\ \A j \in 1..(Len(s) - i + 1) : b[j] = s[i + j - 1]
  BY SubSeqProperties
<1>3. <<e>> \in Seq(S) /\ Len(<<e>>) = 1 /\ <<e>>[1] = e
  OBVIOUS
<1> HIDE DEF a, b
<1> DEFINE c == a \o <<e>>
<1>4. c \in Seq(S) /\ Len(c) = i /\ \A j \in 1..i : c[j] = IF j < i THEN s[j] ELSE e
  BY <1>1, <1>3, ConcatProperties
<1> HIDE DEF c
<1>5. /\ c \o b \in Seq(S) /\ Len(c \o b) = Len(s) + 1
      /\ \A j \in 1..(Len(s) + 1) : (c \o b)[j] = IF j <= i THEN c[j] ELSE b[j - i]
  BY <1>2, <1>4, ConcatProperties
<1>6. \A j \in 1..(Len(s) + 1) :
        (c \o b)[j] = IF j < i THEN s[j] ELSE IF j = i THEN e ELSE s[j - 1]
  BY <1>2, <1>4, <1>5
<1> QED
  BY <1>5, <1>6 DEF InsertAt, a, b, c

\* ... and in one with an element removed.
LEMMA RemoveAtElements ==
  ASSUME NEW S, NEW s \in Seq(S), NEW i \in 1..Len(s)
  PROVE  LET t == RemoveAt(s, i)
         IN  /\ t \in Seq(S)
             /\ Len(t) = Len(s) - 1
             /\ \A j \in 1..Len(t) : t[j] = IF j < i THEN s[j] ELSE s[j + 1]
<1> DEFINE a == SubSeq(s, 1, i - 1)
           b == SubSeq(s, i + 1, Len(s))
<1>1. a \in Seq(S) /\ Len(a) = i - 1 /\ \A j \in 1..(i - 1) : a[j] = s[j]
  BY SubSeqProperties
<1>2. /\ b \in Seq(S) /\ Len(b) = Len(s) - i
      /\ \A j \in 1..(Len(s) - i) : b[j] = s[i + j]
  BY SubSeqProperties
<1> HIDE DEF a, b
<1>3. /\ a \o b \in Seq(S) /\ Len(a \o b) = Len(s) - 1
      /\ \A j \in 1..(Len(s) - 1) : (a \o b)[j] = IF j < i THEN a[j] ELSE b[j - (i - 1)]
  <2>1. /\ a \o b \in Seq(S) /\ Len(a \o b) = Len(a) + Len(b)
        /\ \A j \in 1..(Len(a) + Len(b)) :
             (a \o b)[j] = IF j <= Len(a) THEN a[j] ELSE b[j - Len(a)]
    BY <1>1, <1>2, ConcatProperties
  <2>2. Len(a) + Len(b) = Len(s) - 1 /\ \A j \in Int : j <= Len(a) <=> j < i
    BY <1>1, <1>2
  <2> QED
    BY <1>1, <2>1, <2>2
<1>4. ASSUME NEW j \in 1..(Len(s) - 1)
      PROVE  (a \o b)[j] = IF j < i THEN s[j] ELSE s[j + 1]
  <2>1. CASE j < i
    <3>1. j \in 1..(i - 1)
      BY <2>1
    <3> QED
      BY <1>1, <1>3, <2>1, <3>1
  <2>2. CASE ~(j < i)
    <3>1. j - (i - 1) \in 1..(Len(s) - i) /\ i + (j - (i - 1)) = j + 1
      BY <2>2
    <3>2. (a \o b)[j] = b[j - (i - 1)]
      BY <1>3, <2>2
    <3>3. b[j - (i - 1)] = s[i + (j - (i - 1))]
      BY <1>2, <3>1
    <3> QED
      BY <2>2, <3>1, <3>2, <3>3
  <2> QED
    BY <2>1, <2>2
<1> QED
  BY <1>3, <1>4 DEF RemoveAt, a, b

\* What an element more does to a sequence.
LEMMA AppendElements ==
  ASSUME NEW X, NEW s \in Seq(X), NEW x \in X
  PROVE  /\ Append(s, x) \in Seq(X)
         /\ ToSet(Append(s, x)) = ToSet(s) \cup {x}
         /\ IsInjective(s) /\ x \notin ToSet(s) => IsInjective(Append(s, x))
<1> DEFINE t == Append(s, x)
           N == Len(s)
<1>1. N \in Nat /\ DOMAIN s = 1..N
  OBVIOUS
<1>2. /\ t \in Seq(X) /\ Len(t) = N + 1 /\ DOMAIN t = 1..(N + 1)
      /\ \A i \in 1..N : t[i] = s[i]
      /\ t[N + 1] = x
  BY AppendProperties
<1> HIDE DEF t, N
<1>3. ASSUME IsInjective(s), x \notin ToSet(s)
      PROVE  IsInjective(t)
  <2>1. \A i \in 1..N : s[i] # x
    BY <1>1, <1>3 DEF ToSet
  <2>2. ASSUME NEW a \in 1..(N + 1), NEW b \in 1..(N + 1), t[a] = t[b]
        PROVE  a = b
    <3>1. CASE a \in 1..N /\ b \in 1..N
      BY <1>1, <1>2, <1>3, <2>2, <3>1 DEF IsInjective
    <3>2. CASE a = N + 1 \/ b = N + 1
      BY <1>1, <1>2, <2>1, <2>2, <3>2
    <3> QED
      BY <1>1, <3>1, <3>2
  <2> QED
    BY <1>2, <2>2 DEF IsInjective
<1>4. ToSet(t) = ToSet(s) \cup {x}
  <2>1. 1..(N + 1) = 1..N \cup {N + 1}
    BY <1>1
  <2> QED
    BY <1>1, <1>2, <2>1 DEF ToSet
<1> QED
  BY <1>2, <1>3, <1>4 DEF t

\* f holds the states of a loop that appends v[n] in the turns n of K, and in no other.
IsFilter(f, N, K, v) ==
  f = [n \in 0..N |-> IF n = 0 THEN <<>>
                      ELSE IF n \in K THEN Append(f[n - 1], v[n]) ELSE f[n - 1]]

LEMMA FilterExists ==
  ASSUME NEW N \in Nat, NEW X, NEW K, NEW v \in [1..N -> X]
  PROVE  \E f : IsFilter(f, N, K, v)
<1> DEFINE After(n, s) == IF n \in K THEN Append(s, v[n]) ELSE s
           step == [q \in (1..N) \X Seq(X) |-> After(q[1], q[2])]
<1>1. \A n \in 1..N, s \in Seq(X) : After(n, s) \in Seq(X)
  OBVIOUS
<1>2. <<>> \in Seq(X)
  OBVIOUS
<1> HIDE DEF After
<1>3. step \in [(1..N) \X Seq(X) -> Seq(X)]
  BY <1>1
<1>4. \A n \in 1..N, s \in Seq(X) : step[<<n, s>>] = After(n, s)
  OBVIOUS
<1> HIDE DEF step
<1>5. PICK f : IsLoop(f, N, Seq(X), <<>>, step)
  BY <1>2, <1>3, LoopExists
<1>6. f \in [0..N -> Seq(X)] /\ f[0] = <<>>
  BY <1>5 DEF IsLoop
<1>7. ASSUME NEW n \in 1..N
      PROVE  f[n] = After(n, f[n - 1])
  <2>1. n - 1 \in 0..N
    OBVIOUS
  <2> QED
    BY <1>4, <1>5, <1>6, <2>1 DEF IsLoop
<1>8. ASSUME NEW n \in 0..N
      PROVE  f[n] = IF n = 0 THEN <<>> ELSE After(n, f[n - 1])
  BY <1>6, <1>7
<1>9. f = [n \in 0..N |-> f[n]]
  BY <1>6
<1>10. f = [n \in 0..N |-> IF n = 0 THEN <<>> ELSE After(n, f[n - 1])]
  BY <1>8, <1>9, Zenon
<1> QED
  BY <1>10 DEF IsFilter, After

\* What those turns append, and that it is something else in each of them.
Picked(N, K, v) == {v[i] : i \in (1..N) \cap K}
Distinct(N, K, v) == \A i, j \in (1..N) \cap K : v[i] = v[j] => i = j

\* Such a loop ends with the elements of its turns, each once if no two are equal.
LEMMA FilterKeeps ==
  ASSUME NEW N \in Nat, NEW X, NEW K, NEW v \in [1..N -> X], NEW f, IsFilter(f, N, K, v)
  PROVE  /\ f[N] \in Seq(X)
         /\ ToSet(f[N]) = Picked(N, K, v)
         /\ Distinct(N, K, v) => IsInjective(f[N])
<1> DEFINE Kept(n) == {v[i] : i \in (1..n) \cap K}
           Once == \A i, j \in (1..N) \cap K : v[i] = v[j] => i = j
           Good == [n \in 0..N |->
                      {s \in Seq(X) : ToSet(s) = Kept(n) /\ (Once => IsInjective(s))}]
<1>1. f[0] \in Good[0]
  <2>1. f[0] = <<>> /\ <<>> \in Seq(X) /\ ToSet(<<>>) = {} /\ IsInjective(<<>>)
    BY DEF IsFilter, ToSet, IsInjective
  <2>2. Kept(0) = {} /\ 0 \in 0..N
    OBVIOUS
  <2> QED
    BY <2>1, <2>2
<1>2. ASSUME NEW n \in 1..N, f[n - 1] \in Good[n - 1]
      PROVE  f[n] \in Good[n]
  <2> DEFINE s == f[n - 1]
  <2>1. n - 1 \in 0..N /\ n \in 0..N /\ v[n] \in X
    OBVIOUS
  <2>2. s \in Seq(X) /\ ToSet(s) = Kept(n - 1) /\ (Once => IsInjective(s))
    BY <1>2, <2>1
  <2>3. f[n] = IF n \in K THEN Append(s, v[n]) ELSE s
    <3>1. n # 0
      OBVIOUS
    <3> QED
      BY <2>1, <3>1, Zenon DEF IsFilter
  <2>4. 1..n = 1..(n - 1) \cup {n} /\ \A i \in 1..(n - 1) : i \in 1..N /\ i # n
    OBVIOUS
  <2>5. CASE n \in K
    <3>1. Kept(n) = Kept(n - 1) \cup {v[n]}
      BY <2>4, <2>5
    <3>2. Once => v[n] \notin Kept(n - 1)
      BY <2>4, <2>5
    <3> HIDE DEF s, Kept, Once
    <3>3. f[n] \in Seq(X) /\ ToSet(f[n]) = Kept(n) /\ (Once => IsInjective(f[n]))
      BY <2>1, <2>2, <2>3, <2>5, <3>1, <3>2, AppendElements
    <3> QED
      BY <2>1, <3>3
  <2>6. CASE n \notin K
    <3>1. Kept(n) = Kept(n - 1)
      BY <2>4, <2>6
    <3> HIDE DEF Kept, Once
    <3> QED
      BY <2>1, <2>2, <2>3, <2>6, <3>1
  <2> QED
    BY <2>5, <2>6
<1>3. f[N] \in Good[N]
  <2> HIDE DEF Good
  <2>1. \A n \in 0..N : f[n] \in Good[n]
    BY <1>1, <1>2, LoopInvariant
  <2> QED
    BY <2>1
<1> QED
  BY <1>3 DEF Picked, Distinct
==============================================================================
