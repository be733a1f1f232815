--------------------------- MODULE CountMinSketch ---------------------------
(***************************************************************************)
(* engine/cms.go: rows of counters, of which every row counts every key in *)
(* the column that the row's hash gives it.  Counters are unsigned and     *)
(* wrap.  The columns are a constant, so that keys may share them.         *)
(***************************************************************************)
EXTENDS Integers, FiniteSets, FiniteSetsExt

CONSTANTS
  Terms,     \* the keys that are counted
  Rows,
  Columns,
  Column,    \* cmsHash(key, row) % width, by row and key
  Modulus,   \* 2^64 in the code
  Amounts,   \* what AddN may add
  MaxCount   \* bound on the count of one key

ASSUME CmsAssumption ==
  /\ IsFiniteSet(Terms)
  /\ Rows # {} /\ Column \in [Rows -> [Terms -> Columns]]
  /\ Modulus \in Nat \ {0} /\ Amounts \subseteq Nat

VARIABLES
  counters, \* CountMinSketch.counters
  counts    \* how often each key was counted since the last Reset

cmsVars == <<counters, counts>>

CmsInit ==
  /\ counters = [row \in Rows |-> [col \in Columns |-> 0]]
  /\ counts = [key \in Terms |-> 0]

\* Add is the same with n = 1.  Bounded by MaxCount.
AddN(key, n) ==
  /\ counts[key] + n <= MaxCount
  /\ counters' = [row \in Rows |->
                    [counters[row] EXCEPT ![Column[row][key]] = (@ + n) % Modulus]]
  /\ counts' = [counts EXCEPT ![key] = @ + n]

ResetCounters ==
  /\ counters' = [row \in Rows |-> [col \in Columns |-> 0]]
  /\ counts' = [key \in Terms |-> 0]

\* (A mutant of Estimate: the largest of the counters.)
EstimateLargest(key) == Max({counters[row][Column[row][key]] : row \in Rows})

Estimate(key) == Min({Modulus - 1} \cup {counters[row][Column[row][key]] : row \in Rows})

CmsNext ==
  \/ \E key \in Terms, n \in Amounts : AddN(key, n)
  \/ ResetCounters

------------------------------------------------------------------------------
(* Properties *)

\* What is counted in the column that key has in this row.
SharedCount(row, key) ==
  MapThenSumSet(LAMBDA k : counts[k], {k \in Terms : Column[row][k] = Column[row][key]})

\* "It never underestimates", for as long as no counter of the key has wrapped, and
\* it is exact when some row keeps the key apart from every other that was counted:
\* the smallest of the counters has the fewest strangers in it.  Past 2^64, which
\* AddN reaches in two calls, a counter starts again at 0 and the promise ends.
NeverUndercounts ==
  \A key \in Terms :
    (\A row \in Rows : SharedCount(row, key) < Modulus) =>
      /\ Estimate(key) >= counts[key]
      /\ (\E row \in Rows : SharedCount(row, key) = counts[key]) =>
           Estimate(key) = counts[key]
==============================================================================
