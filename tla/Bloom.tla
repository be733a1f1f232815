-------------------------------- MODULE Bloom --------------------------------
(***************************************************************************)
(* engine/bloom.go: K bits out of M for every id, placed by two hashes in  *)
(* unsigned arithmetic that wraps.  The words of the filter are the set of *)
(* the numbers of the bits that are 1; nothing makes one 0 again.  M and K *)
(* are what the sizing formulas give.                                      *)
(***************************************************************************)
EXTENDS Integers

CONSTANTS
  H1, H2, \* the two hashes of an id, before the second is made odd
  Wrap,   \* 2^64 in the code
  M,
  K

Odd(h) == IF h % 2 = 0 THEN h + 1 ELSE h

\* bloomHashes and the i-th bit of the loops of Add and MayContain.
BitOf(id, i) == ((H1[id] + i * Odd(H2[id])) % Wrap) % M

BitsAdded(bloom, id) == bloom \cup {BitOf(id, i) : i \in 0..(K - 1)}

\* (A mutant of MayContain: the loop looks at one bit more than Add has set.)
MayContainShifted(bloom, id) == \A i \in 1..K : BitOf(id, i) \in bloom

MayContain(bloom, id) == \A i \in 0..(K - 1) : BitOf(id, i) \in bloom
==============================================================================
