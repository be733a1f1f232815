----------------------------- MODULE HyperLogLog -----------------------------
(***************************************************************************)
(* engine/hll.go: registers that keep the largest rank seen among the      *)
(* values the first bits of whose hash select them.  The hash of a value   *)
(* is a constant of HashBits bits, 64 in the code.  The estimate made of   *)
(* the registers is a floating-point formula and not modelled.             *)
(***************************************************************************)
EXTENDS Integers, FiniteSetsExt

CONSTANTS
  Values,
  Hash,     \* hllHash of a value
  HashBits,
  P,        \* hllP: the bits that select a register
  Sketches  \* the sketches there are, one per shard

\* 1 << n
Pow2(n) == LET p[k \in 0..n] == IF k = 0 THEN 1 ELSE 2 * p[k - 1] IN p[n]

ASSUME HllAssumption ==
  /\ P \in Nat /\ HashBits \in Nat /\ P < HashBits
  /\ Hash \in [Values -> 0..(Pow2(HashBits) - 1)]

VARIABLES
  regs, \* HyperLogLog.regs of each sketch
  seen  \* the values each sketch stands for: added to it or merged into it

hllVars == <<regs, seen>>

Registers == 0..(Pow2(P) - 1)

HllInit ==
  /\ regs = [s \in Sketches |-> [r \in Registers |-> 0]]
  /\ seen = [s \in Sketches |-> {}]

\* bits.LeadingZeros64
LeadingZeros(x) == Min({HashBits} \cup {z \in 0..(HashBits - 1) : x >= Pow2(HashBits - z - 1)})

Register(hash) == hash \div Pow2(HashBits - P)

\* (A mutant of Rank: no bit is set where the hash ends.)
RankOpen(hash) == LeadingZeros((hash * Pow2(P)) % Pow2(HashBits)) + 1

\* The bits behind those of the register, shifted to the front, with ones behind.
Rank(hash) == LeadingZeros(((hash * Pow2(P)) % Pow2(HashBits)) + (Pow2(P) - 1)) + 1

Add(s, value) ==
  LET reg == Register(Hash[value])
      rank == Rank(Hash[value])
  IN  /\ regs' = IF rank > regs[s][reg] THEN [regs EXCEPT ![s][reg] = rank] ELSE regs
      /\ seen' = [seen EXCEPT ![s] = @ \cup {value}]

\* (A mutant of Merge: the registers of the other sketch are taken over.)
MergeCopying(s, other) ==
  /\ regs' = [regs EXCEPT ![s] = regs[other]]
  /\ seen' = [seen EXCEPT ![s] = @ \cup seen[other]]

Merge(s, other) ==
  /\ regs' = [regs EXCEPT ![s] =
                [r \in Registers |-> IF regs[other][r] > @[r] THEN regs[other][r] ELSE @[r]]]
  /\ seen' = [seen EXCEPT ![s] = @ \cup seen[other]]

ResetRegisters(s) ==
  /\ regs' = [regs EXCEPT ![s] = [r \in Registers |-> 0]]
  /\ seen' = [seen EXCEPT ![s] = {}]

HllNext ==
  \E s \in Sketches :
    \/ \E value \in Values : Add(s, value)
    \/ \E other \in Sketches : Merge(s, other)
    \/ ResetRegisters(s)

------------------------------------------------------------------------------
(* Properties *)

\* The place of the first 1 among the bits that do not select the register.
FirstOne(hash) ==
  Min({HashBits - P + 1}
      \cup {i \in 1..(HashBits - P) : (hash \div Pow2(HashBits - P - i)) % 2 = 1})

\* A sketch is a function of the set of values it stands for: each register holds
\* the largest rank among those that select it, whatever their order, however often
\* each was added, here or in a sketch that was merged into this one, and however
\* the merges were nested; a hash of zeros only stays within the bits there are.
RegistersOfUnion ==
  \A s \in Sketches, r \in Registers :
    regs[s][r] = Max({0} \cup {FirstOne(Hash[v]) :
                                 v \in {w \in seen[s] : Register(Hash[w]) = r}})
==============================================================================
