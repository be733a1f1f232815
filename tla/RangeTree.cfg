\* The balanced or the plain tree of the range index under any sequence of insertions, deletions and restarts.
SPECIFICATION TreeSpec
CONSTANTS
  Keys <- MCKeys
  Offsets <- MCOffsets
  Above <- MCAbove
  Below <- MCBelow
  MinKey <- MCMinKey
  MaxKey = 7
  Infinity = 8
  Pairs <- MCPairs
  PlainPairs <- MCPlainPairs
  Repeatable <- MCRepeatable
PROPERTIES
  IsMultimap
  IsBag
INVARIANTS
  Balanced
  Ordered
  RangesExact
  SameAnswers
