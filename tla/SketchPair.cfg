\* The two sketches under any sequence of calls.
SPECIFICATION Spec
CONSTANTS
  Terms <- MCTerms
  Rows = {1, 2}
  Columns = {1, 2}
  Column <- MCColumn
  Modulus = 8
  Amounts = {1, 3}
  MaxCount = 5
  Values <- MCValues
  Hash <- MCHash
  HashBits = 6
  P = 1
  Sketches = {"left", "right"}
INVARIANTS
  NeverUndercounts
  RegistersOfUnion
