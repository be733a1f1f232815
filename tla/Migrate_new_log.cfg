\* The log is one that the present program has written, as in the acceptance test
\* of the tool (src/cmd/seed/fase-7/README.md, AT-04).
SPECIFICATION Spec
CONSTANTS
  Ids <- MCIds
  Vals = {a, b}
  NoVal = NoVal
  Migratable = {"new"}
  MaxLog = 2
  MaxOutput = 2
SYMMETRY Symmetry
INVARIANTS
  OutputComplete
