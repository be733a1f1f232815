\* Logs of the old format, the tool stopping anywhere and run again, and the
\* database opened before and after.
SPECIFICATION Spec
CONSTANTS
  Ids <- MCIds
  Vals = {a, b}
  NoVal = NoVal
  Migratable = {"old"}
  MaxLog = 3
  MaxOutput = 4
SYMMETRY Symmetry
INVARIANTS
  TypeOK
  OutputComplete
  Served
PROPERTIES
  KeepsDocuments
