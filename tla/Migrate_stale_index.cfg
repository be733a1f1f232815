\* A log of the old format that the present program has been opened on before it
\* is migrated: the index.json it left then is believed after.
SPECIFICATION Spec
CONSTANTS
  Ids <- MCIds
  Vals = {a, b}
  NoVal = NoVal
  Migratable = {"old"}
  MaxLog = 2
  MaxOutput = 2
SYMMETRY Symmetry
INVARIANTS
  MigrationIntact
