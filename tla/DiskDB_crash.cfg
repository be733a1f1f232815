\* The process dies anywhere, and index.json may be removed, but not both is the log
\* torn and index.json cut or gone.
SPECIFICATION MCSpec
CONSTANTS
  Ids <- MCIds
  Fields <- MCFields
  Vals <- PlainVals
  Prints <- PlainVals
  Reload <- PlainReload
  Printed <- PlainPrinted
  NumericVals <- PlainNumericVals
  Num <- PlainNum
  Unencodable = {}
  Unsaveable = {}
  Faults = {"crashAppend", "crashLogged", "crashSave", "removeIndex"}
  MaxLog = 3
  MaxReads = 1
PROPERTIES
  KeepsPromise
INVARIANTS
  TypeOK
  AckedWritesServed
  IndexesExact
  OwnDocument
  Openable
