\* A record cut by a crash, and later an index.json cut by another.
SPECIFICATION Spec
CHECK_DEADLOCK FALSE
CONSTANTS
  Ids <- MCIds
  Fields <- MCFields
  Vals <- PlainVals
  Prints <- PlainVals
  Reload <- PlainReload
  Printed <- PlainPrinted
  NumericVals <- PlainNumericVals
  Num <- PlainNum
  Unencodable = {}
  Unsaveable = {}
  Faults = {"crashAppend", "crashSave"}
  MaxLog = 3
  MaxReads = 0
INVARIANTS
  AckedWritesServed
