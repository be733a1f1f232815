\* An Append that fails in a process that lives on.
SPECIFICATION Spec
CHECK_DEADLOCK FALSE
CONSTANTS
  Ids <- MCIds
  Fields <- MCFields
  Vals <- PlainVals
  Prints <- PlainVals
  Reload <- PlainReload
  Printed <- PlainPrinted
  NumericVals <- PlainNumericVals
  Num <- PlainNum
  Unencodable = {}
  Unsaveable = {}
  Faults = {"appendError"}
  MaxLog = 3
  MaxReads = 0
INVARIANTS
  OwnDocument
