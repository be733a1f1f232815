\* The file system returns errors and the process lives on, or dies at any point.
SPECIFICATION MCErrors
CHECK_DEADLOCK FALSE
CONSTANTS
  Ids <- MCIds
  Fields <- MCFields
  Vals <- OddVals
  Prints <- OddVals
  Reload <- OddReload
  Printed <- OddReload
  NumericVals <- OddNumericVals
  Num <- OddNum
  Unencodable = {"chan"}
  Unsaveable = {99}
  Faults = {"crashAppend", "crashLogged", "crashSave", "appendError", "saveError", "removeIndex"}
  MaxLog = 3
  MaxReads = 0
PROPERTIES
  AnswersChangeByOwnWrite
