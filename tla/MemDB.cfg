\* The in-memory mode: a table of four slots that is doubled by the third entry.
SPECIFICATION Spec
CONSTANTS
  Ids <- MCIds
  Fields <- MCFields
  Vals <- MCVals
  Prints <- MCVals
  Reload <- MCReload
  Printed <- MCReload
  NumericVals = {}
  Num <- MCNum
  Unencodable = {}
  InitialCapacity = 4
  NoKey = NoKey
  NoValue = NoValue
  Hashes <- MCHashes
PROPERTIES
  IsDictionary
INVARIANTS
  TypeOK
  RobinHood
  EveryEntryFound
  Room
