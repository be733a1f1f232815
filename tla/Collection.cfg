\* The index structures and Find under any sequence of writes and restarts.
SPECIFICATION MCSpec
CONSTANTS
  Ids <- MCIds
  Fields <- MCFields
  Vals <- MCVals
  Prints <- MCPrints
  Reload <- MCReload
  Printed <- MCPrinted
  NumericVals <- MCNumericVals
  Num <- MCNum
  Unencodable = {}
  Places = {0, 1}
  Offsets <- MCOffsets
  Keys <- MCKeys
  Above <- MCAbove
  Below <- MCBelow
  MinKey <- MCMinKey
  MaxKey = 3
  H1 <- MCH1
  H2 <- MCH2
  Wrap = 16
  M = 5
  K = 2
  Number <- MCNumber
  NoOffset = NoOffset
INVARIANTS
  TypeOK
  LookupsExact
  ListsRepresent
  TreesRepresent
  FindAnswersScan
  BestFirst
  ShellFinds
