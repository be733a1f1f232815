\* Three goroutines and one id: every order of the steps of their calls.
SPECIFICATION FairSpec
CONSTANTS
  Procs = {p1, p2, p3}
  Ids = {i1}
  Vals <- MCVals
  Merge <- MCMerge
  NoVal = NoVal
  NoProc = NoProc
INVARIANTS
  TypeOK
  Exclusive
  IndexesAgree
PROPERTIES
  Linearizable
  EveryCallReturns
