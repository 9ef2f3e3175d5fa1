SPECIFICATION FairSpec
CONSTANTS
  N = 3
  NoKey = NoKey
  Key <- MCKey
  Args <- MCArgs
  Kind <- MCKind
  EndlessSets <- MCEndlessSets
  Faulty = {0}
  ExpectedSets <- MCExpectedSets
  Limit = 3
  MsgLen = 2
  PtrSize = 2
INVARIANTS
  TypeOK
  NoFalseStop
  SearchComplete
PROPERTY
  KeepsContract
  StopSpreads
CHECK_DEADLOCK FALSE
