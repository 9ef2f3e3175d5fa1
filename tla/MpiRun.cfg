SPECIFICATION FairSpec
CONSTANTS
  N = 3
  NoKey = NoKey
  Any = Any
  Key <- MCKey
  Args <- MCArgs
  Kind <- MCKind
  EndlessSets <- MCEndlessSets
  Faulty = {0}
  ExpectedSets <- MCExpectedSets
  Backends = {"mpip2p", "mpibroadcast", "openmp"}
  Sizes = {1, 2, 3}
INVARIANTS
  TypeOK
  NoFalseStop
  SearchComplete
PROPERTIES
  Terminates
  StopSpreads
CHECK_DEADLOCK FALSE
