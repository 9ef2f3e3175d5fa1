SPECIFICATION FairSpec
CONSTANTS
  N = 3
  NoKey = NoKey
  Any = Any
  Key <- MCKey
  Args <- MCArgs
  Kind <- MCKind
  EndlessSets <- MCEndlessSets
  Faulty = {0}
  ExpectedSets <- MCExpectedSets
  Backends = {"mpibroadcast"}
  Sizes = {2}
PROPERTY ResultPrinted
CHECK_DEADLOCK FALSE
