SPECIFICATION FairSpec
CONSTANTS
  N = 3
  NoKey = NoKey
  Key <- MCKey
  Args <- MCArgs
  Kind <- MCKind
  EndlessSets <- MCEndlessSets
  Faulty = {0}
  ExpectedSets <- MCExpectedSets
  Limit = 3
  ForkFailures = {TRUE}
INVARIANTS
  TypeOK
  NobodyEscapes
  ResultSurvives
  PrintedAccepted
  ReturnsOnlyEmptyHanded
PROPERTY
  StopSpreads
CHECK_DEADLOCK FALSE
