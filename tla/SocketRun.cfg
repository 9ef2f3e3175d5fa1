SPECIFICATION FairSpec
CONSTANTS
  N = 2
  NoKey = NoKey
  Key <- MCKey
  Args <- MCArgs
  Kind <- MCKind
  EndlessSets <- MCEndlessSets
  Faulty = {}
  ExpectedSets <- MCExpectedSets
  Limit = 2
CHECK_DEADLOCK FALSE
INVARIANTS
  TypeOK
  NoFalseStop
  AnswerUnderWay
  NeverDeaf
  ServerHoldsOut
  SearchComplete
PROPERTY
  Terminates
