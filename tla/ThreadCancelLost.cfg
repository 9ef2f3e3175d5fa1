SPECIFICATION Spec
CONSTANTS
  N = 3
  NoKey = NoKey
  Key <- MCKey
  Args <- MCArgs
  Kind <- MCKind
  EndlessSets <- MCNoEndless
  Faulty = {3}
  ExpectedSets <- MCExpectedSets
  Limit = 3
INVARIANT
  ResultPrinted
CHECK_DEADLOCK FALSE
