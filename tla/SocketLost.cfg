SPECIFICATION Spec
CONSTANTS
  N = 2
  NoKey = NoKey
  Key <- MCKey
  Args <- MCArgs
  Kind <- MCKind
  EndlessSets <- MCEndlessSets
  Faulty = {}
  ExpectedSets <- MCExpectedSets
  Limit = 2
CHECK_DEADLOCK FALSE
INVARIANT
  AnnouncementArrives
