SPECIFICATION SplitSpec
CONSTANTS
  Modulus = 16
  Requests <- MCRequests
INVARIANTS
  SplitTypeOK
  NoKeyMissed
  SharedOnlyAtBoundary
  EagerAgrees
CHECK_DEADLOCK FALSE
