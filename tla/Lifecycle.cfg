SPECIFICATION LifeSpec
CONSTANTS
  r1 = r1
  r2 = r2
  c1 = c1
  c2 = c2
  m1 = m1
  Runner <- MCRunner
  Simple <- MCSimple
  Multiple <- MCMultiple
  Null = Null
  MaxRuns = 2
  GivenOnce = TRUE
SYMMETRY Symmetry
INVARIANTS
  LifeTypeOK
  CounterExact
  HandlersReady
  FreedOnce
  HangsForCause
PROPERTY
  FreshStart
CHECK_DEADLOCK FALSE
