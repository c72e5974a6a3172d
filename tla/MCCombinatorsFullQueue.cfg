CONSTANTS
  p1 = p1  p2 = p2
  None = None
  Parent <- MCParent
  MaxCalls = 1
  Kinds <- MCKinds
  Width = 3
  Ways <- MCWays
  AnyWays <- MCWays
  SqSize = 4
SPECIFICATION Spec
INVARIANT TimeoutMeansElapsed
CHECK_DEADLOCK FALSE
