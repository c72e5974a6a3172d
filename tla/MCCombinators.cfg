CONSTANTS
  p1 = p1  p2 = p2
  None = None
  Parent <- MCParent
  MaxCalls = 1
  Kinds <- MCKinds
  Width = 2
  Ways <- MCWays
  AnyWays <- MCWays
  SqSize = 8
SPECIFICATION FairSpec
INVARIANTS
  NoDangling ResultsExact TimeoutMeansElapsed
PROPERTIES
  CallReturns
CHECK_DEADLOCK FALSE
