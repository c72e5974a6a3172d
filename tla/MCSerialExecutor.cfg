CONSTANTS
  c1 = c1  c2 = c2  c3 = c3
  None = None
  Caller <- MCCaller
  MaxCalls <- MCMaxCalls
  MaxClears = 1
  MayThrow = TRUE
SPECIFICATION FairSpec
INVARIANTS
  OneAtATime InOrder
PROPERTIES
  SerialReturns
