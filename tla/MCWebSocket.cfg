CONSTANTS
  None = None
  Foreign <- MCForeign
  Broadcasting <- MCBroadcasting
  MaxTexts = 2
  MaxPings = 1
SPECIFICATION Spec
INVARIANTS
  DataInOrder ClosedMeansRead ThrowsOnlyBeforePong
CHECK_DEADLOCK FALSE
