CONSTANTS
  None = None
  Ops <- MCOps
  MayFail <- MCMayFail
  AutoReconnect = TRUE
  MaxCalls = 4
  MaxFd = 3
SPECIFICATION Spec
INVARIANTS
  OwnAnswer NothingForeign ResentOnlyAfterFailure
CHECK_DEADLOCK FALSE
