CONSTANTS
  RunNums = 65536
  t1 = t1  t2 = t2  k1 = k1  k2 = k2
  Owner = Owner  AsyncStop = AsyncStop  NoThread = NoThread
  Thread <- MCThread
  Client <- MCClient
  Resolves = {FALSE, TRUE}
SPECIFICATION ServerSpec
INVARIANT RunNumExact
CHECK_DEADLOCK FALSE
