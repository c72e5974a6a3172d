CONSTANTS
  c1 = c1  c2 = c2  w1 = w1  w2 = w2
  Loop = Loop  Nop = Nop  None = None
  Coroutine <- MCCoroutine
  Worker <- MCWorker
  Entry <- MCTrySync
  LoopMoves <- MCFuture
  WorkerMoves <- MCFuture
  Durations = {1}
  SqSize = 2
  MaxAwaits = 1
  MaxTime = 1
SPECIFICATION Spec
INVARIANTS ResumesStored
CHECK_DEADLOCK FALSE
