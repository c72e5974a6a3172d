CONSTANTS
  c1 = c1  c2 = c2  w1 = w1  w2 = w2
  Loop = Loop  Nop = Nop  None = None
  Coroutine <- MCCoroutine
  Worker <- MCWorker
  Entry <- MCStart
  LoopMoves <- MCNoFuture
  WorkerMoves <- MCEnd
  Durations = {1}
  SqSize = 2
  MaxAwaits = 2
  MaxTime = 1
SPECIFICATION Spec
PROPERTIES RunLeavesNoTimer
CHECK_DEADLOCK FALSE
