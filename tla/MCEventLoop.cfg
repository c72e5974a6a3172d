CONSTANTS
  c1 = c1  c2 = c2  w1 = w1  w2 = w2
  Loop = Loop  Nop = Nop  None = None
  Coroutine <- MCCoroutine
  Worker <- MCTwoWorkers
  Entry <- MCEntry
  LoopMoves <- Moves
  WorkerMoves <- MCOnWorker
  Durations = {1}
  SqSize = 1
  MaxAwaits = 2
  MaxTime = 1
SYMMETRY MCSymmetry
SPECIFICATION Spec
INVARIANTS
  OneSource PendingExact ThreadTasksExact
PROPERTIES
  ReturnsIdle
CHECK_DEADLOCK FALSE
