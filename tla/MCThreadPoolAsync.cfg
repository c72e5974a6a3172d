CONSTANTS
  t1 = t1  t2 = t2  w1 = w1  w2 = w2  w3 = w3  w4 = w4
  None = None
  Task <- MCTask
  Worker <- MCWorker
  VoidTask <- MCVoid
  Pred <- MCPred
  Modes <- MCModes
  HardwareConcurrency = 2
  MinChoices = {}
  MaxChoices = {3}
  Decisions <- MCDecisions
  Strategy <- DefaultStrategy
  IntLimit = 128
SPECIFICATION Spec
INVARIANTS
  TypeOK PopsNonEmpty DelIdsJoinable RunCntExact WithinMax NoWorkerOutlivesPool
SYMMETRY MCSymmetry
CHECK_DEADLOCK FALSE
