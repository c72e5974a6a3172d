CONSTANTS
  t1 = t1  t2 = t2  t3 = t3  w1 = w1  w2 = w2
  None = None
  Task <- MCTask
  Worker <- MCWorker
  VoidTask <- MCVoid
  Pred <- MCPred
  Modes <- MCModes
  HardwareConcurrency = 2
  MinChoices = {2}
  MaxChoices = {}
  Decisions = {0}
  Strategy <- MCNoStrategy
SPECIFICATION FairSpec
INVARIANTS
  StartedInOrder NoChainDeadlock
PROPERTIES
  ExecutorSpec StartedFinish AwakeProgress
CHECK_DEADLOCK FALSE
