CONSTANTS
  minThreadNum = 1
  maxThreadNum = 2
  shrinkStep = 2
  stretchStep = 2
  fixedSize = FALSE
  TaskTypes = {y1, y2}
  Calls = {"tryShrinkPool", "stopTasksByType", "stopAllTasks", "stop"}
  MaxTasks = 2
  MaxCalls = 2
CHECK_DEADLOCK FALSE
SPECIFICATION FairSpec
INVARIANTS PoolAccount StopDrains
PROPERTIES TaskRuns PoolCallReturns
