CONSTANTS
  minThreadNum = 1
  maxThreadNum = 1
  shrinkStep = 1
  stretchStep = 1
  fixedSize = FALSE
  TaskTypes = {y1, y2}
  Calls = {"stopTasksByType", "stop"}
  MaxTasks = 1
  MaxCalls = 2
CHECK_DEADLOCK FALSE
SPECIFICATION Spec
INVARIANTS DestructorWaits
