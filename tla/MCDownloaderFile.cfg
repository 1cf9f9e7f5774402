CONSTANTS
  Paths = {p1}
  countOfMaxProcessingTasks = 1
  Destroys = FALSE
  MaxTasks = 3
SPECIFICATION Spec
CHECK_DEADLOCK FALSE
INVARIANTS OneTaskPerFile
