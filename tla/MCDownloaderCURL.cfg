CONSTANTS
  Paths = {p1, p2}
  countOfMaxProcessingTasks = 1
  Destroys = TRUE
  MaxTasks = 3
SPECIFICATION FairSpec
CHECK_DEADLOCK FALSE
INVARIANTS TasksAccounted PausedAtRest OneWriter
PROPERTIES FinishedDelivered
