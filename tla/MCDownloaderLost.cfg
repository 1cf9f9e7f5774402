CONSTANTS
  Paths = {p1}
  countOfMaxProcessingTasks = 1
  Destroys = FALSE
  MaxTasks = 1
SPECIFICATION FairSpec
CHECK_DEADLOCK FALSE
PROPERTIES TaskFinishes
