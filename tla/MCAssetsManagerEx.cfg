CONSTANTS
  Assets = {a1, a2}
  MaxVersion = 3
  maxConcurrentTask = 1
  Cancels = TRUE
  Rechecks = TRUE
  EarlyRetries = TRUE
  Crashes = TRUE
SPECIFICATION FairSpec
CHECK_DEADLOCK FALSE
INVARIANTS UpdateAtomic ResumeSound UnitsInv
PROPERTIES UpdateReturns
