CONSTANTS
  Assets = {a1, a2}
  MaxVersion = 2
  maxConcurrentTask = 1
  Cancels = FALSE
  Rechecks = FALSE
  EarlyRetries = FALSE
  Crashes = FALSE
SPECIFICATION FairSpec
CHECK_DEADLOCK FALSE
PROPERTIES CheckLetsUpdate
