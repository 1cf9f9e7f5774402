CONSTANTS
  Assets = {a1, a2}
  MaxVersion = 2
  maxConcurrentTask = 1
  Cancels = FALSE
  Rechecks = FALSE
  EarlyRetries = TRUE
  Crashes = FALSE
SPECIFICATION Spec
CHECK_DEADLOCK FALSE
INVARIANTS FilesMatchManifest
