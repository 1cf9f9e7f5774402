CONSTANTS
  Assets = {a1, a2}
  MaxVersion = 2
  maxConcurrentTask = 1
  Cancels = TRUE
  Rechecks = FALSE
  EarlyRetries = FALSE
  Crashes = FALSE
SPECIFICATION Spec
CHECK_DEADLOCK FALSE
INVARIANTS FilesMatchManifest
