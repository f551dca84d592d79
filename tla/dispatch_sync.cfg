\* File synchronisation on: a POST is repeated while the first one waits for the version.
SPECIFICATION Spec
CONSTANTS
  e1 = e1  e2 = e2
  NoOne = NoOne
  Executors <- MCExecutors
  Retries = 1
  SyncOn = TRUE
  MaxVersion = 0
  MaxCrashes = 0
  DirectCancel = FALSE
INVARIANTS
  OneRunPerProcess
