\* What the retry handler relies on, without crashes.
SPECIFICATION Spec
CONSTANTS
  e1 = e1  e2 = e2
  NoOne = NoOne
  Executors <- MCExecutors
  Retries = 1
  SyncOn = FALSE
  MaxVersion = 0
  MaxCrashes = 0
  DirectCancel = FALSE
INVARIANTS
  FailedNotLoaded
