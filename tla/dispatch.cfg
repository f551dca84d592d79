\* The protocol without file synchronisation: one crash, one client's cancel, and an
\* operator's cancels.
SPECIFICATION Spec
CONSTANTS
  e1 = e1  e2 = e2
  NoOne = NoOne
  Executors <- MCExecutors
  Retries = 1
  SyncOn = FALSE
  MaxVersion = 0
  MaxCrashes = 1
  DirectCancel = TRUE
INVARIANTS
  TypeOK
  OneOwner
  HonestFailure
  OneRunPerProcess
  DoneIsLoaded
PROPERTIES
  KeepsPromise
