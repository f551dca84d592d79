\* File synchronisation on, one executor, a switch of the version and a crash:
\* everything comes to its end.
SPECIFICATION Spec
CONSTANTS
  e1 = e1  e2 = e2
  NoOne = NoOne
  Executors = {e1}
  Retries = 1
  SyncOn = TRUE
  MaxVersion = 1
  MaxCrashes = 1
  DirectCancel = FALSE
PROPERTIES
  Settles
  CancelWins
  SettledOnce
