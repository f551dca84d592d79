\* The promise that a final status never changes; the bounds of store.cfg.
SPECIFICATION Spec
CONSTANTS
  c1 = c1  c2 = c2
  j1 = j1
  None = None
  Coordinators <- MCCoordinators
  Jobs <- MCJobs
  NTasks = 2
  MaxCancels = 1
  MaxFaults = 1
PROPERTIES
  FinalStays
