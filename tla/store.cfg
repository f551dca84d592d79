\* Two coordinators and a job of two tasks; one cancel request and one fault, at any moment.
SPECIFICATION Spec
CONSTANTS
  c1 = c1  c2 = c2
  j1 = j1
  None = None
  Coordinators <- MCCoordinators
  Jobs <- MCJobs
  NTasks = 2
  MaxCancels = 1
  MaxFaults = 1
INVARIANTS
  TypeOK
  EndedMeansOver
PROPERTIES
  FinalKept
  NoRegress
  Settles
  KeepsPromise
