\* JobAdmission as the deployment baseline runs it: CPython 3.9, updates of _inflight
\* interruptible.  What must hold all the same.
SPECIFICATION Spec
CONSTANTS
  r1 = r1  r2 = r2  r3 = r3  r4 = r4
  k1 = k1  b1 = b1  b2 = b2
  NoKey = NoKey  NoOne = NoOne
  Requests <- MCRequests3
  Key <- MCKey
  Body <- MCTwoBodies
  Limits = {0, 1, 2}
  MaxPending = 1
  Preemptible = TRUE
  MaxSwitches = 2
INVARIANTS
  TypeOK
  SwitchAlone
  NoneStranded
PROPERTIES
  KeepsPromise
