\* The counter of JobAdmission under CPython 3.9, against what its comments promise.
SPECIFICATION Spec
CONSTANTS
  r1 = r1  r2 = r2  r3 = r3  r4 = r4
  k1 = k1  b1 = b1  b2 = b2
  NoKey = NoKey  NoOne = NoOne
  Requests <- MCRequests3
  Key <- MCNoKeys
  Body <- MCOneBody
  Limits = {1}
  MaxPending = 1
  Preemptible = TRUE
  MaxSwitches = 0
INVARIANTS
  NothingLeaks
