\* JobAdmission where an update of _inflight is not interrupted (CPython 3.11).
SPECIFICATION Spec
CONSTANTS
  r1 = r1  r2 = r2  r3 = r3  r4 = r4
  k1 = k1  b1 = b1  b2 = b2
  NoKey = NoKey  NoOne = NoOne
  Requests <- MCRequests4
  Key <- MCKey
  Body <- MCOneBody
  Limits = {0, 1}
  MaxPending = 2
  Preemptible = FALSE
  MaxSwitches = 1
INVARIANTS
  InflightExact
  CapacityBound
PROPERTIES
  AcceptedFinishes
