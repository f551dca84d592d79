\* Two executors, two changes of the source, one fault of any kind at any moment.
SPECIFICATION Spec
CONSTANTS
  e1 = e1  e2 = e2
  v1 = v1  v2 = v2  v3 = v3  v4 = v4
  Other = Other  None = None
  Executors <- MCExecutors
  Versions = {v1, v2, v3, v4}
  First = v1
  Broken = {v4}
  Unfit <- MCUnfit
  Keep = 2
  MaxChanges = 2
  MaxFaults = 1
INVARIANTS
  TypeOK
  LinkResolves
  AllOrNothing
  EligibleHonest
PROPERTIES
  Converges
