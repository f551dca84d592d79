\* A page of two history rows, two loads at a time, three inputs, one failed request or change of the rows.
SPECIFICATION Spec
CONSTANTS
  all = all  some = some
  q1 = q1  q2 = q2
  None = None
  Filters = {all, some}
  Unfiltered = all
  InitialRows <- MCInitialRows
  HIST_LIMIT = 2
  Queries = {q1, q2}
  DocLinks = {"/docs"}
  OpsLinks = {"/metrics/prometheus", "/health"}
  Prometheus = "/metrics/prometheus"
  Phases <- MCPhases
  MaxCalls = 2
  MaxClicks = 3
  MaxFaults = 1
INVARIANTS
  TypeOK
  PagerOfItsAnswer
  BarsCompare
PROPERTIES
  HistSettles
  LabelReturns
