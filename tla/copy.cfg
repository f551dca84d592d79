\* Two tasks, one connection, a queue of two places, and up to three batches and the end mark.
SPECIFICATION Spec
CONSTANTS
  t1 = t1  t2 = t2
  Tasks <- MCTasks
  PoolMax = 1
  QueueSize = 2
  MaxBatches = 3
INVARIANTS
  TypeOK
  AllOrNothing
  ReaderGone
  ConnectionBound
  SlotsExact
  NobodyStuck
PROPERTIES
  KeepsPromise
  Ends
