SPECIFICATION Spec
CONSTANTS
  Task = {1, 2}
  Worker = {1}
  Thread = {1, 2}
  WorkerOf <- OneProcess
  Retention = 0
  PruneInterval = 1
  Limit = 0
  MayClear = FALSE
  MaxTime = 3
INVARIANT IncrementalComplete
CHECK_DEADLOCK FALSE
