SPECIFICATION Spec
CONSTANTS
  Task = {1, 2, 3, 4}
  Worker = {1}
  Thread = {1}
  WorkerOf <- OneProcess
  Retention = 1
  PruneInterval = 2
  Limit = 0
  MayClear = TRUE
  MaxTime = 5
INVARIANT IncrementalComplete
INVARIANT RetentionBound
CHECK_DEADLOCK FALSE
