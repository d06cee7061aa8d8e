SPECIFICATION FairSpec
CONSTANTS
  Limited = TRUE
  MaxSize = 3
  ClearLimits = {0, 1}
  MaxPuts = 6
INVARIANT Conserved
INVARIANT SizeBound
INVARIANT FirstInFirstOut
PROPERTY Leaves
CHECK_DEADLOCK FALSE
