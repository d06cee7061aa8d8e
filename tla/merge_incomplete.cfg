SPECIFICATION Spec
CONSTANTS
  NoNode = NoNode
  Start = 0
  End = 99
  Services = {1, 2, 3, 4}
INVARIANT MergeComplete
CHECK_DEADLOCK FALSE
