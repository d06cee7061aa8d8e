SPECIFICATION Spec
CONSTANTS
  NoNode = NoNode
  Start = 0
  End = 99
  Services = {1, 2, 3, 4}
INVARIANT TypeOK
INVARIANT CheckedOnce
INVARIANT Enclosed
INVARIANT TotalTime
INVARIANT LcaCommon
INVARIANT FoundWhenEven
INVARIANT LineMergeComplete
INVARIANT MergeKeepsOwn
CHECK_DEADLOCK FALSE
