SPECIFICATION FairSpec
CONSTANTS
  Resource <- Resources
  NameOf <- EdgeTwice
  Core <- TwoComponents
  First <- SchedulerFirst
  Prefixes <- EdgePrefix
  Plans <- ThreePlans
  MaxInstalls = 1
  MaxFaults = 2
INVARIANT LockHeld
INVARIANT RecordsCore
INVARIANT Consistent
PROPERTY CoreUntouched
PROPERTY UninstallReturns
PROPERTY CycleEnds
CHECK_DEADLOCK FALSE
