SPECIFICATION Spec
CONSTANTS
  Resource <- Resources
  NameOf <- EdgeTwice
  Core <- TwoComponents
  First <- SchedulerFirst
  Prefixes <- EdgePrefix
  Plans <- ThreePlans
  MaxInstalls = 1
  MaxFaults = 0
INVARIANT StaysUninstalled
CHECK_DEADLOCK FALSE
