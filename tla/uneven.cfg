SPECIFICATION Spec
CONSTANTS
  NoNode = NoNode
  t1 = t1
  t2 = t2
  edge = edge
  cloud = cloud
  Start = "start"
  End = "end"
  Cloud = cloud
  Task <- OneTask
  Device <- Devices
  Dag <- Uneven
  Source <- OnEdge
  Plan <- SplitPlan
  Ports <- StalePorts
  Pods <- StalePods
  Display = TRUE
  MaxFaults = 3
INVARIANT AtMostOnce
INVARIANT Precedence
INVARIANT NoOrphanBranch
INVARIANT SingleMerger
PROPERTY ImplementsDagExecution
CHECK_DEADLOCK FALSE
