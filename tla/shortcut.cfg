SPECIFICATION FairSpec
CONSTANTS
  NoNode = NoNode
  t1 = t1
  t2 = t2
  edge = edge
  cloud = cloud
  Start = "start"
  End = "end"
  Cloud = cloud
  Task <- TwoTasks
  Device <- Devices
  Dag <- Shortcut
  Source <- OnEdge
  Plan <- SplitPlan
  Ports <- EverywherePorts
  Pods <- EverywherePods
  Display = FALSE
  MaxFaults = 1
INVARIANT CarriesUpstream
INVARIANT ResultComplete
INVARIANT NoSilentLoss
PROPERTY EventuallyRecorded
CHECK_DEADLOCK FALSE
