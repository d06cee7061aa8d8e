SPECIFICATION FairSpec
CONSTANTS
  Sources = {s1}
  Devices = {d1, d2}
  None = None
  Interval = 1
  MaxOutages = 1
  MaxFaults = 1
INVARIANT ExclusiveProbe
INVARIANT FreshBeforeIngest
INVARIANT AgentsAgree
PROPERTY EventuallyInformed
PROPERTY ReturnsToPlan
PROPERTY BandwidthHeard
