SPECIFICATION FairSpec
CONSTANTS
  Source <- OneSource
  SourceOf <- AllOfOne
  QueueSize = 1
  MaxSessions = 2
  MaxResults = 2
  MaxFaults = 1
INVARIANT TypeOK
INVARIANT InOrder
INVARIANT NothingSkipped
PROPERTY EventuallyShown
PROPERTY PollersEnd
CHECK_DEADLOCK FALSE
