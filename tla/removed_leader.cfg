SPECIFICATION FairSpec
CONSTANTS
  s1 = s1
  s2 = s2
  s3 = s3
  None = None
  Server = {s1, s2}
  InitialVoters = {s1, s2}
  Value = {}
  PreVote = TRUE
  MaxBatch = 64
  ElectionTicks = 3
  HeartbeatTicks = 1
  SnapshotThreshold = 0
  Timeouts <- Staggered
  Groups <- CutFirst
  Joining = {}
  Leaving = {s1}
  TransferTargets = {}
  MaxUnlucky = 0
  MaxLost = 0
  MaxDelayed = 0
  MaxPartitions = 1
  MaxTransfers = 0
  MaxFaults = 1
  MaxTerm = 4
  MaxLog = 3
CHECK_DEADLOCK FALSE
PROPERTY LeaderReturns
