SPECIFICATION FairSpec
CONSTANTS
  s1 = s1
  s2 = s2
  s3 = s3
  None = None
  Server = {s1, s2, s3}
  InitialVoters = {s1, s2}
  Value = {v}
  PreVote = TRUE
  MaxBatch = 64
  ElectionTicks = 3
  HeartbeatTicks = 1
  SnapshotThreshold = 1
  Timeouts <- Staggered
  Groups <- CutLast
  Joining = {s3}
  Leaving = {s1}
  TransferTargets = {}
  MaxUnlucky = 1
  MaxLost = 1
  MaxDelayed = 0
  MaxPartitions = 1
  MaxTransfers = 0
  MaxFaults = 1
  MaxTerm = 4
  MaxLog = 3
CHECK_DEADLOCK FALSE
INVARIANTS IsolatedLeaderStepsDown SnapshotConfigs
PROPERTY Convergence
