SPECIFICATION Spec
CONSTANTS
  s1 = s1
  s2 = s2
  s3 = s3
  None = None
  Server = {s1, s2, s3}
  InitialVoters = {s1, s2, s3}
  Value = {}
  PreVote = FALSE
  MaxBatch = 64
  ElectionTicks = 2
  HeartbeatTicks = 1
  SnapshotThreshold = 0
  Timeouts <- FirstShort
  Groups <- NoCut
  Joining = {}
  Leaving = {}
  TransferTargets = {}
  MaxUnlucky = 1
  MaxLost = 0
  MaxDelayed = 6
  MaxPartitions = 0
  MaxTransfers = 0
  MaxFaults = 7
  MaxTerm = 2
  MaxLog = 9
CHECK_DEADLOCK FALSE
PROPERTY LeaderIgnoresVotes
