SPECIFICATION Spec
CONSTANTS
  s1 = s1
  s2 = s2
  s3 = s3
  s4 = s4
  None = None
  Server = {s1, s2, s3, s4}
  InitialVoters = {s1, s2, s3, s4}
  Value = {}
  PreVote = FALSE
  MaxBatch = 64
  SnapshotThreshold = 0
  Campaigns <- Alternating
  LeaderTicks = {}
  ConfChanges <- RivalRemovals
  TransferTargets = {}
  Links <- SquareLinks
  MaxTerm = 3
  MaxLog = 3
  MaxCrashes = 0
VIEW View
INVARIANTS
  LeaderCompleteness
