SPECIFICATION Spec
CONSTANTS
  s1 = s1
  s2 = s2
  s3 = s3
  s4 = s4
  None = None
  Server = {s1, s2, s3}
  InitialVoters = {s1, s2}
  Value = {}
  PreVote = FALSE
  MaxBatch = 64
  SnapshotThreshold = 0
  Campaigns <- Once
  LeaderTicks = {"transfer"}
  ConfChanges <- JoinAndLeave
  TransferTargets = {s2}
  Links <- AllLinks
  MaxTerm = 2
  MaxLog = 3
  MaxCrashes = 0
VIEW View
INVARIANTS
  ConfigFollowsLog
  OneConfigInFlight
  RestartRebuilds
PROPERTIES
  OnlyPromotionDuringTransfer
