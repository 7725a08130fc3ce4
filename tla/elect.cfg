SPECIFICATION Spec
CONSTANTS
  s1 = s1
  s2 = s2
  s3 = s3
  s4 = s4
  None = None
  Server = {s1, s2, s3}
  InitialVoters = {s1, s2, s3}
  Value = {v}
  PreVote = TRUE
  MaxBatch = 64
  SnapshotThreshold = 0
  Campaigns <- Alternating
  LeaderTicks = {}
  ConfChanges <- NoChanges
  TransferTargets = {}
  Links <- StarLinks
  MaxTerm = 2
  MaxLog = 2
  MaxCrashes = 1
VIEW View
INVARIANTS
  ElectionSafety
PROPERTIES
  VotesStand
