SPECIFICATION Spec
CONSTANTS
  s1 = s1
  s2 = s2
  s3 = s3
  s4 = s4
  None = None
  Server = {s1, s2, s3}
  InitialVoters = {s1, s2, s3}
  Value = {}
  PreVote = FALSE
  MaxBatch = 1
  SnapshotThreshold = 0
  Campaigns <- AnyOfTwo
  LeaderTicks = {}
  ConfChanges <- NoChanges
  TransferTargets = {}
  Links <- StarLinks
  MaxTerm = 4
  MaxLog = 3
  MaxCrashes = 0
SYMMETRY SymmetricPair
VIEW View
INVARIANTS
  LeaderCompleteness
  LogMatching
  CommittedOnce
