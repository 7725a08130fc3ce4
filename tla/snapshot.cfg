SPECIFICATION Spec
CONSTANTS
  s1 = s1
  s2 = s2
  s3 = s3
  s4 = s4
  None = None
  Server = {s1, s2, s3}
  InitialVoters = {s1, s2, s3}
  Value = {}
  PreVote = FALSE
  MaxBatch = 64
  SnapshotThreshold = 1
  Campaigns <- OnlyS1
  LeaderTicks = {}
  ConfChanges <- NoChanges
  TransferTargets = {}
  Links <- HubLinks
  MaxTerm = 2
  MaxLog = 3
  MaxCrashes = 1
SYMMETRY SymmetricFollowers
VIEW View
INVARIANTS
  TypeOK
  StateMachineSafety
  AppliedIsCommitted
  MatchIsDurable
  GrantedVotesDurable
  NoPanic
PROPERTIES
  CommitsStand
  ImplementsReplicatedLog
