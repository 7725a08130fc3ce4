SPECIFICATION FairSpec
CONSTANTS
  Server = {s1, s2}
  Client <- OneClient
  Key = {k1}
  SnapshotThreshold = 0
  MayBeAlone = TRUE
  Duplicates = FALSE
  Kinds <- Puts
  MayTransfer = FALSE
  MaxSeq <- OneEach
  MaxCopies = 1
  MaxNoops = 1
  MaxElections = 2
  MaxCrashes = 1
  None = None
  NoValue = NoValue
  Absent = Absent
CHECK_DEADLOCK FALSE
PROPERTY Answered
