SPECIFICATION Spec
CONSTANTS
  Server = {s1, s2}
  Client <- MCClient
  Key = {k1}
  SnapshotThreshold = 1
  MayBeAlone = TRUE
  Duplicates = TRUE
  Kinds <- PutsAndGets
  MayTransfer = TRUE
  MaxSeq <- OneEach
  MaxCopies = 2
  MaxNoops = 0
  MaxElections = 2
  MaxCrashes = 1
  None = None
  NoValue = NoValue
  Absent = Absent
CHECK_DEADLOCK FALSE
VIEW View
INVARIANTS TypeOK StoreFollowsLog ExactlyOnce
PROPERTY Linearizable
