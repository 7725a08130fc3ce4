SPECIFICATION Spec
CONSTANTS
  Client <- MCClient
  Key = {k1, k2}
  NoValue = NoValue
  Absent = Absent
  NoKey = NoKey
  Kinds <- MCKinds
  MaxOps = 3
  MaxTime = 4
SYMMETRY SymmetricKeys
INVARIANTS
  AcceptsOnlyLinearizable
  RejectsOnlyIllegal
CHECK_DEADLOCK FALSE
