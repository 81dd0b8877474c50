SPECIFICATION Spec
CONSTANTS
  Node <- TwoNodes
  Client = {r1, r2, r3}
  Weight <- Weights
  NoEdge = NoEdge
  Topology <- LineOrAlone
  Absent = Absent
  Garbage = Garbage
  NoList = NoList
  MaxLoads = 2
  MaxEdits = 1
  HashCode <- LetterCode
  KeyNum = 4
  KeyRatio = 4
INVARIANTS
  TypeOK
  Freshness
  HeldOnce
  HolderIsTold
SYMMETRY Routers
CHECK_DEADLOCK FALSE
