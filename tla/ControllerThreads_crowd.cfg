SPECIFICATION ThreadsSpec
CONSTANTS
  Node <- TwoNodes
  Client = {r1, r2, r3}
  Weight <- TwoWeights
  NoEdge = NoEdge
  Topology <- Line
  Absent = Absent
  Garbage = Garbage
  NoList = NoList
  NoNode = NoNode
  Freed = Freed
  DefaultWeight = 0
  MaxLoads = 0
  MaxEdits = 1
  HashCode <- NameCode
  KeyNum = 1
  KeyRatio = 2
INVARIANTS
  ThreadsTypeOK
  FreshUnlessRaced
  HeldBetweenHandlers
SYMMETRY Routers
CHECK_DEADLOCK FALSE
