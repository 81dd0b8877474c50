SPECIFICATION Spec
CONSTANTS
  Node <- FourNodes
  Neighbor <- LineNeighbor
  Table <- Moving
  Unknown = Unknown
  NoClient = NoClient
  DefaultTTL = 1
  PingPackets = 1
  RouteProbes = 3
  User = {1}
  MaxOf <- OneOfEach
  MaxChanges = 1
INVARIANTS
  HopsBounded
  AnswersAreTrue
CHECK_DEADLOCK FALSE
