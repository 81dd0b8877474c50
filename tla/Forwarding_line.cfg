SPECIFICATION FairSpec
CONSTANTS
  Node <- FourNodes
  Neighbor <- LineNeighbor
  Table <- SettledOnly
  Unknown = Unknown
  NoClient = NoClient
  DefaultTTL = 2
  PingPackets = 2
  RouteProbes = 3
  User = {1, 3}
  MaxOf <- OneRoute
  MaxChanges = 0
INVARIANTS
  TypeOK
  RouteFollowsPath
  RoutersStayUp
PROPERTY RouteEnds
CHECK_DEADLOCK FALSE
