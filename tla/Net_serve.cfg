SPECIFICATION Spec
CONSTANTS
  Peer = {p1, p2, p3}
  Unnamed = Unnamed
  NoPeer = NoPeer
  NoSession = NoSession
  NoEvent = NoEvent
  MaxPending = 1
  MaxConnects = 4
INVARIANTS
  TypeOK
  SlotsAreConnections
PROPERTIES
  OnlyLeftoversHarm
  ImplementsSessions
SYMMETRY AnyPeer
CHECK_DEADLOCK FALSE
