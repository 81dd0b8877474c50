SPECIFICATION Spec
CONSTANTS
  Node <- ThreeNodes
  Weight = {1, 2}
  NoEdge = NoEdge
  Topology <- JustLine
  Started <- AllUp
  Leaving = {1}
  Command <- EndsLinked
  Controller = Controller
  Unnamed = Unnamed
  NoList = NoList
  NoClient = NoClient
  NoHop = NoHop
  Half = 64
  Open <- OpenSocks
  NotAccepted <- BackSocks
  Free = Free
  Gone = Gone
  EraseMayEnd = FALSE
  NoBound = NoBound
  MaxLists = 2
  MaxUnread = 1
  MaxVectors = NoBound
  MaxLogins = 0
  MaxEdits = 1
  MaxQuits = 0
  MaxLost = 0
INVARIANT ListedAreConnected
CHECK_DEADLOCK FALSE
