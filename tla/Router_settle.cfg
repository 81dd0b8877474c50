SPECIFICATION Spec
CONSTANTS
  Node <- ThreeNodes
  Weight = {1, 2}
  NoEdge = NoEdge
  Topology <- LineAndTriangle
  Started <- AllUp
  Leaving = {1}
  Command <- Cheaper
  Controller = Controller
  Unnamed = Unnamed
  NoList = NoList
  NoClient = NoClient
  NoHop = NoHop
  Half = 64
  Open <- OpenSocks
  NotAccepted <- BackSocks
  Free = Free
  Gone = Gone
  EraseMayEnd = FALSE
  NoBound = NoBound
  MaxLists = 2
  MaxUnread = 1
  MaxVectors = NoBound
  MaxLogins = 0
  MaxEdits = 1
  MaxQuits = 0
  MaxLost = 1
INVARIANTS
  NeverTooShort
  NoLoops
  StableIsShortest
  
CHECK_DEADLOCK FALSE
