SPECIFICATION Spec
CONSTANTS
  Node <- ThreeNodes
  Weight = {1, 2}
  NoEdge = NoEdge
  Topology <- LineOrLink
  Started <- AllUp
  Leaving = {1}
  Command <- Edits
  Controller = Controller
  Unnamed = Unnamed
  NoList = NoList
  NoClient = NoClient
  NoHop = NoHop
  Half = 64
  Open <- OpenSocks
  NotAccepted <- BackSocks
  Free = Free
  Gone = Gone
  EraseMayEnd = TRUE
  NoBound = NoBound
  MaxLists = 2
  MaxUnread = 1
  MaxVectors = 1
  MaxLogins = 1
  MaxEdits = 1
  MaxQuits = 1
  MaxLost = 1
INVARIANTS
  RouterTypeOK
  RightNames
  PointersLead
  NeighborCost
CHECK_DEADLOCK FALSE
