SPECIFICATION FairSpec
CONSTANTS
  Node <- ThreeNames
  Client = {r1, r2}
  Weight <- Weights
  NoEdge = NoEdge
  Topology <- PairOnly
  Absent = Absent
  Garbage = Garbage
  NoList = NoList
  MaxLoads = 0
  MaxEdits = 1
  HashCode <- LetterCode
  KeyNum = 128
  KeyRatio = 4
INVARIANT TableMatchesClients
PROPERTIES
  EndsOnlyByCommand
  ChangesAreTold
CHECK_DEADLOCK FALSE
