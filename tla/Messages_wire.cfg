SPECIFICATION Spec
CONSTANTS
  Name = {"n1", "n2"}
  Number = {"8"}
  EmptyList = "[]"
  List = {"[v]"}
  Letter = {"a"}
  Null = Null
  MaxData = 3
  MaxSent = 2
INVARIANTS
  ReadAsWritten
  NothingForged
CHECK_DEADLOCK FALSE
