SPECIFICATION Spec
CONSTANTS
  Key <- TwoNodes
  Value = {v1}
  HashCode <- CodeOf2
  KeyNum = 128
  KeyRatio = 4
PROPERTY ImplementsMap
CHECK_DEADLOCK FALSE
