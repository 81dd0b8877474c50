\* A smaller table with a smaller ratio, so that it grows and shrinks again.
SPECIFICATION Spec
CONSTANTS
  Key <- Mixed
  Value = {v1, v2}
  HashCode <- MixedCode
  KeyNum = 2
  KeyRatio = 2
INVARIANTS
  TypeOK
  StoredIsCurrent
  CountCoversElements
  WellHoused
PROPERTY BoundedLoss
CHECK_DEADLOCK FALSE
