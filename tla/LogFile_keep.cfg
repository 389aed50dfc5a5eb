SPECIFICATION Spec
CONSTANTS
  SameSecond = FALSE
  OpenFails = TRUE
  MaxRec = 6
  MaxNow = 3
INVARIANTS TypeOK NothingLost InOrder
CHECK_DEADLOCK FALSE
