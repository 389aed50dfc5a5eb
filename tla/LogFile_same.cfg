SPECIFICATION Spec
CONSTANTS
  SameSecond = TRUE
  OpenFails = FALSE
  MaxRec = 6
  MaxNow = 3
INVARIANTS NothingLost
CHECK_DEADLOCK FALSE
