SPECIFICATION Spec
CONSTANTS
  BufSizes <- MCBufSizes
  Frames <- MCFrames
  Fragments = TRUE
INVARIANTS NoNewlineInsideMessage
CHECK_DEADLOCK FALSE
