SPECIFICATION FairSpec
CONSTANTS
  BufSizes <- MCBufSizes
  Frames <- MCFrames
  Fragments = TRUE
INVARIANTS TypeOK InSync StashFits FrameKept NoClobber OneByteOver FullFramesEndInNewline
PROPERTY FramesFlow
CHECK_DEADLOCK FALSE
