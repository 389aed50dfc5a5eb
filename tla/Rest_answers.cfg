SPECIFICATION Spec
CONSTANTS
  Slots <- MCSlots
  Urls <- MCUrls
  Requests = {4096}
  Payloads = {200, 66000}
  MaxRefs = 3
  Lengths = {0, 2}
  Chunkings <- MCChunkings
  MaxAnswers = 2
INVARIANTS TypeOK Fits Counted WholeAnswers OneLine
CHECK_DEADLOCK FALSE
