SPECIFICATION Spec
CONSTANTS
  Slots <- MCSlots
  Urls <- MCUrls
  Requests = {4096}
  Payloads = {200, 66000}
  MaxRefs = 3
  Lengths = {2}
  Chunkings <- MCOneChunk
  MaxAnswers = 2
INVARIANT EndsInNewline
CHECK_DEADLOCK FALSE
