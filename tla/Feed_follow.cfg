CONSTANTS
  Instruments = {A, B}
  Prices = {1}
  MaxQty = 1
  None = None
  Programs = {"bitfin", "plx", "hit", "trt", "ok", "cex"}
  Slots = 2
  MaxKey = 2
  MaxReq = 3
  MaxLive = 2
  Room = 1
  MaxEntries = 2
SYMMETRY Symmetry
SPECIFICATION Spec
INVARIANTS TypeOK Attribution Tracks
