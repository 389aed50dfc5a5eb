SPECIFICATION FairSpec
CONSTANTS
  Requests = 2
  Heartbeats = TRUE
  Cuts = TRUE
  MaxIn = 3
  MaxOut = 5
  MaxConn = 2
INVARIANTS TypeOK Sequenced Connected ReconnectsInterrupted
PROPERTY Subscribes
