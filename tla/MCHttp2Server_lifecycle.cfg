SPECIFICATION ServerSpec
CONSTANTS
  MaxStreamId = 7
  DefaultWindow = 2
  IsClient = FALSE
  MaxConcurrent = 1
  MinFrameSize = 1
  MaxFrameSize = 2
  MaxBody = 1
  MaxBlock = 2
  PeerFrames <- Lifecycle
  BlockSizes = {1}
  BodySizes = {0, 1}
  Drain = 1
  Room = 1
INVARIANTS RecordsKept RecordsOpened NothingAboveGoaway ConcurrencyKept
PROPERTY HandedOnce
CHECK_DEADLOCK FALSE
