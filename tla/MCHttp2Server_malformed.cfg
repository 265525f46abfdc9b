SPECIFICATION ResetsSpec
CONSTANTS
  MaxStreamId = 7
  DefaultWindow = 2
  IsClient = FALSE
  MaxConcurrent = 2
  MinFrameSize = 1
  MaxFrameSize = 2
  MaxBody = 2
  MaxBlock = 2
  PeerFrames <- Oversized
  BlockSizes = {1}
  BodySizes = {0}
  Drain = 1
  Room = 1
PROPERTY LetGo
CHECK_DEADLOCK FALSE
