SPECIFICATION ClientSpec
CONSTANTS
  MaxStreamId = 3
  DefaultWindow = 1
  IsClient = TRUE
  MaxConcurrent = 1
  MinFrameSize = 1
  MaxFrameSize = 2
  MaxBody = 1
  MaxBlock = 2
  PeerFrames <- Answers
  BlockSizes = {1}
  BodySizes = {0, 2}
  Room = 1
INVARIANTS OwnStreamsOnly LeftoversReset
CHECK_DEADLOCK FALSE
