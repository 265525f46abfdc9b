SPECIFICATION ServerSpec
CONSTANTS
  MaxStreamId = 3
  DefaultWindow = 2
  IsClient = FALSE
  MaxConcurrent = 1
  MinFrameSize = 1
  MaxFrameSize = 2
  MaxBody = 2
  MaxBlock = 2
  PeerFrames <- Anything
  BlockSizes = {2}
  BodySizes = {3}
  Drain = 1
  Room = 1
INVARIANTS TypeOK CreditReturned WindowsInRange
CHECK_DEADLOCK FALSE
