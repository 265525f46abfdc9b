SPECIFICATION Spec
CONSTANTS
  MaxStreamId = 7
  DefaultWindow = 2
  MaxConcurrent = 1
  MinFrameSize = 1
  MaxFrameSize = 2
  MaxBody = 3
  MaxBlock = 2
  Requests = 2
  RequestBodies = {0, 3}
  AnswerBodies = {0}
  HeaderBlocks = {1, 2}
  Drain = 20
  CloseEarly = TRUE
PROPERTY CloseSettles
CHECK_DEADLOCK FALSE
