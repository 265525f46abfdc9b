SPECIFICATION Spec
CONSTANTS
  MaxStreamId = 9
  DefaultWindow = 2
  MaxConcurrent = 1
  MinFrameSize = 1
  MaxFrameSize = 2
  MaxBody = 3
  MaxBlock = 2
  Requests = 3
  RequestBodies = {0, 3, 6}
  AnswerBodies = {0, 3, 4, 6}
  HeaderBlocks = {1, 2}
  Drain = 20
  CloseEarly = FALSE
INVARIANT ConnectionConserved
PROPERTIES NoBreach ServesRequests BothEnd
CHECK_DEADLOCK FALSE
