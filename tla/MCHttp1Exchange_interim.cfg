SPECIFICATION Spec
CONSTANTS
  MaxBody = 2
  MaxHeaders = 3
  MaxRequests <- Twice
  Answers <- KeptAnswers
  Peers = {"interim"}
INVARIANT AnswerIsOwn
CHECK_DEADLOCK FALSE
