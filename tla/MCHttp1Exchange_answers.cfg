SPECIFICATION Spec
CONSTANTS
  MaxBody = 2
  MaxHeaders = 3
  MaxRequests <- Twice
  Answers <- SmallAnswers
  Peers = {"own", "any"}
INVARIANTS AnswerIsOwn AnswerAsWritten HeldWithin
PROPERTY ExchangeReturns
CHECK_DEADLOCK FALSE
