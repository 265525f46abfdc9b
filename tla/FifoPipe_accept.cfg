SPECIFICATION FifoSpec
CONSTANTS
  AcceptThreads = {m, n}
  Connecters = {a, b}
  Timed = {m, a}
  MayDrop = TRUE
INVARIANT HandedByAnother
PROPERTY BegunReturns
CHECK_DEADLOCK FALSE
