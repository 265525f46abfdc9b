SPECIFICATION FifoSpec
CONSTANTS
  AcceptThreads = {listener}
  Connecters = {a, b}
  Timed = {a, b}
  MayDrop = FALSE
PROPERTY CallsReturn
CHECK_DEADLOCK FALSE
