SPECIFICATION FifoSpec
CONSTANTS
  AcceptThreads = {m, n}
  Connecters = {a}
  Timed = {m, n, a}
  MayDrop = FALSE
INVARIANT HandedWithPeer
CHECK_DEADLOCK FALSE
