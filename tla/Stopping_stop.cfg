SPECIFICATION Spec
CONSTANTS
  Clients = {c1}
  MaxTargets = 2
  Timeout = 2
  Patience = 1
  Backlog = 1
  MaxLost = 2
INVARIANTS WithinTimeout TriedInTurn
PROPERTIES StopReturns
