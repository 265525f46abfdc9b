SPECIFICATION Spec
CONSTANTS
  Clients = {c1, c2}
  Accepters = {a1}
  Handles = {h1, h2, h3}
  Limited = {c1}
  Patience = 1
  MaxWrites = 2
  BUFFER = 2
  READ = 2
  First = 1
  MaxFailures = 1
INVARIANTS TypeOK OneConnection ReadAsWritten CancelReachesOwn WithinPatience
PROPERTIES HandedOutOrFailed ConnectReturns
