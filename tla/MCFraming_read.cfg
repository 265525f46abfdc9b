SPECIFICATION Spec
CONSTANTS
  Base = 2
  HeaderLen = 2
  Preface <- MCPreface
  MaxBody = 2
  Ceiling = 3
  MaxWire = 10
  Silence = 1
INVARIANTS TypeOK NothingLost OpenedAsSent CleanEndIsWhole FramesAsWritten SilenceKept
PROPERTY StopReaches
