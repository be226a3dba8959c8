SPECIFICATION Spec
CONSTANTS
  NumWorkers = 2
  ErrorNum = 2
  Garbage = {0}
  MayFail = {}
  MaxErrors = 2
  MaxSignals = 0
INVARIANTS
  ZeroMeansSuccess
