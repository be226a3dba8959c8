SPECIFICATION Spec
CONSTANTS
  NumWorkers = 2
  ErrorNum = 2
  Garbage = {0}
  MayFail = {}
  MaxErrors = 1
  MaxSignals = 1
INVARIANTS
  ExitsAfterAllStopped
