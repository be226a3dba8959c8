SPECIFICATION Spec
CONSTANTS
  NumWorkers = 2
  ErrorNum = 2
  Garbage = {0, 1}
  MayFail = {"worker", "counter", "cpu"}
  MaxErrors = 1
  MaxSignals = 1
INVARIANTS
  TypeOK
  NoneStartsAlone
  FinishCounted
  FinalVerdictRight
  SignalVerdictRight
PROPERTIES
  TestEnds
