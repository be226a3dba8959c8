SPECIFICATION Spec
CONSTANTS
  Tests <- RomOnly
  TotalTimes = 1
  Passes = 2
  ReadBytes = 100
  Faults = {"short"}
  Garbage = {0}
INVARIANTS
  RomSuccessMeansRead
