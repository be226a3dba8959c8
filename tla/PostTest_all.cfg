SPECIFICATION Spec
CONSTANTS
  Tests <- AllPrograms
  TotalTimes = 2
  Passes = 2
  ReadBytes = 100
  Faults = {"missing", "write", "lost", "late", "short", "damaged", "stuck", "cut"}
  Garbage = {64, 100}
INVARIANTS
  TypeOK
  VerdictTold
  FaultsSeen
PROPERTIES
  PostTestEnds
