SPECIFICATION Spec
CONSTANTS
  Workers = {0}
  Once = 2
  NotifEntries = 1
  EqueueEntries = 2
  CheckLevel = {"LENGTH", "DATA"}
  ErrorNum = 3
  Octet = 254
  p1 = p1
  p2 = p2
  Payload <- TwoPayloads
  Blank = Blank
  Noise = Noise
  Garbage <- DirtyMemory
  Disturbances = {"lost", "damaged", "resized", "late"}
  MaxBatches = 3
INVARIANTS
  TypeOK
  RingsNeverFail
  PacketsConserved
  MissesAccounted
  DamageNoticed
  EveryPacketJudged
PROPERTIES
  NoFalseAlarm
  PacketOrder
