SPECIFICATION Spec
CONSTANTS
  Workers = {0, 1}
  Once = 2
  NotifEntries = 2
  EqueueEntries = 1
  CheckLevel = {"LENGTH"}
  ErrorNum = 2
  Octet = 255
  p1 = p1
  p2 = p2
  Payload <- OnePayload
  Blank = Blank
  Noise = Noise
  Garbage <- ZeroedMemory
  Disturbances = {"lost", "sigint"}
  MaxBatches = 1
INVARIANTS
  HardwareBuffersConserved
  OnlyOwnFrames
  SizesSuffice
PROPERTIES
  WorkersFinish
