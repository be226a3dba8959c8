\* Every argument list and file of MCMutualStart.
SPECIFICATION Spec
CONSTANTS
  Argvs <- MCArgvs
  Default = "generator.conf"
  Files <- MCFiles
  Number <- MCNumber
  Garbage = {0, 5}
  Uint32 <- MCUint32
  NoName = NoName
  Cpus = 5
  Instance <- MCInstance
  Capacity <- MCCapacity
  Held <- MCHeld
  Sizes <- MCSizes
  PageSizes <- MCPageSizes
  Block <- MCBlock
  MayFail = TRUE
  OldHeaders <- MCOldHeaders
  Payloads = {40000}
INVARIANTS
  TypeOK
  SettingsMeant
  FramesReachOwnRing
  BuffersInMemory
  HeadersRight
