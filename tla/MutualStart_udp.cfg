\* A receiver finds the checksums of the udp headers right (violated).
SPECIFICATION Spec
CONSTANTS
  Argvs <- LinksGiven
  Default = "generator.conf"
  Files <- MCFiles
  Number <- MCNumber
  Garbage = {0, 5}
  Uint32 <- MCUint32
  NoName = NoName
  Cpus = 5
  Instance <- MCInstance
  Capacity <- MCCapacity
  Held <- MCHeld
  Sizes <- MCSizes
  PageSizes <- MCPageSizes
  Block <- MCBlock
  MayFail = FALSE
  OldHeaders <- MCOldHeaders
  Payloads = {40000}
INVARIANT UdpChecksumRight
