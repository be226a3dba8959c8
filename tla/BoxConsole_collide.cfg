SPECIFICATION Spec
CONSTANTS
  usb = usb
  mem = mem
  Testers = {usb}
  Monitors = {mem}
  MemCpu = {mem}
  Total = 2
  MaxCuts = 0
INVARIANTS
  LogExclusive
