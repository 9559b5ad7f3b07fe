SPECIFICATION Spec
CONSTANTS
  a = a
  b = b
  Watchdog = Watchdog
  Fibers <- OneFiber
  Ops <- PulseOps
  MaxSettle = 2
  MaxPulse = 1
  MaxFaults = 0
INVARIANTS StopSticks
