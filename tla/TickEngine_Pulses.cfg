SPECIFICATION Spec
CONSTANTS
  a = a
  b = b
  Watchdog = Watchdog
  Fibers <- TwoFibers
  Ops <- PulseOps
  MaxSettle = 2
  MaxPulse = 2
  MaxFaults = 1
PROPERTIES EstopNeverDrives
