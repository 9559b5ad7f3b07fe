SPECIFICATION Spec
CONSTANTS
  a = a
  b = b
  Watchdog = Watchdog
  Fibers <- TwoFibers
  Ops <- NudgePollOps
  MaxSettle = 2
  MaxPulse = 1
  MaxFaults = 0
INVARIANTS BusExclusion
