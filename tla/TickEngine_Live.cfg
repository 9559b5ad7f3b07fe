SPECIFICATION FairSpec
CONSTANTS
  a = a
  b = b
  Watchdog = Watchdog
  Fibers <- TwoFibers
  Ops <- EstopOps
  MaxSettle = 2
  MaxPulse = 1
  MaxFaults = 1
PROPERTIES AbandonedStops StopIsNotLost EstopReachesWheels GuardFreed
