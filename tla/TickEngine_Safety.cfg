SPECIFICATION Spec
CONSTANTS
  a = a
  b = b
  Watchdog = Watchdog
  Fibers <- TwoFibers
  Ops <- ClosedLoopOps
  MaxSettle = 2
  MaxPulse = 1
  MaxFaults = 0
INVARIANTS TypeOK BusExclusion EstopStagesNothing WatchdogSeesDuty StopSticks StopReachesWheels
