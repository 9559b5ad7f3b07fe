SPECIFICATION BenchSpec
CONSTANTS
    BenchPlans <- OneSweep
    Slips = {0}
    Trajectories <- AnArc
    ChunkSize = 2
    SampleCap = 5
    PivotFixes = 4
    MinPivots = 3
    FrameStep = 80
    MissedFrames = 1
    MinFrames = 2
    BenchLosses = 2
    BadReads = 1
INVARIANT SweepRowIsOfItsPivot
CHECK_DEADLOCK FALSE
