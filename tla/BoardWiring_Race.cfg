SPECIFICATION WiringSpec
CONSTANTS
    Rewirers = {"main", "protocol"}
    MotorRequests <- FewRequests
    MaxRewires = 2
    MaxDeaf = 0
    MaxHardFaults = 0
INVARIANTS PairStaysDistinct
