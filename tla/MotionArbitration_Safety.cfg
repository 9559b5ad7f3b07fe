SPECIFICATION Spec
CONSTANTS
    a = a
    Blocks <- OneFiber
    BlockCalls = {"move", "twist", "wheels", "nudge", "stop", "estop", "clear"}
    Verbs = {"MOVE_X", "GO_TO_W", "WHEELS_X", "WHEELS_V"}
    MaxTimeout = 1
    Slots = 1
    Patience = 1
    LateWrites = FALSE
INVARIANTS ArbitrationTypeOK OwnersAgree DoneTellsTheTruth
PROPERTIES JobRunsAlone BlockWaitsForWire
