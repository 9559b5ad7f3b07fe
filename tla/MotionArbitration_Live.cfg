SPECIFICATION FairSpec
CONSTANTS
    a = a
    Blocks <- NoFiber
    BlockCalls = {"move"}
    Verbs = {"MOVE_X", "GO_TO_W", "WHEELS_V"}
    MaxTimeout = 2
    Slots = 1
    Patience = 1
    LateWrites = FALSE
PROPERTIES EveryMotionIsReported
