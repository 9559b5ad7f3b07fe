SPECIFICATION SuiteSpec
CONSTANTS
    MaxSequenceId = 201
    MalformedModulus = 100
    ErrCodes <- SuiteErrCodes
    Tags = {}
    Modes <- SuiteModes
    MaxLosses = 1
INVARIANTS PassesOnlyWhatRan
CHECK_DEADLOCK FALSE
