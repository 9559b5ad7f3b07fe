SPECIFICATION Spec
CONSTANTS
    MaxSequenceId = 5
    MalformedModulus = 2
    ErrCodes <- NoRefusals
    Tags <- Numbers
    MaxCalls = 2
    MaxSessions = 1
    Tries = 2
    HelloTries = 2
    Persistent = TRUE
    CallDecodes <- OnlyGood
    Carriers <- OnlyShared
    MaxOthers = 2
PROPERTIES
    StaleWasAccepted
CHECK_DEADLOCK FALSE
