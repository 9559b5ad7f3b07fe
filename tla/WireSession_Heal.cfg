SPECIFICATION FairSpec
CONSTANTS
    MaxSequenceId = 5
    MalformedModulus = 2
    ErrCodes <- NoRefusals
    Tags <- Numbers
    MaxCalls = 2
    MaxSessions = 1
    Tries = 2
    HelloTries = 1
    Persistent = TRUE
    CallDecodes <- OnlyGood
    Carriers <- OneSession
    MaxOthers = 0
PROPERTIES
    RetransmitHeals
CHECK_DEADLOCK FALSE
