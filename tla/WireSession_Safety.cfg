SPECIFICATION Spec
CONSTANTS
    MaxSequenceId = 5
    MalformedModulus = 1
    ErrCodes <- NoRefusals
    Tags <- Numbers
    MaxCalls = 3
    MaxSessions = 2
    Tries = 2
    HelloTries = 2
    Persistent = FALSE
    CallDecodes <- GoodAndBad
    Carriers <- AllCarriers
    MaxOthers = 2
INVARIANTS
    SessionTypeOK
    RunsInIssueOrder
    AckIsReceipt
    NoLegIsSkipped
CHECK_DEADLOCK FALSE
