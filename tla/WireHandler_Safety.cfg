SPECIFICATION HandlerSpec
CONSTANTS
    MaxSequenceId = 5
    MalformedModulus = 3
    x = x
    y = y
    ErrCodes <- Codes
    Tags <- Contents
INVARIANTS
    SessionInOrder
    ReceiptsAreTrue
    ReminderIsTrue
PROPERTIES
    ImplementsStream
