SPECIFICATION ServerSpec
CONSTANTS
    Clients = {"c1"}
    Stdin <- ClientInputs
    ReplyLines <- VerbReplies
    TxSlots = 2
    RxSlots = 2
    DrainPerPass = 2
    ReplyWait = 1
    UartHolds = 2
    StdinLines = 1
INVARIANTS NeverSleepsMidTick
CHECK_DEADLOCK FALSE
