\* Two deals the server prepares: retrying clients, one failing store call.
SPECIFICATION FairSpec
CONSTANTS
    PlayerCount = 2
    DealLength = 2
    Deals = 2
    Shuffles = {s1}
    NoShuffle = NoShuffle
    RoundSummary = FALSE
    MaxActions = 1
    MaxFailures = 1
    ReceiptLimit = 3
    NoRequest = NoRequest
    NoCall = NoCall
CHECK_DEADLOCK FALSE
INVARIANTS
    MemoryIsDurable
PROPERTIES
    ActionsResolve
