\* Round summaries, nothing fails: the deal the creator starts is not durable.
SPECIFICATION Spec
CONSTANTS
    PlayerCount = 2
    DealLength = 1
    Deals = 2
    Shuffles = {s1}
    NoShuffle = NoShuffle
    RoundSummary = TRUE
    MaxActions = 1
    MaxFailures = 0
    ReceiptLimit = 4
    NoRequest = NoRequest
    NoCall = NoCall
CHECK_DEADLOCK FALSE
INVARIANTS
    MemoryIsDurable
