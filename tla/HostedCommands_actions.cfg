\* Two players through two deals that the creator starts, one failing store call;
\* ThreeActions: no more than three actions of the two together.
SPECIFICATION Spec
CONSTANTS
    PlayerCount = 2
    DealLength = 1
    Deals = 2
    Shuffles = {s1}
    NoShuffle = NoShuffle
    RoundSummary = TRUE
    MaxActions = 2
    MaxFailures = 1
    ReceiptLimit = 3
    NoRequest = NoRequest
    NoCall = NoCall
CHECK_DEADLOCK FALSE
CONSTRAINT ThreeActions
INVARIANTS
    AnswersHold
PROPERTIES
    ImplementsCommandLog
