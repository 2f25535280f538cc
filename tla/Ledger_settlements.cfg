\* Two Marriage games, two settlements at once, one failing call and one restart.
SPECIFICATION Spec
CONSTANTS
    Players = {1, 2, 3}
    Tables = {t}
    Kind = "marriage"
    Points <- ThreePlayersPoints
    Keys = {k}
    MaxRounds = 2
    MaxRequests = 2
    MaxFailures = 1
    MaxCrashes = 1
CHECK_DEADLOCK FALSE
INVARIANTS
    GameInOneBatch
    RequestOnce
    TwoPartyConfirmed
    BatchSettles
    NoResultLost
