\* Two Flush rounds and one failing call.
SPECIFICATION Spec
CONSTANTS
    Players = {1, 2, 3}
    Tables = {t}
    Kind = "flush"
    Points <- ThreePlayersPoints
    Keys = {k}
    MaxRounds = 2
    MaxRequests = 1
    MaxFailures = 1
    MaxCrashes = 0
CHECK_DEADLOCK FALSE
INVARIANTS
    NoResultLost
