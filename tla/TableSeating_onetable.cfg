\* One table of any game through two matches or rounds, three users coming and going; and
\* two Flush tables with a queue that compete for three users.
SPECIFICATION Spec
CONSTANTS
    Users = {a, b, c}
    Visitors = {a, b, c}
    Openers = {a, b, c}
    Kinds = {"callbreak", "marriage", "flush"}
    Capacity = 2
    MaxTables = 2
    MaxGames = 2
    MaxStarts = 2
    MaxWaiting = 2
    MaxFailures = 0
    RepliesLost = FALSE
    Nobody = Nobody
    NoTable = NoTable
CHECK_DEADLOCK FALSE
SYMMETRY Symmetry
CONSTRAINT OneOrTwoTables
VIEW PresentState
INVARIANTS
    OffersConsistent
    SeatsAccounted
    ReservationsTrue
PROPERTIES
    ContinuingKeepSeats
