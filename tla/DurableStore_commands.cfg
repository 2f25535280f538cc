\* Two processes, two calls at once and two command IDs on one game of PostgreSQL; and two
\* games and two tables that compete for two players, in the in-memory store.
SPECIFICATION MCSpec
CONSTANTS
    Games = {g1}
    SeatGames = {g1, g2}
    Tables = {t1, t2}
    Players = {p1, p2}
    Instances = {i1, i2}
    Actors = {a1}
    CommandIds = {c1, c2}
    Bodies = {b1}
    Slots = {s1, s2}
    Store = "postgres"
    LeaseTicks = 1
    InitialRevision = 0
    MaxSequence = 2
    MaxRevision = 2
    MaxEpoch = 2
    NoGame = NoGame
    NoTable = NoTable
    NoInstance = NoInstance
INVARIANTS ReplayMatchesRow NoLostUpdate OneOwner AnswersAgree
    DeliverOnce
PROPERTIES ImplementsCommandLog NoReservationStolen
CHECK_DEADLOCK FALSE
SYMMETRY Symmetry
