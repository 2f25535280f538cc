\* A Call Break or Flush table through up to three starts and one failing store call that
\* may have been carried out; one user creates it; NoOfferAfterFailure: what follows an offer
\* made after the failure is left out. No symmetry: OffersResolve is a liveness property.
SPECIFICATION FairSpec
CONSTANTS
    Users = {a, b, c}
    Visitors = {}
    Openers = {a}
    Kinds = {"callbreak", "flush"}
    Capacity = 2
    MaxTables = 1
    MaxGames = 1
    MaxStarts = 3
    MaxWaiting = 1
    MaxFailures = 1
    RepliesLost = TRUE
    Nobody = Nobody
    NoTable = NoTable
CHECK_DEADLOCK FALSE
CONSTRAINT NoOfferAfterFailure
INVARIANTS
    PlayersReserved
PROPERTIES
    OffersResolve
