\* Each part by itself: one room with two connections after one another and one outage; tables,
\* actions and notices within the bounds below.  Only one socket, so no late word of a replaced
\* one (see ClientScreens.cfg).  No symmetry: ScreensSettle is a liveness property.
SPECIFICATION LiveSpec
CONSTANTS
    Urls <- MCUrls
    Sockets = {k1}
    NoSocket = NoSocket
    MaxAttempts = 1
    MaxOutages = 1
    Lingering = FALSE
    Sessions = {s1}
    Rooms = {r1}
    None = None
    MaxCalls = 1
    MaxMounts = 2
    MaxTables = 2
    MaxVersion = 1
    MaxRenewals = 0
    Offers = {o}
    News = {n}
    MaxOffered = 1
CHECK_DEADLOCK FALSE
INVARIANTS DisabledWhileUnresolved
PROPERTIES ShownNeverStale ScreensSettle
