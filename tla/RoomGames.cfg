\* A table of any game for three users, two sets of rules, two proposals; and Flush rounds
\* of two or three players, two strengths of hands, two bets a round, two sets of rules.
SPECIFICATION MCSpec
CONSTANTS
    Users = {a, b, c}
    Rules = {r1, r2}
    DefaultRules = r1
    Seats = 3
    Rosters <- AllRosters
    MaxProposals = 2
    PlayerIds = {a, b, c}
    RuleSets <- MCRuleSets
    HandMax = 2
    MaxRaise = 1
    MaxBets = 2
    None = None
CHECK_DEADLOCK FALSE
SYMMETRY Symmetry
INVARIANTS
    PendingForRoster
    AuditPasses
    BestHandWins
PROPERTIES
    AgreedByAll
    StartsAsShown
    StakesNeverFall
