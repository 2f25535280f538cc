\* Each part of the client by itself: one account and two rooms with one connection and one request at a
\* time; two phrases, three messages, two commands of each game, two decks of two cards or so; a Marriage
\* player's thirteen cards of two suits with groups of three, twelve to hold; two tables in two rooms to come
\* to, four turns of each list, and four keys typed into a search.
SPECIFICATION ScreensSpec
CONSTANTS
    Urls <- MCUrls
    Sockets = {k1}
    NoSocket = NoSocket
    MaxAttempts = 1
    MaxOutages = 0
    Lingering = FALSE
    Sessions = {s1}
    Rooms = {r1, r2}
    None = None
    MaxCalls = 1
    MaxMounts = 2
    Attempts <- MCAttempts
    MaxTalk = 2
    MaxCommands = 1
    MaxBreaks = 1
    Phrases = {p, q}
    Limit = 1
    MaxIds = 2
    Drafts = {x}
    Empty = Empty
    MaxMessages = 3
    Players = {f, g}
    Nobody = Nobody
    Lines = {l}
    NoLine = NoLine
    MaxLines = 1
    MaxChanges = 1
    Cards = {c, d}
    MaxDeals = 2
    RuleSets = {ra, rb}
    OpponentCards = 2
    MaxRevision = 1
    MaxRounds = 1
    MaxBets = 1
    MarriageCards = {m1, m2}
    Dealt = {m1}
    Tunnelas = {t}
    Group = 1
    Otherwise = {"SHOW", "DISCARD_CARD"}
    MaxMoves = 1
    Top = 5
    Suits = {"S", "H"}
    Copies = 3
    Men = 1
    Melds = 2
    Pairs = 3
    HandSize = 12
    Most = 24
    Deck <- MCDeck
    Indicators <- MCIndicators
    LobbyRooms = {o1, o2}
    LobbyTables = {t1, t2}
    HomeOf <- MCHome
    Absent = Absent
    MaxAsked = 3
    Visitors = {f, g}
    ListedRooms = {l1, l2, l3}
    NoVisitor = NoVisitor
    Kept = 2
    TablesAttempts = 2
    MaxLists = 4
    Queries = {q1, q2}
    TooShort = TooShort
    MaxTyped = 4
VIEW Running
CHECK_DEADLOCK FALSE
INVARIANTS
    TransportServesRoom
    SavedRoomShown
    SentOnce
    ChatsTrue
    PhrasesStay
    PrivateToFriend
    GameScreensTrue
    AdviceTrue
    LobbyTrue
