SPECIFICATION Spec
CONSTANTS
    NoOne = NoOne
    NoOrg = NoOrg
    Orgs = {East, West}
    MaxLots = 6
    MaxPlayers = 64
    MaxGroups = 6
    MaxAdvancing = 3
    MaxQualifiers = 12
    MaxDealt = 8
    Group = {1, 2, 3, 4}
    SetPoints = 11
    TableCount = 3
    Ratings = {0, 1, 2}
    MaxMatches = 4
    GamePoint = 11
    WinBy = 2
    MaxSetScore = 12
    BestOf = 3
    SetScores = {0, 9, 10, 11, 12, 13}
    MaxPoints = 13
INVARIANTS
    DrawIsByTheRules
    GroupsAreMadeEven
    StandingsAreByTheRules
    TablesAreSharedByRank
    ReplayIsTheMatch
PROPERTY EngineIsByTheRules
CHECK_DEADLOCK FALSE
