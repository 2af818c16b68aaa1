SPECIFICATION Spec
CONSTANTS
    GamePoint = 3
    WinBy = 1
    ServeEvery = 2
    EndsAt = 1
    Formats = {1, 3}
    DefaultBestOf = 3
    MaxUndo = 1
    MaxPoints = 3
    MaxIncidents = 2
INVARIANTS
    TypeOK
    CourtFollowsTheRules
PROPERTY KeepsTheSheet
CHECK_DEADLOCK FALSE
