SPECIFICATION Spec
CONSTANTS
    GamePoint = 1
    WinBy = 1
    MaxSetScore = 60
    m1 = m1
    m2 = m2
    r1 = r1
    r2 = r2
    Match = {m1, m2}
    None = none
    SiteBestOf = 3
    Results <- MCResults
    Request = {r1, r2}
    RequireCode = TRUE
    MaxOperations = 4
    MaxFailures = 1
    MaxSiteSteps = 1
    Deletable = {}
SYMMETRY Interchange
INVARIANTS
    PostedIsRecorded
    RecordedAsSent
PROPERTY PlayedOnce
CHECK_DEADLOCK FALSE
