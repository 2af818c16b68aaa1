SPECIFICATION FairSpec
CONSTANTS
    GamePoint = 2
    WinBy = 1
    MaxSetScore = 60
    m1 = m1
    m2 = m2
    r1 = r1
    r2 = r2
    Match = {m1}
    None = none
    SiteBestOf = 1
    Results <- MCOneSet
    Request = {r1, r2}
    RequireCode = FALSE
    MaxOperations = 3
    MaxFailures = 1
    MaxSiteSteps = 2
    Deletable = {m1}
PROPERTY DueIsSettled
CHECK_DEADLOCK FALSE
