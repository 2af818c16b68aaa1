SPECIFICATION FairSpec
CONSTANTS
    t1 = t1
    ann = ann
    ben = ben
    cleo = cleo
    dora = dora
    None = none
    Match = {1, 2}
    Referee = {1, 2, 3}
    Player = {ann, ben, cleo, dora}
    Tournament = {t1}
    Of <- MCOf
    Stage <- MCStage
    OwnPlayer <- MCOwnPlayer
    Rank <- MCRank
    Neighbours <- MCNeighbours
    Times = {0, 30, 60}
    Schedule <- MCSchedule
    Pairs <- MCPairs
    DeskOptions <- MCDeskOptions
    SlotMinutes = 45
    MaxCalls = 2
    MaxIncidents = 1
INVARIANTS
    NobodyJudgesHimself
    NobodyInTwoPlaces
PROPERTIES
    NobodyFreeIsLeftOut
    EveryPairIsLookedAt
CHECK_DEADLOCK FALSE
