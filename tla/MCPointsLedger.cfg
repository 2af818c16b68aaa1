SPECIFICATION Spec
CONSTANTS
    a = a
    b = b
    final = final
    group = group
    Player = {a, b}
    Match <- MCMatch
    None = none
    Pair <- MCPair
    WinnerPlace <- MCWinnerPlace
    LoserPlace <- MCLoserPlace
    Third = {}
    PlaceBonus <- MCPlaceBonus
    Penalty = 25
    K = 5
    Opening <- MCOpening
    AdjustBy <- MCAdjustBy
    MaxFinish <- MCMaxFinish
    Excludable = {b}
    MaxAdmin = 1
INVARIANTS
    TypeOK
    LedgerBalance
    OneBonusPerPlayer
    UndoLeavesNothingBehind
PROPERTY RatingMakesGood
CHECK_DEADLOCK FALSE
