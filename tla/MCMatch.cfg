SPECIFICATION Spec
CONSTANTS
    GamePoint = 2
    WinBy = 1
    m1 = m1
    a = a
    b = b
    none = none
    ref = ref
    Match <- MCMatches
    Player <- MCPlayer
    User = {ref}
    NoPlayer = none
    NoUser = none
    NoMatch = none
    NoDest = none
    WinnerTo <- MCNowhere
    LoserTo <- MCNowhere
    Entry <- MCEntry
    StartBestOf <- MCBestOf
    Managers = {}
    Assigned <- MCAssigned
    OwnPlayer <- MCOwnPlayer
    EditPlayers <- MCEditPlayers
    EditBestOf <- MCEditBestOf
    MaxAttempts = 2
    FreeCards = 3
    MaxPoints = 2
    MaxCards = 3
    MaxTimeouts = 1
    Mistyping = {}
    Editable = {}
INVARIANTS
    ScoreIsReplay
    WinnerIsOneOfThePair
CHECK_DEADLOCK FALSE
