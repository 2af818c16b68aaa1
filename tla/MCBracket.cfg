SPECIFICATION Spec
CONSTANTS
    GamePoint = 1
    WinBy = 1
    sf1 = sf1
    sf2 = sf2
    final = final
    third = third
    a = a
    b = b
    c = c
    d = d
    none = none
    Match <- MCMatch
    Player <- MCPlayer
    User = {u1, u2}
    u1 = u1
    u2 = u2
    NoPlayer = none
    NoUser = none
    NoMatch = none
    NoDest = none
    WinnerTo <- MCWinnerTo
    LoserTo <- MCLoserTo
    Entry <- MCEntry
    StartBestOf <- MCBestOf
    Managers = {}
    Assigned <- MCAssigned
    OwnPlayer <- MCOwnPlayer
    EditPlayers <- MCEditPlayers
    EditBestOf <- MCEditBestOf
    MaxAttempts = 1
    FreeCards = 0
    MaxPoints = 1
    MaxCards = 0
    MaxTimeouts = 0
    Mistyping = {u2}
    Editable <- MCEditable
INVARIANTS
    TypeOK
    SlotFollowsFeeder
PROPERTY StartedPairIsFixed
CHECK_DEADLOCK FALSE
