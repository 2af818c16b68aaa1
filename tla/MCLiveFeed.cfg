SPECIFICATION FairSpec
CONSTANTS
    Viewer = {v1}
    Score = {a}
    None = None
    MaxSeq = 3
    MaxLists = 2
    MaxChanges = 3
    MaxLosses = 1
INVARIANTS
    AnswersAreFresh
    QuietPageIsCurrent
PROPERTY
    ScreensCatchUp
CHECK_DEADLOCK FALSE
