SPECIFICATION FairSpec
CONSTANTS
    m1 = m1
    wins = wins
    loses = loses
    article = article
    None = None
    Match = {m1}
    Result = {wins, loses}
    News = {article}
    QueueMax = 1
    Attempts = 2
    MemoryMax = 1
    MaxSeq = 5
    MaxIncidents = 1
INVARIANTS
    NothingTwice
    PostedStood
PROPERTY StandingIsAnnounced
CHECK_DEADLOCK FALSE
