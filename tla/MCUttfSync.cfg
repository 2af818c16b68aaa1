SPECIFICATION FairSpec
CONSTANTS
    trn = trn
    ann = ann
    ben = ben
    cup = cup
    clip = clip
    game = game
    feast = feast
    draw = draw
    uz = uz
    ru = ru
    None = none
    Request = {1, 2}
    TournamentRows <- MCTournaments
    PlayerRows <- MCPlayers
    ClubRows <- MCClubs
    VideoRows <- MCVideos
    MatchRows <- MCMatches
    NewsRows <- MCNews
    Locale = {uz, ru}
    MainLocale = uz
    HasPhoto = {ann, ben}
    ClubOf <- MCClubOf
    TournamentOf <- MCTournamentOf
    PairOf <- MCPairOf
    TextsOf <- MCTextsOf
    Broken = {ann}
    PerRun = 1
    NewsWriteMax = 1
    Duties <- MCDuties
    MaxIncidents = 1
INVARIANT OneCopyOfEach
PROPERTIES
    EditedTextStays
    EverythingArrives
CHECK_DEADLOCK FALSE
