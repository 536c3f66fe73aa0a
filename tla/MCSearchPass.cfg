SPECIFICATION FairSpec
CONSTANTS
    GridSize = 2
    BlockSize = 2
    PageCap = 1
    Ttl = 2
    MultCap = 1
    ColdTries = 0
    Protected = {}
    Providers <- both
    Websites = {"site", "shop"}
    Channels = {"chan"}
    Serp <- serp
    Share = 2
    Budget = 2
    StreakBound = 0
INVARIANTS
    TypeOK
    CachedUntilExamined
PROPERTIES
    CachedFinished
