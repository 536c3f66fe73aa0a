SPECIFICATION FairSpec
CONSTANTS
    GridSize = 2
    BlockSize = 1
    PageCap = 2
    Ttl = 1
    MultCap = 2
    ColdTries = 2
    Protected = {1}
    Providers <- ddgOnly
    Websites = {}
    Channels = {"chan"}
    Serp <- serp
    Share = 1
    Budget = 1
    StreakBound = 2
INVARIANTS
    SuppressedOnlyBySilence
PROPERTIES
    EachPhraseSearched
