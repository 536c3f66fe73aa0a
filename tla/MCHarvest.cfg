SPECIFICATION FairSpec
CONSTANTS
    CountryTlds = {"ua", "ru", "io"}
    GenericTlds = {"io"}
    ForeignIdns = {}
    RuByTlds = {"ru"}
    RuCities = {"spb"}
    ByCities = {"minsk"}
    Institutional = {"gov", "edu"}
    Platforms = {}
    NewsLabels = {"news"}
    MediaTlds = {"media"}
    Curated = {}
    Site <- sites
    Kinds <- kinds
    Credits <- credits
    Pages = 1
    Candidates <- candidates
    Rotation <- rotation
    Searches <- searches
    SiteAnswers <- answers
    SourceSites <- active
    Tagged <- tagged
    Moderated <- moderated
    Businesses <- named
    Listings = {}
    Budget = 2
    PerPass = 1
    TopN = 1
    Workers = 2
    Revisit = 2
    EmptySkip = 1
    MediaCrawls = 2
    EvictAge = 2
    MaxFaults = 1
    MaxRestarts = 1
INVARIANTS
    TypeOK
PROPERTIES
    EvidenceShields
    FeedServed
    MediaGetsBlocked
    ForeignLeftAlone
