SPECIFICATION Spec
CONSTANTS
    Page <- pageSet
    Doc = {"robots", "index", "urls", "sitemap"}
    RobotsOf <- robotsOf
    SitemapsOf <- sitemapsOf
    DefaultSitemap <- defaultSitemap
    IndexDocs = {"index"}
    LocsOf <- locsOf
    LinksOf <- linksOf
    KeyOf <- keyOf
    Disallowed = {}
    ForeignSites = {}
    PromoPages = {"offers", "akcii", "akcii_en", "spb"}
    InfoPages = {"contact"}
    Anchored = {}
    ExcludedPages = {"cart"}
    GeoPages = {"spb"}
    CatalogPages = {}
    Malformed = {}
    PageCap = 3
    SitemapMaxDocs = 2
    CollectCap = 6
    BfsTriggerMin = 3
    BfsMaxDepth = 2
    BfsMaxPages = 3
    Websites = {"site"}
    Channels = {"tg"}
    OnePost = {}
    HomeOf <- homeOf
    Offerable = {"home", "offers", "chan"}
    Tagged = {"home"}
    Workers = 2
    EmptySkip = 1
    RobotsTtl = 2
    Ttl = 2
    MaxFaults = 0
    MaxChanges = 1
INVARIANT
    UnchangedPageStays
