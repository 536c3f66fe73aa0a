SPECIFICATION FairSpec
CONSTANTS
    Providers = {"duckduckgo", "searxng"}
    ActiveDelay = 1
    MinActiveDelay = 1
    BackoffMaxSleep = 2
    PassiveInterval = 3
    HardFactor = 2
    FirstCrawlBudget = 1
    Sources = {1, 2}
    Broken = {1}
    MaxBackoff = 4
    MaxCooldown = 2
    MaxSkip = 1
    MaxRestarts = 1
INVARIANTS
    NoBusyLoop
PROPERTIES
    PassiveRecurs
    SearchGoesOn
    NewSourcesCrawled
