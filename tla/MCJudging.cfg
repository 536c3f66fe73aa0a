SPECIFICATION FairSpec
CONSTANTS
    Page = {p1, p2}
    Text = {"promo", "song"}
    Junk = {"song"}
    Budget = 2
    MaxFaults = 2
    MaxRulings = 2
    MaxEdits = 2
INVARIANTS
    RestoredStays
PROPERTIES
    ModerationKept
    BreakerHeals
    JunkLeavesQueue
