SPECIFICATION FairSpec
CONSTANTS
    Term = {t1, t2}
    Categories = {t1}
    MaxRulings = 3
    MaxFaults = 1
INVARIANTS
    OnlyAuditedSearched
PROPERTIES
    RejectedStaysOut
    AuditReachesGrid
