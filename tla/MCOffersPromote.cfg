SPECIFICATION Spec
CONSTANTS
  None = None
  shop = shop
  dealPage = dealPage
  s1 = s1
  s2 = s2
  origin = origin
  inner = inner
  ten = ten
  twenty = twenty
  MaxOffers = 2
  Source <- MCSource
  Host <- MCHost
  Under <- MCUnder
  Payload <- MCPayload
  HubPair <- Empty
  DeepPage <- MCDeep
  SimNum = 3
  SimDen = 5
  StaleAge = 1
  Sighting <- MCSighting
  AdminEntry <- MCEntry
  BlockableHost <- Empty
  DirectoryHost <- Empty
  HostOf <- MCHostOf
  Address <- MCAddress
  Origin <- MCOrigin
INVARIANTS
  LiveIsApproved
  JudgeMarkMeansRejected
  OnlyExpiredCollides
PROPERTIES
  SightingKeepsLiveFresh
  OneActiveSourceByCreation
CHECK_DEADLOCK FALSE
