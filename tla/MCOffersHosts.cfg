SPECIFICATION Spec
CONSTANTS
  None = None
  shop = shop
  sub = sub
  cat = cat
  dealPage = dealPage
  apex = apex
  catPage = catPage
  t1 = t1
  ten = ten
  MaxOffers = 3
  Source <- Empty
  Host <- MCHost
  Under <- MCUnder
  Payload <- MCPayload
  HubPair <- MCHub
  DeepPage <- MCDeep
  SimNum = 3
  SimDen = 5
  StaleAge = 0
  Sighting <- MCSighting
  AdminEntry <- Empty
  BlockableHost <- MCBlockable
  DirectoryHost <- MCDirectory
  HostOf <- MCHostOf
  Address <- Empty
  Origin <- Empty
INVARIANTS
  DirectoryQueueSwept
PROPERTIES
  BadSourceAddsNothing
  LearnedBlockSparesLive
CHECK_DEADLOCK FALSE
