SPECIFICATION Spec
CONSTANTS
  None = None
  s1 = s1
  h1 = h1
  a1 = a1
  ten = ten
  twenty = twenty
  MaxOffers = 3
  Source <- MCSource
  Host <- MCHost
  Under <- MCUnder
  Payload <- MCPayload
  HubPair <- Empty
  DeepPage <- MCDeep
  SimNum = 3
  SimDen = 5
  StaleAge = 0
  Sighting <- MCSighting
  AdminEntry <- Empty
  BlockableHost <- Empty
  DirectoryHost <- Empty
  HostOf <- MCHostOf
  Address <- MCDeep
  Origin <- MCDeep
INVARIANTS
  SupersedeAcyclic
  ShadowShape
  OneFreshShadow
PROPERTIES
  RejectedStaysFinal
CHECK_DEADLOCK FALSE
