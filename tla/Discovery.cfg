SPECIFICATION FairSpec
CONSTANTS
  p1 = p1
  x1 = x1
  Presence = {p1}
  Xdm = {x1}
  Version <- AllOne
  ClientVersions = {1, 2}
  FreshFor = 3
  PoolPeriod = 3
  MaxFaults = 1
  MaxCrashes = 1
INVARIANTS
  OfferIsRecent
  OfferNeedsMessageServer
PROPERTIES
  RouterLearns
  OfferRecovers
