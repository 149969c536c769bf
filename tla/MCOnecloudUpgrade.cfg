SPECIFICATION FairSpec
CONSTANTS
  keystone = keystone
  region = region
  glance = glance
  Services = {keystone, region, glance}
  Versions = {1, 2}
  WaitOrder <- MCWaitTwo
  TagMatches <- MCExact
  MaxPolls = 1
  MaxRuns = 2
INVARIANTS TypeOK OperatorNotOlder WaitedUpgraded
PROPERTIES PromiseKept RunEnds SuccessSettles
