SPECIFICATION Spec
CONSTANTS
  keystone = keystone
  region = region
  glance = glance
  Services = {keystone, region}
  Versions = {1, 2, 3}
  WaitOrder <- MCWaitTwo
  TagMatches <- MCCandidate
  MaxPolls = 1
  MaxRuns = 2
INVARIANTS WaitedUpgraded
