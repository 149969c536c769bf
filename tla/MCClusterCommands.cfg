SPECIFICATION Spec
CONSTANTS
  p = p
  m1 = m1
  m2 = m2
  w = w
  x = x
  Nodes = {p, m1, m2, w, x}
  a = a
  b = b
  Machines = {a, b}
  Majors = {1, 2}
  Configs <- MCConfigs
  Rank <- MCRank
  Asked <- MCAsked
  Tried <- MCTried
  MaxStamp = 3
SYMMETRY Symmetric
INVARIANTS TypeOK NoneBehind SuccessMeansUpgraded SuccessMeansJoined NodesOutsideNetworks
PROPERTIES SamePrimary
CHECK_DEADLOCK FALSE
