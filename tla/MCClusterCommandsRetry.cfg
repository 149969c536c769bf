SPECIFICATION Spec
CONSTANTS
  p = p
  m1 = m1
  m2 = m2
  w = w
  x = x
  Nodes = {p, m1, m2, w, x}
  a = a
  b = b
  Machines = {a, b}
  Majors = {1, 2}
  Configs <- MCSingle
  Rank <- MCRank
  Asked <- MCAsked
  Tried <- MCRetried
  MaxStamp = 3
INVARIANTS AddNodeAdds
CHECK_DEADLOCK FALSE
