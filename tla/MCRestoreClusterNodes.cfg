SPECIFICATION Spec
CONSTANTS
  old = old
  new = new
  m = m
  w = w
  Hosts = {old, new, m, w}
  Files <- MCFiles
  Options <- MCOptions
  MaxGen = 2
INVARIANTS NodesAsGiven
