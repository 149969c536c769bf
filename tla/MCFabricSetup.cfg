SPECIFICATION Spec
CONSTANTS
  a = a
  b = b
  c = c
  Nodes = {a, b, c}
  CidrAddr = 16
  CidrSize = 8
  Commands <- MCCommands
  MaxRuns = 2
INVARIANTS TypeOK PlanRight TargetsMeshed
PROPERTIES RestartsLast
CHECK_DEADLOCK FALSE
