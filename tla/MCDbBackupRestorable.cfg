SPECIFICATION Spec
CONSTANTS
  MaxBkup = 1
  Runs = 2
PROPERTIES RestorableKept
CHECK_DEADLOCK FALSE
