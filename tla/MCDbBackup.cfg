SPECIFICATION Spec
CONSTANTS
  MaxBkup = 1
  Runs = 3
INVARIANTS TypeOK NewestKept RotationBounds LeftoversCounted NothingHollow
CHECK_DEADLOCK FALSE
