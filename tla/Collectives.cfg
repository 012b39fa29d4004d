SPECIFICATION FairSpec
CHECK_DEADLOCK FALSE
CONSTANTS
  N = 4
  Programs <- AllPrograms
  root = 1
  iter = 2
INVARIANT RoundsConsistent
PROPERTY Completes
