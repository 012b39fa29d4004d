SPECIFICATION FairSpec
CHECK_DEADLOCK FALSE
CONSTANTS
  Opened = {"o"}
  Accepted = {"i"}
  Thread = {"t"}
  LIMIT = 1
  Inputs = 1
  Chunks = 3
  Faults = {"read", "write", "connect"}
  PIPE = PIPE
  LSOCK = LSOCK
  LCHAN = LCHAN
INVARIANTS LoopConsistent CacheServes
PROPERTY StopReturns
