SPECIFICATION Spec
CHECK_DEADLOCK FALSE
CONSTANTS
  Opened = {"o"}
  Accepted = {"i"}
  Thread = {"t"}
  LIMIT = 1
  Inputs = 3
  Chunks = 2
  Faults = {"read", "write", "connect"}
  PIPE = PIPE
  LSOCK = LSOCK
  LCHAN = LCHAN
INVARIANT WaitersAlive
