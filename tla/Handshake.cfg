SPECIFICATION Spec
CHECK_DEADLOCK FALSE
CONSTANTS
  Node <- StarNode
  Conn <- StarConn
  Faults = {"refuse", "reset"}
  NULL = NULL
  UNKNOWN = UNKNOWN
  GARBAGE = GARBAGE
INVARIANTS ConnectionsConsistent Agreement CleanFailure
PROPERTY ConnectReturnsUnlessReset
