SPECIFICATION Spec
CHECK_DEADLOCK FALSE
CONSTANTS
  Node <- PairNode
  Conn <- PairConn
  Faults = {"reset"}
  NULL = NULL
  UNKNOWN = UNKNOWN
  GARBAGE = GARBAGE
PROPERTIES ConnectReturns
