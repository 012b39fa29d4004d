SPECIFICATION Spec
CHECK_DEADLOCK FALSE
CONSTANTS
  Node <- UpDownNode
  Link <- UpDownLink
  Stream <- UpDownStream
  Src <- UpDownSrc
  Dst <- UpDownDst
  Route <- UpDownRoute
  NChunks <- UpDownChunks
  LIMIT = 1
  WireCap = 1
  NCtrl <- UpDownCtrl
  Ctrl = Ctrl
  NULL = NULL
INVARIANTS NoDeadlock
PROPERTIES ImplementsStreams
