SPECIFICATION SafeSpec
CHECK_DEADLOCK FALSE
CONSTANTS
  Node <- RingNode
  Link <- RingLink
  Stream <- RingStream
  Src <- RingSrc
  Dst <- RingDst
  Route <- RingRoute
  NChunks <- RingChunks
  LIMIT = 1
  WireCap = 1
  NCtrl <- RingCtrl
  Ctrl = Ctrl
  NULL = NULL
INVARIANTS IInv QueueBound ExactlyOnce StuckOnlyOnCycle
PROPERTY ImplementsSafeStreams
