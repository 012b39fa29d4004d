SPECIFICATION Spec
CHECK_DEADLOCK FALSE
CONSTANTS
  p1 = p1
  p2 = p2
  p3 = p3
  Thread <- MCThread
  NChunks <- MCNChunks
  LIMIT = 2
INVARIANTS TokensMatch NoLostWakeup QueueBound
PROPERTIES WaitersProceed ImplementsStreams
