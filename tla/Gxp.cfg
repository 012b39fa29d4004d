SPECIFICATION FairSpec
CHECK_DEADLOCK FALSE
CONSTANTS
  gxp_num_execs = 3
  Node <- Three
  Cluster <- Parity
  ngates = 1
  Dense = TRUE
  Dist <- Near
  alpha = 1
  Settings <- SomeSettings
INVARIANTS SetupConsistent TablesAgree InStep OverlayConnected
PROPERTY Finishes
