SPECIFICATION FairSpec
CONSTANTS
  Node <- Nodes
  Conn <- LineConn
  Sends <- LineSends
  Path <- LinePath
INVARIANTS TablesConsistent ChunksCanBeRouted FloodOnce
PROPERTY ExchangeEnds
