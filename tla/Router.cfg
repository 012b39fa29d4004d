SPECIFICATION Spec
CHECK_DEADLOCK FALSE
CONSTANTS
  Node <- Five
  Types <- RouterTypes
  Graphs <- SomeGraphs
  NoNode = NoNode
  MAX_DIJKSTRA_DIST = 9
  MAX_DIJKSTRA_WIDTH = 100
INVARIANTS SearchesConsistent ForestLevels UpDownLevels TreeLevels TablesCorrect AcyclicRoutes
PROPERTY RouterEnds
