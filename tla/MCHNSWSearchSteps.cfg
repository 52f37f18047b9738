CONSTANTS
  Data <- MCData
  Queries <- MCQueries
  EfArgs = {0, 1, 2, 3}
  PointDist <- MCPointDist
SPECIFICATION Spec
INVARIANTS
  TypeOK
  WKeepsNearestVisited
  EfZeroActsAsOne
PROPERTIES
  Terminates
\* search_layer returns: the final state has no successor.
CHECK_DEADLOCK FALSE
