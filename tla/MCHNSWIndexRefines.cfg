CONSTANTS
  Points <- MCPoints
  BadVec = BadVec
  M = 1
  EfConstruction = 2
  EfValues = {0, 1}
  Ks = {0, 1, 2}
  MaxLevel = 1
  MaxDraws = 4
  Batches <- MCBatches
  PointDist <- MCPointDist
  AllocFails = FALSE
SPECIFICATION Spec
PROPERTY
  ImplementsVectorStore
