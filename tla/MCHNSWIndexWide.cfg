\* M = 2: the caps differ (4 at layer 0, 2 above); levels 0..2: a two-layer
\* descent and promotion across two layers.
\* AllocFails = TRUE: the graph invariants must also survive an add that
\* throws after appending its vector to the arena.
CONSTANTS
  Points <- MCPoints
  BadVec = BadVec
  M = 2
  EfConstruction = 2
  EfValues = {0, 1}
  Ks = {0, 1, 2}
  MaxLevel = 2
  MaxDraws = 4
  Batches <- MCBatches
  PointDist <- MCPointDist
  AllocFails = TRUE
SPECIFICATION Spec
INVARIANTS
  WellFormedAdjacency
  EntryPointIsTop
  DegreeBound
VIEW GraphShapeView
