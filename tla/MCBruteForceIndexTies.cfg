CONSTANTS
  Points <- MCPoints
  BadVec = BadVec
  Ks = {0, 1, 2, 4}
  Batches <- MCBatches
  MaxVectors = 4
  Lanes = 4
SPECIFICATION Spec
INVARIANT
  TiesByAscendingId
