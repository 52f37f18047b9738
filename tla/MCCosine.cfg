CONSTANTS
  MaxDims = 9
  Vals = {0, 1}
  LaneWidths = {1, 4, 8}
SPECIFICATION Spec
INVARIANTS
  CosineMatchesReference
CHECK_DEADLOCK FALSE
