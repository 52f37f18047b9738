CONSTANTS
  MaxDims = 9
  Vals = {0, 1}
SPECIFICATION Spec
INVARIANTS
  KernelMatchesReference
CHECK_DEADLOCK FALSE
