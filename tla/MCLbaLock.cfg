CONSTANTS
  Jobs = {j1, j2}
  W = 2
  NLbas = 5
  IoSizes = {1, 2, 4}
  IoDepth = 2
SPECIFICATION Spec
SYMMETRY Symmetry
INVARIANTS TypeOK NoSharedLba BitmapExact
PROPERTY AtomicRangeLock
