SPECIFICATION Spec
CONSTANTS
  Keys = {k1, k2, k3}
  Vals = {v1}
  Sizes = {2}
  MaxBusy = 1
  MaxOverlaps = 1
  MaxPending = 2
  MaxLines = 2
SYMMETRY KeySymmetry
INVARIANTS UpdatedFromBase
