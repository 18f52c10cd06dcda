SPECIFICATION Spec
CONSTANTS
  Keys = {k1, k2, k3, k4}
  Vals = {v1, v2}
  Capacity = 2
  MaxBackup = 3
  MaxPending = 2
INVARIANTS IndexExact
PROPERTIES ImplementsRecency
