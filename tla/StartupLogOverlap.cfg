SPECIFICATION Spec
CONSTANTS
  Limit = 2
  Invs = {i1, i2}
  MaxLogs = 5
  MaxLen = 0
SYMMETRY Symmetry
INVARIANTS LogsInOrder
