SPECIFICATION Spec
CONSTANTS
  Limit = 2
  Invs = {i1}
  MaxLogs = 5
  MaxLen = 1
SYMMETRY Symmetry
INVARIANT RotationIInv
PROPERTIES OnlyOldestLost OldLogsKept
