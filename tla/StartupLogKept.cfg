SPECIFICATION Spec
CONSTANTS
  Limit = 2
  Invs = {i1}
  MaxLogs = 2
  MaxLen = 2
SYMMETRY Symmetry
PROPERTIES EntriesKept
