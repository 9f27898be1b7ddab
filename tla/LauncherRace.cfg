SPECIFICATION FairSpec
CONSTANTS
  Main = Main
  Mon = Mon
  Subs = {s1}
  Sigs = {TERM}
  Term = TERM
  QCap = 1
  Faults = {}
CHECK_DEADLOCK FALSE
PROPERTIES MainDeathEndsGroup
