SPECIFICATION FairSpec
CONSTANTS
  Main = Main
  Mon = Mon
  Subs = {s1}
  Sigs = {TERM, POLL}
  Term = TERM
  QCap = 2
  Faults = {"start", "reuse"}
CHECK_DEADLOCK FALSE
PROPERTIES GroupDies SignalsForwarded
