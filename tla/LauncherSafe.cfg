SPECIFICATION Spec
CONSTANTS
  Main = Main
  Mon = Mon
  Subs = {s1}
  Sigs = {TERM, POLL}
  Term = TERM
  QCap = 2
  Faults = {"start", "kill", "reuse"}
CHECK_DEADLOCK FALSE
INVARIANTS IInv NoLeakOnError NoFriendlyFire CleanUpComplete
PROPERTIES ForwardedToAll ImplementsGroup
