SPECIFICATION Spec
CONSTANTS
  Stops = {s1}
  TimerSeconds = 3
  MaxTime = 5
CHECK_DEADLOCK FALSE
INVARIANTS StoppedIsRemoved
