SPECIFICATION FairSpec
CONSTANTS
  Stops = {s1, s2}
  TimerSeconds = 3
  MaxTime = 5
CHECK_DEADLOCK FALSE
INVARIANTS ClockIInv Attached EveryTick DeadlineKept OnlyTickersLinger
PROPERTIES TestGoesOn StopReturns
