\* Commands that arrive in time, and some that are late.
CONSTANTS
  t1 = t1
  t2 = t2
  Timers = {t1, t2}
  W = 14
  Period = 2
  Horizon = 2
  MaxPast = 1
  Latency = 1
  PastLimit = 1
SPECIFICATION Spec
INVARIANTS
  TimerListInv
PROPERTIES
  CalledOnTime
SYMMETRY TimerSymmetry
CHECK_DEADLOCK FALSE
