\* Commands that may arrive late.
CONSTANTS
  t1 = t1
  t2 = t2
  Timers = {t1, t2}
  W = 12
  Period = 2
  Horizon = 2
  MaxPast = 1
  Latency = 0
  PastLimit = 0
SPECIFICATION Spec
INVARIANTS
  SentinelStopsSearch
CHECK_DEADLOCK FALSE
