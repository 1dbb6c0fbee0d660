\* Two homings in a row with one micro-controller; responses get lost until
\* a query fails.
\* Time ends at MaxTime, and a homing that waits then waits for ever.
SPECIFICATION FairSpec
CONSTANTS
  Mcus = {main}
  Main = main
  Steppers = {main}
  ReportTicks = 1
  ExpireTicks = 2
  MinExtend = 1
  Lead = 0
  MoveTicks = 1
  Retries = 1
  MaxRound = 2
  MaxPull = 2
  MaxTime = 2
  MaxLost = 2
INVARIANTS
  NothingLeftOver
PROPERTIES
  HomeWaitWoken
CHECK_DEADLOCK FALSE
