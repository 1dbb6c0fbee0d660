\* One homing with two micro-controllers; one response may get lost.
\* Time ends at MaxTime, and a homing that waits then waits for ever.
SPECIFICATION Spec
CONSTANTS
  Mcus = {main, tool}
  Main = tool
  Steppers = {main}
  ReportTicks = 1
  ExpireTicks = 1
  MinExtend = 1
  Lead = 0
  MoveTicks = 1
  Retries = 0
  MaxRound = 1
  MaxPull = 1
  MaxTime = 1
  MaxLost = 1
INVARIANTS
  HitIsSound
  QuietAfterHoming
CHECK_DEADLOCK FALSE
