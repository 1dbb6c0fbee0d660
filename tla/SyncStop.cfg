\* Two micro-controllers: the tool board has the endstop, the main board the
\* steppers.  Reports and extensions are delayed at will, or are prompt.
\* Time ends at a bound, and a homing that waits then waits for ever.
SPECIFICATION Spec
CONSTANTS
  Mcus = {main, tool}
  Main = tool
  Steppers = {main}
  ReportTicks = 1
  ExpireTicks = 2
  MinExtend = 1
  FirstReport = {1}
  MaxTime = 10
  LateTime = 3
  MaxLost = 0
  MaxFlight = 2
INVARIANTS
  TimeoutsInv
  StopsTogether
  NoSpuriousTimeout
CHECK_DEADLOCK FALSE
