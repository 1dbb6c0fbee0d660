SPECIFICATION Spec
CONSTANTS
  CycleTime = 3
  MaxDuration = 9
  DefaultOn = FALSE
  Slots = 1
  HeadWait = 2
  TooCloseMax = 1
  ReportTime = 2
  KeepTime = 4
  Significant = 2
  ConnectDelay = 1
  RestartTime = 2
  Changes = 2
  LatePowers = {1, 3}
  Horizon = 16
INVARIANTS
  PinInv
  OffAfterSilence
  NoSpuriousShutdown
  OffWhenUnwanted
CHECK_DEADLOCK FALSE
