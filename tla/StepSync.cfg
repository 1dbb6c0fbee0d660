SPECIFICATION Spec
CONSTANTS
  W = 6
  Bias = 16
  MoveCount = 3
  Pulse = 1
  Transit = 2
  MaxPast = 1
  TooCloseMax = 2
  ClockDiffMax = 5
  SdsFilter = 2
  Forever = 10000
  Horizon = 9
  Scenarios <- SmallScenarios
INVARIANTS
  PoolInv
  PositionIsTheMotors
  NoFaultOnTime
  PositionsAgree
  PastPositionIsTrue
PROPERTIES
  StandsStill
CHECK_DEADLOCK FALSE
