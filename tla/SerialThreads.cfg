\* Two command queues, two threads that send.
CONSTANTS
  q1 = q1
  q2 = q2
  CQ = {q1, q2}
  MaxPending = 1
  BlockCap = 2
  ReqDelta = 1
  ClockHalf = 2
  MAX_CLOCK = 1000
  BACKGROUND_PRIORITY_CLOCK = 999
  Senders = {"main", "fast"}
  PollCap = 2
  PipeCap = 1
  Scenarios <- SmallScenarios
SPECIFICATION FairSpec
INVARIANTS
  InDueTime
  CompletedOnce
PROPERTIES
  ImplementsMailboxes
  NoLostKick
  NobodyWaitsForEver
CHECK_DEADLOCK FALSE
