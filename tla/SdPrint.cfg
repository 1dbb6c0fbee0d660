\* Two clients, a file with a pause in it.
CONSTANTS
  c1 = c1
  c2 = c2
  Clients = {c1, c2}
  Requests = {"start", "recover", "pause", "resume", "cancel", "reset", "heat"}
  MaxRequests = 4
  Lines <- SmallFile
  Chunk = 3
  Pose = 2
SPECIFICATION FairSpec
INVARIANTS
  StatusIsTrue
  LinesInOrder
  MovesCarriedOut
PROPERTIES
  NoLineAfterCancel
  NoColdLine
  RequestsAnswered
CHECK_DEADLOCK FALSE
