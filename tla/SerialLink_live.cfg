\* Liveness; a full CAN transmit queue is what loses blocks.
CONSTANTS
  SeqMod = 3
  MaxPending = 2
  MsgMax = 1
  Lens = {1}
  RcvWindow = 3
  ProbeMax = 1
  TxQueueLen = 1
  TransmitCap = 1
  MaxSeq = 2
  Notify = {TRUE}
  MaxFaults = 0
SPECIFICATION FairSpec
PROPERTIES
  EventuallyAcknowledged
CHECK_DEADLOCK FALSE
