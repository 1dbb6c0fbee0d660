\* The receive window, before anything is retransmitted.
CONSTANTS
  SeqMod = 4
  MaxPending = 3
  MsgMax = 2
  Lens = {1, 2}
  RcvWindow = 4
  ProbeMax = 1
  TxQueueLen = 3
  TransmitCap = 2
  MaxSeq = 5
  Notify = {TRUE, FALSE}
  MaxFaults = 0
SPECIFICATION FirstTransmission
INVARIANTS
  NoReceiveOverflow
CHECK_DEADLOCK FALSE
