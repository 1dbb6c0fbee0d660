\* Safety, the inductive invariant and the refinement, with full queues,
\* retransmission, shutdown and a fault of the wire.
CONSTANTS
  SeqMod = 3
  MaxPending = 2
  MsgMax = 1
  Lens = {1}
  RcvWindow = 3
  ProbeMax = 1
  TxQueueLen = 1
  TransmitCap = 1
  MaxSeq = 3
  Notify = {TRUE}
  MaxFaults = 1
SPECIFICATION Spec
INVARIANTS
  TypeOK
  ExactlyOnceInOrder
  AckSound
  SentQueueComplete
  TimerArmed
  IInv
PROPERTIES
  NotifiedAfterResponses
  ImplementsCommandStream
CHECK_DEADLOCK FALSE
