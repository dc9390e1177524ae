SPECIFICATION MCSpec
CONSTANTS
  MaxSeqNo = 7
  SeqNoTH = 4
  NData = 2
  ISN = 7
  SndBufSize = 2
  RcvBufSize = 3
  FlowWindow = 2
  ExpLimit = 3
  MaxLoss = 1
  MaxEarly = 0
  MaxNet = 2
INVARIANTS BuffersInStep
PROPERTIES ImplementsReliableStream AllDelivered GoneNoticed Meet
CHECK_DEADLOCK FALSE
