CONSTANTS
  Streams = {1}
  Messages <- MCMessages
  Workloads <- Transfers
  NoLimit = 9
  NackThreshold = 1
  MaxRetransmissions = 1
  MaxBurst = 2
  NoReq = NoReq
  MaxLosses = 1
  MaxReqs = 2
SPECIFICATION FairSpec
INVARIANTS TsnsTracked AckedIsDelivered
PROPERTIES DeliversAsPromised LifecycleEnds
CHECK_DEADLOCK FALSE
