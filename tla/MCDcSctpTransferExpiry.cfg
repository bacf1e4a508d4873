CONSTANTS
  Streams = {1}
  Messages <- MCMessages
  Workloads <- FragmentsExpire
  NoLimit = 9
  NackThreshold = 2
  MaxRetransmissions = 1
  MaxBurst = 2
  NoReq = NoReq
  MaxLosses = 0
  MaxReqs = 2
SPECIFICATION FairSpec

PROPERTY LifecycleEnds
CHECK_DEADLOCK FALSE
