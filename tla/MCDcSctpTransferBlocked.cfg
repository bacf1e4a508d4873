CONSTANTS
  Streams = {1, 2}
  Messages <- MCMessages
  Workloads <- OtherStreamReset
  NoLimit = 9
  NackThreshold = 2
  MaxRetransmissions = 1
  MaxBurst = 2
  NoReq = NoReq
  MaxLosses = 0
  MaxReqs = 2
SPECIFICATION Spec
INVARIANT AckedIsDelivered

CHECK_DEADLOCK FALSE
