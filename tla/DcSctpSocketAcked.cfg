SPECIFICATION Spec
CONSTANTS
  NoTcb = NoTcb
  NoCookie = NoCookie
  NoData = NoData
  NoMsg = NoMsg
  NoInfo = NoInfo
  MaxInitRetransmits = 1
  MaxRetransmissions = 1
  Heartbeats = FALSE
  TsnJump = 5
  MaxMessages = 2
  MaxDraws = 3
  MaxNet = 2
  MaxCalls = 2
  Callers = {0, 1}
  Senders = {0}
CHECK_DEADLOCK FALSE
INVARIANT AckedIsDelivered
