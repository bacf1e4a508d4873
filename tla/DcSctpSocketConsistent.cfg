SPECIFICATION Spec
CONSTANTS
  NoTcb = NoTcb
  NoCookie = NoCookie
  NoData = NoData
  NoMsg = NoMsg
  NoInfo = NoInfo
  MaxInitRetransmits = 1
  MaxRetransmissions = 1
  Heartbeats = TRUE
  TsnJump = 5
  MaxMessages = 1
  MaxDraws = 4
  MaxNet = 1
  MaxCalls = 3
  Callers = {0, 1}
  Senders = {0}
CHECK_DEADLOCK FALSE
INVARIANT IsConsistent
