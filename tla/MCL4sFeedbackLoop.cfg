SPECIFICATION LoopSpec
CONSTANTS
  Keys = {1, 2, 3}
  Paths = {wifi, cell}
  NoPath = NoPath
  PacketIds <- MCPacketIds
  MaxSize = 1
  HistoryWindow = 0
  Ecns = {"NotEct", "Ect1"}
  Formats = {"ccfb"}
  MaxPackets = 3
  MaxClock = 1
  MaxReport = 2
  MaxPacketsPerSsrc = 2
  NoSeq = NoSeq
  Resends = TRUE
  MaxEvents = 4
  MaxRtcp = 2
INVARIANTS
  TypeOK
  RtpMapSound
  ReportedPacketsForgotten
  RtpMapComplete
  FeedbackConsistent
  InFlightExact
  ReceivedIsTrue
  ProbeAnswered
CHECK_DEADLOCK FALSE
