SPECIFICATION QueueSpec
CONSTANTS
  Ssrcs = {s1, s2}
  RtpPackets <- MCRtpPackets
  PrioritizeAudioRetransmission = TRUE
  Ttl <- MCTtl
  Infinite = Infinite
  Timeout = 1
  MaxPushes = 3
  MaxClock = 3
SYMMETRY SsrcSymmetry
INVARIANTS
  SizesExact
  EnqueueTimesExact
  QueueTimeExact
  RoundRobinExact
  TopLevelExact
PROPERTY TakeTurns
