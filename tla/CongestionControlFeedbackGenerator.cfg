SPECIFICATION GeneratorSpec
CONSTANTS
  Nullopt = Nullopt
  Ssrcs = {s1}
  MaxPacketsPerSsrc = 2
  Ecns = {"Ect1", "Ce"}
  MinDelta = 1
  MaxWait = 1
  MaxDelta = 3
  MaxFeedbackRate = 5
  MaxLag = 1
  MaxSeq = 3
  MaxClock = 5
INVARIANTS
  GeneratorTypeOK
  PendingHasDeadline
  FeedbackDelayBounded
  FeedbackRateBounded
  PendingAboveLast
  ReportMatchesPending
  ReportComplete
PROPERTY FeedbackSpaced
