SPECIFICATION CallSpec
CONSTANTS
  Rates = {1, 2}
  NoRate = NoRate
  Media = {audio, video}
  MaxStreams = 1
  MaxPosted = 2
INVARIANTS
  CallTypeOK
  ControllerHasHandler
  PausedWithoutNetwork
  IdleWithoutMedia
  ObserverUpToDate
PROPERTIES
  EncoderResumes
  AvailabilityConverges
