SPECIFICATION CallSpec
CONSTANTS
  Rates = {1}
  NoRate = NoRate
  Media = {audio}
  MaxStreams = 1
  MaxPosted = 1
INVARIANT TasksHaveController
