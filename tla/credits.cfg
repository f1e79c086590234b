SPECIFICATION FairStableSpec
CONSTANTS
  a = a
  b = b
  Nodes = {a, b}
  WindowSize = 4
  MaxRetries = 2
  AckEvery = 3
  DupAckThreshold = 3
  RecordCap = 4
  CacheCap = 2
  InfThreshold = 100
  InitialCredits = 3
  RtoTask = FALSE
  ChannelMayFill = FALSE
  MaxSends <- OneWay6
  MaxDups = 1
  MaxLosses = 1
  Verbs = {"Write"}
  Refusals = FALSE
  MaxEpochs = 1
INVARIANTS
  CreditsNotLost
PROPERTIES
  CreditsReturn
CHECK_DEADLOCK FALSE
