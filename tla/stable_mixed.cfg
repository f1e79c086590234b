SPECIFICATION StableSpec
CONSTANTS
  a = a
  b = b
  Nodes = {a, b}
  WindowSize = 3
  MaxRetries = 1
  AckEvery = 2
  DupAckThreshold = 3
  RecordCap = 3
  CacheCap = 2
  InfThreshold = 100
  InitialCredits = 2
  RtoTask = TRUE
  ChannelMayFill = TRUE
  MaxSends <- OneWay2
  MaxDups = 0
  MaxLosses = 0
  Verbs = {"Write", "AtomicFaa"}
  Refusals = TRUE
  MaxEpochs = 1
INVARIANTS
  AtMostOnce
  DroppedOnlyIfReceived
  RequestKeptUntilAnswered
  AnswersTheCall
  OkMeansExecuted
PROPERTIES
  ImplementsVerbService
CHECK_DEADLOCK FALSE
