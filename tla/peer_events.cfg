SPECIFICATION Spec
CONSTANTS
  a = a
  b = b
  Nodes = {a, b}
  WindowSize = 3
  MaxRetries = 1
  AckEvery = 2
  DupAckThreshold = 3
  RecordCap = 4
  CacheCap = 2
  InfThreshold = 100
  InitialCredits = 2
  RtoTask = FALSE
  ChannelMayFill = TRUE
  MaxSends <- OneWay1
  MaxDups = 0
  MaxLosses = 0
  Verbs = {"Write", "Send", "ReadReq", "AtomicFaa"}
  Refusals = TRUE
  MaxEpochs = 2
INVARIANTS
  WaitingIsTracked
  PendingIsOpen
CHECK_DEADLOCK FALSE
