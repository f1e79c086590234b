SPECIFICATION Spec
CONSTANTS
    Radix = 3
    Cuts = {3, 12}
    Cap = 1
    Window = 55
    MaxLen = 50
    mr_table <- MCRegions
    Messages <- MCMessages
    MaxSays = 1
INVARIANTS ReadsWhatWasSent FramesStandAlone
PROPERTIES ExchangeCompletes EndsWithPeer
CHECK_DEADLOCK FALSE
