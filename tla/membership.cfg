SPECIFICATION Spec
CONSTANTS
    Peers = {p1}
    fail_after = 1
    MaxEpoch = 2
    MaxTold = 1
    MaxDue = 1
PROPERTIES  GoneIsDown SuspicionEnds
