SPECIFICATION Spec
CONSTANTS
    jfs_depth = 1
    jfr_depth = 2
    jfc_depth = 1
    jfc_high_watermark = 1
    Senders = {s1}
    MaxJettys = 2
    MaxBusy = 1
    MaxWork = 3
INVARIANTS
    AccountedOnce
    ReceivesInOrder
    FlushIsComplete
PROPERTIES
    WorkRefinement
CHECK_DEADLOCK FALSE
