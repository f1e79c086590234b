SPECIFICATION Spec
CONSTANTS
    g1 = g1
    g2 = g2
    g3 = g3
    n1 = n1
    n2 = n2
    Guards = {g1, g2, g3}
    NodeOf <- MCNodeOf
    NoNode = NoNode
    MaxTerms = 3
    MaxQueue = 1
INVARIANTS
    EpochCountsEnds
    EndsWithinTerms
PROPERTIES
    DisplacedOnlyByRace
    EndedByOwner
    TermEnds
CHECK_DEADLOCK FALSE
