SPECIFICATION Spec
CONSTANTS
    Local = {l1}
    Remote = {r1, r2}
    MaxExpect = 2
INVARIANTS DistinctVersions ReadAfterAnswer ValueOfVersionStays
PROPERTY CallsEnd
