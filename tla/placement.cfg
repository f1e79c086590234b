SPECIFICATION PoolSpec
CONSTANTS
    Allocs = {a1, a2}
    Frees = {f1, f2}
    Sizes = {1, 2}
    pool_usable = 4
    MaxRegions = 3
INVARIANTS
    RegionsDisjoint
    RefusedOnlyWhenFull
    FreedIsGone
CHECK_DEADLOCK FALSE
