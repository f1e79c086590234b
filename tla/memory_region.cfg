SPECIFICATION Spec
CONSTANTS Tasks = {t1}
 Callers = {d1, d2}
 MaxRegions = 1
 Conns = {c1, c2}
 NoConn = NoConn
 MaxHellos = 2
CHECK_DEADLOCK FALSE
INVARIANTS WaitsForAccess OneDeregistration EarlyAccessesDone NoRegionMissed
SYMMETRY Symmetry
