SPECIFICATION Spec
CONSTANTS
  Regions = {r1}
  Readers = {t1, t2}
  Invalidators = {i1}
  max_bytes = 1
  pool_len = 3
  MaxWrites = 1
  MaxTerms = 1
  MaxOwn = 1
INVARIANTS FreshAfterInvalidate UsedCoversEntries
CHECK_DEADLOCK FALSE
SYMMETRY Symmetry
