SPECIFICATION Spec
CONSTANTS
  WindowSize = 6
  WordBits = 3
  Words = 2
  MaxSeq = 14
INVARIANTS
  BitsAgree
