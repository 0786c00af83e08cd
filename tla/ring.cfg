SPECIFICATION FairSpec
CONSTANTS
  Reader = {a, b}
  Slot = {s1, s2}
  None = none
  Cap = 2
  MaxBatch = 2
  MaxSeq = 3
INVARIANTS CopyIsWhole
PROPERTIES ImplementsLog AllSent
CHECK_DEADLOCK FALSE
