SPECIFICATION Spec
CONSTANTS
  Chunk = {c1, c2, c3, c4, c5, c6}
  InitSize = 1
  MaxWear = 2
  memory_wear_limit <- ScaledLimits
  FreedBits = {0, 1, 30, 31, 32, 33, 62, 63}
INVARIANTS
  ScanFindsLowest
  TriedByPriority
  SmallestClass
  HoldsQueued
PROPERTY LeastWornFirst
CHECK_DEADLOCK FALSE
