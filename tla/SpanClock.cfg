SPECIFICATION Spec
CONSTANTS
  Total = 4
  FIXED_THRESHOLD = 2
  MaxWear = 5
INVARIANTS
  TypeOK
  BlocksAccounted
  RecycledIffEmpty
  WearCountsEveryPass
  IInv
