SPECIFICATION Spec
CONSTANTS
  Thread = {t1, t2}
  Size <- TwoClasses
  CHUNK_DATA_SIZE = 2
  Header = 1
  APPLY_PHY_MEMORY = 7
  hardware_mc <- TwoAreas
  PoolGap = 22
  WEAR_LIMIT = 2
  MaxLive = 2
INVARIANTS
  TypeOK
  CountsAgree
  PlaceTellsState
  ChunksInPools
  OnlyUndersizedOverlap
CHECK_DEADLOCK FALSE
