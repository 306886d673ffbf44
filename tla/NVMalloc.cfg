SPECIFICATION Spec
CONSTANTS
  NR_SIZES = 1
  MaxSize = 3
  InitCells = 2
  NEW_ALLOC_PAGES = 2
  MaxCells = 6
  MaxHints = 2
  Wait = 1
  MmapMayFail = TRUE
INVARIANTS
  TypeOK
  BlocksAccounted
  RegionsTiled
  RegionsHinted
PROPERTIES
  RestsBeforeReuse
  ImplementsBlockAllocator
CHECK_DEADLOCK FALSE
