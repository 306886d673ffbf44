SPECIFICATION Spec
CONSTANTS
  THREAD_NUM = 2
  AREA_NUM = 1
  Class = {0}
  LargeSize = {2}
  SegPages = 4
  MaxSegs = 3
  LARGE_BLOCK_NUM = 3
  PageUnits = 2
  PAGE_FROM_POOL_NUM = 1
  FIXED_THRESHOLD = 1
  RemoteFree = FALSE
  MaxCalls = 2
CHECK_DEADLOCK FALSE
INVARIANTS
  TypeOK
  NoOverlap
  HeaderDescribesBlocks
  OnePlace
PROPERTIES
  OthersUntouched
  PagesKept
  ImplementsBlockAllocator
