SPECIFICATION Spec
CONSTANTS
  THREAD_NUM = 1
  AREA_NUM = 1
  Class = {0,2}
  LargeSize = {}
  SegPages = 3
  MaxSegs = 1
  LARGE_BLOCK_NUM = 4
  PageUnits = 3
  PAGE_FROM_POOL_NUM = 0
  FIXED_THRESHOLD = 1
  RemoteFree = FALSE
  MaxCalls = 9
CHECK_DEADLOCK FALSE
CONSTRAINT NotYetStrayed
INVARIANTS
  NoOverlapUnlessStray
  HeaderDescribesBlocksUnlessStray
  OnePlaceUnlessStray
