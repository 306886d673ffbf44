SPECIFICATION FairSpec
CONSTANTS
  THREAD_NUM = 2
  AREA_NUM = 2
  Class = {0}
  LargeSize = {}
  SegPages = 4
  MaxSegs = 2
  LARGE_BLOCK_NUM = 3
  PageUnits = 2
  PAGE_FROM_POOL_NUM = 0
  FIXED_THRESHOLD = 2
  RemoteFree = FALSE
  MaxCalls = 3
CHECK_DEADLOCK FALSE
INVARIANT HeaderDescribesBlocks
PROPERTY CallsReturn
