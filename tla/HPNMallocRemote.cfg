SPECIFICATION Spec
CONSTANTS
  THREAD_NUM = 2
  AREA_NUM = 1
  Class = {0}
  LargeSize = {}
  SegPages = 4
  MaxSegs = 2
  LARGE_BLOCK_NUM = 3
  PageUnits = 2
  PAGE_FROM_POOL_NUM = 1
  FIXED_THRESHOLD = 10
  RemoteFree = TRUE
  MaxCalls = 3
CHECK_DEADLOCK FALSE
CONSTRAINT RemoteStaysCached
INVARIANT NoOverlap
