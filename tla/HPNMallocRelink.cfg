SPECIFICATION Spec
CONSTANTS
  THREAD_NUM = 1
  AREA_NUM = 1
  Class = {0, 2}
  LargeSize = {}
  SegPages = 6
  MaxSegs = 1
  LARGE_BLOCK_NUM = 5
  PageUnits = 3
  PAGE_FROM_POOL_NUM = 1
  FIXED_THRESHOLD = 10
  RemoteFree = FALSE
  MaxCalls = 9
CHECK_DEADLOCK FALSE
CONSTRAINT OneClassUntilStray
INVARIANT NoOverlap
