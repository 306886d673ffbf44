SPECIFICATION Spec
CONSTANTS
  AREA_NUM = 1
  SegPages = 3
  MaxSegs = 2
  LARGE_BLOCK_NUM = 3
  PageUnits = 1
  FIXED_THRESHOLD = 1
  MaxWear = 2
INVARIANT WornLast
