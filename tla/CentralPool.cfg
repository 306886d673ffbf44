SPECIFICATION Spec
CONSTANTS
  AREA_NUM = 1
  TheArea = 0
  SegPages = 3
  MaxSegs = 2
  LARGE_BLOCK_NUM = 4
  PageUnits = 2
  FIXED_THRESHOLD = 1
  MaxWear = 1
INVARIANTS
  TypeOK
  PagesPartitioned
  ListsIndexed
  IndexOnItsList
  PoolWearBounded
  LookupFindsHeader
PROPERTY ImplementsPageExtents
