CONSTANTS
  NumberOfBlocks = 3
  ReserveBlocks = 2
  PagesPerBlock = 2
  CacheSize = 0
  MappingPerPage = 1
  SectorsPerPage = 2
  MaxPages = 1
  Threshold = 1
SPECIFICATION DSpec
INVARIANTS
  Durable
