CONSTANTS
  NumberOfBlocks = 3
  ReserveBlocks = 2
  PagesPerBlock = 2
  CacheSize = 0
  MappingPerPage = 1
  SectorsPerPage = 1
  MaxPages = 2
  Threshold = 1
SPECIFICATION DSpec
INVARIANTS
  MapCurrent
