CONSTANTS
  NumberOfBlocks = 3
  ReserveBlocks = 2
  PagesPerBlock = 3
  CacheSize = 1
  MappingPerPage = 3
SPECIFICATION MCSpec
INVARIANTS
  TypeOK
  Partition
  PageAccounting
  MappingConsistent
  MappingInjective
  CacheConsistent
  HeadsExist
  FreeSpace
PROPERTIES
  EraseOnlyDead
  CollectionKeepsData
  OperationsEnd
