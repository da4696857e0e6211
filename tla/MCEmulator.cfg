CONSTANTS
  NumberOfBlocks = 14
  ReserveBlocks = 8
  PagesPerBlock = 2
  CacheSize = 0
  MappingPerPage = 1
  SectorsPerPage = 1
  MaxPages = 1
  Threshold = 2
  MaxRequests = 3
SPECIFICATION MCSpec
INVARIANTS
  MapCurrent
PROPERTIES
  RequestsAnswered
  CollectionSettles
  ImplementsDevice
