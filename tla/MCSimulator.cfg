CONSTANTS
  Layers = {"PAGE", "BAST", "FAST", "DFTL", "BDFTL"}
  BlockSize = 2
  LogicalBlocks = 2
  NumberOfBlocks = 4
  FirstFree = {0, 1}
  FastBlocks = 8
  FastFirst = {0}
  DftlLogicalBlocks = 1
  BastLimit = 1
  FastLimit = 2
  CmtLimit = 1
  FastRequests = 11
  FastTrimRequests = 6
  DftlRequests = 10
  BdftlRequests = 5
  BlockErases = 2
  BastErases = 1
  Ulong = 16
SPECIFICATION Spec
INVARIANTS
  TypeOK
  ReadsNewest
  BlocksOwned
  CountersAgree
  AssertionsHold
  MapsAgree
  DataPagesNewest
CHECK_DEADLOCK FALSE
