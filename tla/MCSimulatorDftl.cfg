CONSTANTS
  Layers = {"DFTL"}
  BlockSize = 2
  LogicalBlocks = 2
  NumberOfBlocks = 3
  FirstFree = {0}
  FastBlocks = 8
  FastFirst = {0}
  DftlLogicalBlocks = 1
  BastLimit = 1
  FastLimit = 2
  CmtLimit = 2
  FastRequests = 11
  FastTrimRequests = 6
  DftlRequests = 9
  BdftlRequests = 5
  BlockErases = 2
  BastErases = 1
  Ulong = 16
SPECIFICATION Spec
INVARIANT
  DftlReadsNewest
CHECK_DEADLOCK FALSE
