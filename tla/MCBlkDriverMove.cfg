CONSTANTS
  NrPages = 3
  NrLpns = 2
  NrSectors = 1
  MaxPages = 1
  Parts = {{0}}
SPECIFICATION MoveSpec
INVARIANTS
  BufferMatchesDisk
