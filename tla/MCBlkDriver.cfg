CONSTANTS
  NrPages = 2
  NrLpns = 2
  NrSectors = 2
  MaxPages = 2
  Parts = {{0}}
SPECIFICATION Spec
INVARIANTS
  TypeOK
  MapGiven
  InStep
  ReadsLastWrite
  WedgedOnlyByCrash
  BufferMatchesDisk
PROPERTIES
  RequestsEnd
