CONSTANTS
  Lpns = {1, 2}
  AccessSequenceLength = 6
  MinSupport = 2
  SimpleSplit = 4
  CMinerSplit = 4
  CMinerDepth = 4
  LshSplit = 3
  LshDepth = 3
  MaxReads = 12
SPECIFICATION Spec
INVARIANTS
  TypeOK
  AccessesInOrder
PROPERTIES
  MinedAsCounted
  SequencesMined
CHECK_DEADLOCK FALSE
