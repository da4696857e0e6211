CONSTANTS
  CtrlDelay = 1
  DataDelay = 2
  PageReadDelay = 1
  MaxTime = 7
  MaxEvents = 3
SPECIFICATION Spec
INVARIANTS
  TypeOK
  TableExclusive
  FirstFit
  ExclusiveUnlessLate
CHECK_DEADLOCK FALSE
