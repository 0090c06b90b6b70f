SPECIFICATION FairSpec
CONSTANTS
  TxLen = 2
  RxLen = 3
  Cap = 5
CHECK_DEADLOCK FALSE

INVARIANTS
  PipeNotBroken

PROPERTIES
  StopsComplete
