SPECIFICATION Spec
CONSTANTS
  TxWindowSize = 4
  RxWindowSize = 8
  MaxRtx = 0
  MrwId = {1}
  NumSdu = 2
  MaxPdus = 4
INVARIANT OnlyCompleteSdusGoUp
CHECK_DEADLOCK FALSE
