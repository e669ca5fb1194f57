SPECIFICATION Spec
CONSTANTS
  TxWindowSize = 3
  RxWindowSize = 2
  MaxRtx = 0
  MrwId = {1}
  NumSdu = 2
  MaxPdus = 3
INVARIANT ReceivedIsBuffered
CHECK_DEADLOCK FALSE
