SPECIFICATION FairSpec
CONSTANTS
  TxWindowSize = 1
  RxWindowSize = 2
  MaxRtx = 0
  MrwId = {1, 2}
  NumSdu = 2
  MaxPdus = 2
PROPERTY EveryPduLeavesTheWindow
CHECK_DEADLOCK FALSE
