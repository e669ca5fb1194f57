SPECIFICATION Spec
CONSTANTS
  TxWindowSize = 2
  RxWindowSize = 3
  MaxRtx = 1
  MrwId = {1, 2}
  NumSdu = 2
  MaxPdus = 3
CONSTRAINT FewUnderway
INVARIANTS NeverThrows PdusKeepTheirSlot WindowsOverlap NothingSkipped StatusIsTrue WholeSdusGoUp Inv
PROPERTY ImplementsService
CHECK_DEADLOCK FALSE
