SPECIFICATION FairSpec
CONSTANTS
  Pdu <- PdusOfProcesses
  NoPdu = NoPdu
  NumProc = 4
  MaxHarqRtx = 1
  FbInterval = 1
  RaRespWinStart = 1
  MaxLoad = 1
CONSTRAINT OneBusyProcess
INVARIANT Inv
PROPERTIES EveryProcessIsFreedAgain BacklogIsServed
