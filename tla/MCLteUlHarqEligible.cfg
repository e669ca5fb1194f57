SPECIFICATION Spec
CONSTANTS
  Pdu <- PdusOfProcesses
  NoPdu = NoPdu
  NumProc = 8
  MaxHarqRtx = 3
  FbInterval = 3
  RaRespWinStart = 3
  MaxLoad = 1
CONSTRAINT TwoBusyProcesses
INVARIANT NewDataFindsFreeProcess
