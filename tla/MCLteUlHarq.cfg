SPECIFICATION Spec
CONSTANTS
  Pdu <- PdusOfProcesses
  NoPdu = NoPdu
  NumProc = 8
  MaxHarqRtx = 1
  FbInterval = 3
  RaRespWinStart = 3
  MaxLoad = 1
CONSTRAINT TwoBusyProcesses
INVARIANTS NoRuntimeError ProcessesInStep GrantFindsItsProcess RetransmissionsAgree FreeMeansForgotten
PROPERTY SettledOnce
