SPECIFICATION FairSpec
CONSTANTS
  Pdu = {p1, p2, p3}
  NoPdu = NoPdu
  NumProc = 2
  MaxHarqRtx = 2
  FbInterval = 3
INVARIANTS NoRuntimeError StopAndWait SettledOnce Inv
PROPERTIES EveryProcessIsFreedAgain ImplementsService
