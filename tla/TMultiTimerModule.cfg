SPECIFICATION FairSpec
CONSTANTS
  Event = {e1, e2, e3, e4}
  MaxTime = 3
INVARIANT Inv
PROPERTIES EveryEventEnds ImplementsService
