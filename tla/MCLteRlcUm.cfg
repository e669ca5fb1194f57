SPECIFICATION FairSpec
CONSTANTS
  s1 = s1
  s2 = s2
  s3 = s3
  Sdu <- MCSdu
  SduSize <- MCSduSize
  FragmentSize = 2
  Timeout = 2
INVARIANTS NoRuntimeError WholeOnly SizeRestored Inv
PROPERTIES EveryWindowCloses ImplementsReassembly
