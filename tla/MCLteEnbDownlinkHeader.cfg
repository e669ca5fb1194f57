SPECIFICATION Spec
CONSTANTS
  c1 = c1
  c2 = c2
  c3 = c3
  u1 = u1
  u2 = u2
  NoCid = NoCid
  Cid = {c1, c2, c3}
  Ue = {u1, u2}
  Owner <- MCOwner
  Tbs <- MCTbs
  NumBands = 3
  NumRb = 6
  SduSize = {2, 5}
  QueueSize = 5
  MacHeader = 2
  RtxBlocks <- MCRtxBlocks
INVARIANT HeaderIsCounted
