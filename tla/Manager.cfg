SPECIFICATION FairSpec
CONSTANTS
  c1 = c1
  c2 = c2
  c3 = c3
  p = p
  q = q
  b = b
  Conn = {c1, c2, c3}
  Peer = {p, q}
  Caller = {b}
  Programs <- MCPrograms
  Room = 1
  MaxTime = 2
  None = None
INVARIANT ListConsistent
INVARIANT EventProtocol
INVARIANT StreamsIntact
INVARIANT ClosedComplete
INVARIANT BreaksOnDatagrams
PROPERTY FlaggedIsClosed
PROPERTY WaitersServed
CHECK_DEADLOCK FALSE
