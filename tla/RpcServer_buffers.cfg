CONSTANTS
  b1 = b1
  b2 = b2
  b3 = b3
  Fd = {f1, f2}
  Listen = Listen
  Buffer = {b1, b2, b3}
  NoBuf = NoBuf
  FirstPool <- Pool3
  MaxConn = 2
  MaxChunk = 2
  MaxIntr = 0
  MaxReq = 2
SPECIFICATION Spec
SYMMETRY Sym
INVARIANTS ExclusiveUnlessSplit WholeUnlessLost
CHECK_DEADLOCK FALSE
