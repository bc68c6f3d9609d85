CONSTANTS
  b1 = b1
  b2 = b2
  b3 = b3
  Fd = {f1, f2}
  Listen = Listen
  Buffer = {b1, b2}
  NoBuf = NoBuf
  FirstPool <- Pool2
  MaxConn = 3
  MaxChunk = 2
  MaxIntr = 1
  MaxReq = 1
SPECIFICATION Spec
SYMMETRY Sym
INVARIANTS TypeOK MapMatchesSockets NoStaleEvent NoMissedEdge
CHECK_DEADLOCK FALSE
