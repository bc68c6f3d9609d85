CONSTANTS
  b1 = b1
  b2 = b2
  b3 = b3
  Fd = {f1, f2}
  Listen = Listen
  Buffer = {b1, b2}
  NoBuf = NoBuf
  FirstPool <- Pool2
  MaxConn = 2
  MaxChunk = 2
  MaxIntr = 0
  MaxReq = 1
SPECIFICATION FairSpec
PROPERTIES InputRead OutputSent
CHECK_DEADLOCK FALSE
