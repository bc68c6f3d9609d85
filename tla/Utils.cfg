CONSTANTS
  Getters = {g1, g2, g3}
  Putters = {p1, p2}
  MaxData = 3
  procnum = 2
  threadnum = 2
  cpunum = 2
  Pids = {1, 2, 3}
  Clients = {c1, c2}
  ChanCap = 2
  SocketCap = 1
  MaxPackets = 4
  Thread = {t1, t2}
  BLOCK_SIZE = 7
  LARGE_SIZE = 3
  Align = 4
  Sizes = {1, 3}
  MaxCalls = 4
SPECIFICATION Spec
INVARIANTS TypesOK EmptyReadOnlyIfOvertaken ElementsHaveTakers AllWaitedFor OneWorkerPerCpu InOrderPerClient WellPlaced
PROPERTIES MultiEnds DogRestarts ReadIsHandled SomeCallReturns
CHECK_DEADLOCK FALSE
