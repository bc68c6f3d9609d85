CONSTANTS
  procnum = 2
  threadnum = 2
INIT MultiInit
NEXT MultiNext
INVARIANT RunningIsInPool
CHECK_DEADLOCK FALSE
