CONSTANTS
  Thread = {t1, t2, t3, f}
  Filler = {f}
  Connection = {c1, c2}
  NULL = NULL
  CallTimed = {TRUE, FALSE}
  MaxHeld = 1
  MaxSpurious = 1
SPECIFICATION FairSpec
INVARIANTS ExclusiveOwnership NoLostWakeup
PROPERTIES GetsProgress RefinesPool
