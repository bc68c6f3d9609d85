CONSTANTS
  Thread = {t1, t2}
  BLOCK_SIZE = 7
  LARGE_SIZE = 3
  Align = 4
  Sizes = {1, 3}
  MaxCalls = 2
SPECIFICATION ArenaSpec
INVARIANT AssertionHolds
CHECK_DEADLOCK FALSE
