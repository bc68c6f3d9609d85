CONSTANTS
  Value = {1, 2, 3, 4, 5, 6}
  Searched = {3}
  NULL = NULL
  Garbage = {0}
SPECIFICATION FairSpec
INVARIANTS SearchFindsInserted WellFormed MissOnlyIfRotated
PROPERTIES CallsEnd
CHECK_DEADLOCK FALSE
