CONSTANTS
  Value = {1, 2, 3}
  Searched = {}
  NULL = NULL
  Garbage = {0}
SPECIFICATION Spec
INVARIANT BlackBalanced
CHECK_DEADLOCK FALSE
