CONSTANTS
  Requests = {r1, r2}
  PoolSize = 1
  MaxConns = 5
  MaxOps = 2
SPECIFICATION Spec
INVARIANTS OneOwner Prepared KeptOnlyAfterFailure
