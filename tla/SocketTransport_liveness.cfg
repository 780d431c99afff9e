SPECIFICATION FairSpec
CONSTANTS
  Calls = {k1, k2}
  Conns = {c1}
  QueueCap = 1
  MaxBatch = 1
  IndexLimit = 2
  MaxAborts = 1
  None = None
CHECK_DEADLOCK FALSE
PROPERTIES ClaimedCallReturns ClosingFailsCalls GoroutinesExit
