CONSTANTS
  Clients = {k1, k2}
  Workers = {w1, w2}
  NumHandles = 2
  NumAddrs = 2
  MaxAborts = 0
  Limit = 1
  Window = 2
  MaxTime = 2
  Routes = {"respond"}
  None = None
SPECIFICATION Spec
PROPERTY ClosesThisConnection
CHECK_DEADLOCK FALSE
