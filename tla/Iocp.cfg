CONSTANTS
  Clients = {k1, k2}
  Workers = {w1, w2}
  NumHandles = 2
  NumAddrs = 2
  MaxAborts = 1
  Limit = 1
  Window = 2
  MaxTime = 4
  Routes = {"respond", "bigfile", "ws"}
  None = None
SPECIFICATION FairSpec
INVARIANTS OneHandler OneCompletion RefusedOnlyTooOften
PROPERTY RequestsAnswered
CHECK_DEADLOCK FALSE
