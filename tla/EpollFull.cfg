CONSTANTS
  Clients = {k1, k2}
  NumFds = 1
  NumAddrs = 3
  Routes = {"respond", "bigfile", "ws"}
  None = None
SPECIFICATION Spec
INVARIANT NoOtherLeak
CHECK_DEADLOCK FALSE
