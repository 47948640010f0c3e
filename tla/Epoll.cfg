CONSTANTS
  Clients = {k1, k2, k3}
  NumFds = 2
  NumAddrs = 2
  Routes = {"respond", "bigfile", "ws"}
  None = None
SPECIFICATION FairSpec
INVARIANTS ConnectionTable NoStaleEvent 
PROPERTY RequestsAnswered
CHECK_DEADLOCK FALSE
