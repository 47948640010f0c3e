CONSTANTS
  Threads = {t1, t2, t3}
  min_connections = 2
  Callers <- AllCallers
  SpuriousWakeups = FALSE
  NULL = NULL
SPECIFICATION Spec
INVARIANT BlocksUntilConnection
CHECK_DEADLOCK FALSE
