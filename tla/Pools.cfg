CONSTANTS
  Threads = {t1, t2, t3}
  min_connections = 2
  Callers <- AllCallers
  SpuriousWakeups = TRUE
  NULL = NULL
  Clients = {c1, c2, c3, c4, c5}
  block_size = 3
  total_size = 7
SPECIFICATION PoolsSpec
INVARIANTS OneOwner NoUseAfterDestroy CountersAgree NoLostWakeup BlockNotForgotten
PROPERTIES IdleConnectionFound ImplementsResourcePool
CHECK_DEADLOCK FALSE
