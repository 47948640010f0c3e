CONSTANTS
  thread_count = 3
  Tasks = {x1, x2, x3}
  CreateMayFail = TRUE
  SpuriousWakeups = TRUE
  NULL = NULL
  Writers = {w1, w2, w3}
  LOG_BUFFER_SIZE = 3
  MaxRecords = 6
  OpenMayFail = TRUE
SPECIFICATION ThreadsSpec
INVARIANTS FirstInFirstOut FreedAfterExit LinesInOrder LoggerIsWoken
PROPERTIES TasksAreTaken DestroyReturns
CHECK_DEADLOCK FALSE
