CONSTANTS
  Writers = {w1}
  LOG_BUFFER_SIZE = 1
  MaxRecords = 3
  OpenMayFail = FALSE
SPECIFICATION LogFairSpec
PROPERTY WriterGoesOn
CHECK_DEADLOCK FALSE
