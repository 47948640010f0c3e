CONSTANTS
  NoDoc = NoDoc
  None = None
  Docs <- MCDocs
  TEMP_CLEARED = 4
  HTTP_BODY_MAX = 80
  Cwd <- MCCwd
  Disks <- MCDisks
  Sizes = {5}
  Apps <- MCApps
  MAX_FILES = 4
  BIG = 4
  BUFFER = 2
  HEAD = 1
  Frames <- MCFrames
  MaxFrames = 2
  Splits = {4}
  DATA_SIZE = 8
  Requests <- MCRequests
  Templates <- MCTemplates
  Kv <- MCKv
  MaxEvents = 2
SPECIFICATION Spec
INVARIANTS ParsesOwnRequest AnswersOwnPath RendersTemplate
PROPERTIES StartupEnds RequestsServed
CHECK_DEADLOCK FALSE
