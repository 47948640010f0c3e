CONSTANTS
  Threads = {t1, t2, t3}
  Keys = {a}
  HASH_DEC_LEN = 1
  SESSION_EXPIRE_DEFAULT = 0
  SECONDS = 1
  MaxTime = 1
  MaxCalls = 4
  None = None
SPECIFICATION Spec
INVARIANTS GotIsCurrent
SYMMETRY Symmetry
PROPERTY ImplementsSessionStore
CHECK_DEADLOCK FALSE
