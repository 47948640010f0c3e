CONSTANTS
  Views = {v1}
  Workers = {w1, w2}
  Keys = {a, b}
  Writers <- MCWriters
  Empty = Empty
  Torn = Torn
  Clients = {k1, k2}
  Addrs = {m1}
  MaxMsgs = 2
  None = None
SPECIFICATION Spec
SYMMETRY Symmetry
INVARIANTS FoundPair OneReceiver ServedAfterLogin
CHECK_DEADLOCK FALSE
