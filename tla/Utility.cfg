CONSTANTS
  Producers = {p1, p2}
  Consumers = {c1}
  Viewers = {v1}
  Nodes = {n1, n2, n3}
  Capacities = {1, 3}
  Rounds = 2
  Takes = 4
  Looks = 2
  None = None
  Delays = {0, 1, 3}
  MaxTimers = 4
  MaxTime = 3
  Idle = Idle
  Pids = {1, 2, 3, 4}
  Daemon = 1
  DEFAULT_WORKER_NUM = 2
SPECIFICATION Spec
INVARIANTS ElementsKept TimersInOrder WorkersRegistered FailsOnlyAfterFork ShutdownLeavesNone
PROPERTIES JoinsReturn TimersFire DeadIsReplaced
CHECK_DEADLOCK FALSE
