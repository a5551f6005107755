SPECIFICATION FairSpec
CONSTANTS
  t1 = t1
  t2 = t2
  s1 = s1
  None = None
  Servers = {s1}
  Tasks = {t1}
  Rows = {1}
  RowTask <- MCRowTask1
  RowServer <- MCRowServer1
  Sockets = {1, 2}
  SocketServer <- MCSocketServer
  PollLimit = 1
  MaxWorkers = 1
  MaxCrashes = 0
  MaxCancels = 0
  MaxDbErrors = 0
PROPERTY AwaitedComesBack
CHECK_DEADLOCK FALSE
