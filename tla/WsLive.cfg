SPECIFICATION FairSpec
CONSTANTS
  t1 = t1
  t2 = t2
  s1 = s1
  None = None
  Servers = {s1}
  Tasks = {t1, t2}
  Rows = {1, 2, 3}
  RowTask <- MCRowTask3
  RowServer <- MCRowServer3
  Sockets = {1}
  SocketServer <- MCSocketServer
  PollLimit = 2
  MaxWorkers = 1
  MaxCrashes = 0
  MaxCancels = 0
  MaxDbErrors = 0
PROPERTY LocalRowsAcked
PROPERTY OnlineServerExecutes
CHECK_DEADLOCK FALSE
