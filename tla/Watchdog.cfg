SPECIFICATION FairWDSpec
CONSTANTS
  t1 = t1
  t2 = t2
  None = None
  Servers = {}
  Tasks <- MCOneTask
  Rows <- MCRows
  RowTask <- MCRowTask1
  RowServer <- MCRowServer
  PollLimit = 2
  MaxWorkers = 2
  MaxCrashes = 1
  MaxCancels = 1
  MaxDbErrors = 1
  MaxScans = 2
PROPERTY RowsAckedAnyway
CHECK_DEADLOCK FALSE
