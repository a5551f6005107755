SPECIFICATION FairLocalSpec
CONSTANTS
  t1 = t1
  t2 = t2
  None = None
  Servers = {}
  Tasks <- MCTasks
  Rows <- MCRows
  RowTask <- MCRowTask
  RowServer <- MCRowServer
  PollLimit = 2
  MaxWorkers = 2
  MaxCrashes = 1
  MaxCancels = 1
  MaxDbErrors = 0
INVARIANT InFlightExclusive
INVARIANT AckedIsTerminal
INVARIANT AckedIsAnswered
PROPERTY AckedStaysDone
PROPERTY ImplementsDelivery
PROPERTY EveryRowAcked
CHECK_DEADLOCK FALSE
