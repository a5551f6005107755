SPECIFICATION Spec
CONSTANTS
  t1 = t1
  t2 = t2
  s1 = s1
  None = None
  Servers = {s1}
  Tasks = {t1}
  Rows = {1, 2}
  RowTask <- MCRowTaskD
  RowServer <- MCRowServerD
  Sockets = {1, 2, 3}
  SocketServer <- MCSocketServer
  PollLimit = 2
  MaxWorkers = 1
  MaxCrashes = 1
  MaxCancels = 1
  MaxDbErrors = 1
INVARIANT TypeOK
INVARIANT SafeUntilError
INVARIANT NoInFlightLeak
INVARIANT FutureOwned
INVARIANT ServedIsReachable
PROPERTY DeliveryUntilError
CHECK_DEADLOCK FALSE
