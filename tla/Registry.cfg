SPECIFICATION FairSpec
CONSTANTS
  exec = exec
  Servers = {exec}
  Sockets = {1, 2, 3}
  SocketServer <- MCSocketServer
  Threshold = 3
  MaxFaults = 2
INVARIANT TypeOK
INVARIANT HeardIsOnline
PROPERTY GoneIsShownOffline
CHECK_DEADLOCK FALSE
