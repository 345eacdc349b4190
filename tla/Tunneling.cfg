CONSTANTS
  Clients = {c1}
  Servers = {s1}
  ClientEndpoints = {1, 2}
  ServerEndpoints = {1}
  ServerLimit = 2
  ClientLimit = 3
  MaxRequests = 3
  MaxSends = 2
  MaxLosses = 1
  MaxIdle = 1
SPECIFICATION FairSpec
INVARIANTS ServerTunnelsKnown
PROPERTIES OwnDataTaken InactiveClosedHere
CHECK_DEADLOCK FALSE
