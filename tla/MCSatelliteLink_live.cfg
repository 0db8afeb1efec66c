SPECIFICATION FairSpec
CONSTANTS
  w1 = w1
  p1 = p1
  p2 = p2
  a = a
  b = b
  Commands = {w1}
  Consequential = {w1}
  MaxInFlight = 2
  MaxRecords = 1
  MaxDeliveries <- MCDeliveries
  MaxCancels = 1
  MaxFaults = 2
  NoSocket = NoSocket
  Sockets = {a, b}
INVARIANTS
  ConsequentialRunsOnce
PROPERTIES
  LinkRecovers
CHECK_DEADLOCK FALSE
