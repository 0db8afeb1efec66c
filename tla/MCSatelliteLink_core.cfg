SPECIFICATION Spec
CONSTANTS
  w1 = w1
  p1 = p1
  p2 = p2
  a = a
  b = b
  Commands = {w1, p1}
  Consequential = {w1}
  MaxInFlight = 1
  MaxRecords = 1
  MaxDeliveries <- MCDeliveries
  MaxCancels = 1
  MaxFaults = 1
  NoSocket = NoSocket
  Sockets = {a, b}
SYMMETRY SocketSymmetry
INVARIANTS
  VerdictIsTruthful
  OutcomeIsStable
  SessionServes
CHECK_DEADLOCK FALSE
