SPECIFICATION FairSpec
CONSTANTS
  q1 = q1
  q2 = q2
  q3 = q3
  s1 = s1
  s2 = s2
  d1 = d1
  c1 = c1
  c2 = c2
  k1 = k1
  k2 = k2
  b1 = b1
  b2 = b2
  Requests = {q1, q2}
  NoRequest = NoRequest
  Sessions = {s1, s2}
  Conversation <- MCTwoConversations
  Owner <- MCOwner
  Keys = {k1, k2}
  Bodies = {b1}
  Workers = 1
  MaxStarts = 1
  StoreFails = FALSE
PROPERTIES
  RunSettles
CHECK_DEADLOCK FALSE
