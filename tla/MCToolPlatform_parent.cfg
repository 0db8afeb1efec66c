SPECIFICATION Spec
CONSTANTS
  c1 = c1
  c2 = c2
  c3 = c3
  c4 = c4
  d1 = d1
  d2 = d2
  r1 = r1
  auto = auto
  exact = exact
  Calls = {c1}
  Devices = {d1, d2}
  Runs = {r1}
  NoRun = NoRun
  NoDevice = NoDevice
  Tools = {exact}
  CallDevice <- MCCallDevice
  CallTool <- MCCallTool
  RunDevices <- MCRunDevices
  Granted <- MCGranted
  Approvers = {d2}
  ExactTools = {exact}
  ForbiddenTools = {}
  Ttl <- MCTtl
  RateMax <- MCRateMax
  Window = 1
  MaxProposals = 4
  MaxExecutions = 3
  MaxApprovals = 2
  MaxTime = 2
  MaxDeciding = 1
  StoreFails = TRUE
INVARIANTS
  ParentCancelledNeverStarted
