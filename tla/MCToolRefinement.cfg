SPECIFICATION Spec
CONSTANTS
  c1 = c1
  c2 = c2
  c3 = c3
  c4 = c4
  d1 = d1
  exact = exact
  auto = auto
  Calls = {c1, c2, c3, c4}
  Devices = {d1}
  Runs = {r1}
  NoRun = NoRun
  NoDevice = NoDevice
  Tools = {exact, auto}
  CallDevice <- MCCallDevice
  CallTool <- MCCallTool
  RunDevices <- MCRunDevices
  Granted <- MCGranted
  Approvers = {d1}
  ExactTools = {exact}
  ForbiddenTools = {}
  Ttl <- MCTtl
  RateMax <- MCRateMax
  Window = 1
  MaxProposals = 3
  MaxExecutions = 1
  MaxApprovals = 1
  MaxTime = 2
  MaxDeciding = 1
  StoreFails = TRUE
INVARIANTS
  RequestsWithinBudget
PROPERTIES
  ImplementsAuthority
ACTION_CONSTRAINT GoesOn
