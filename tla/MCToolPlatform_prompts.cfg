SPECIFICATION Spec
CONSTANTS
  c1 = c1
  c2 = c2
  c3 = c3
  c4 = c4
  d1 = d1
  d2 = d2
  r1 = r1
  auto = auto
  exact = exact
  Calls = {c1, c2, c3}
  Devices = {d1}
  Runs = {r1}
  NoRun = NoRun
  NoDevice = NoDevice
  Tools = {exact}
  CallDevice <- MCCallDevice
  CallTool <- MCOneTool
  RunDevices <- MCRunDevices
  Granted <- MCGranted
  Approvers = {}
  ExactTools = {exact}
  ForbiddenTools = {}
  Ttl <- MCTtl
  RateMax <- MCRateMax
  Window = 1
  MaxProposals = 4
  MaxExecutions = 3
  MaxApprovals = 2
  MaxTime = 0
  MaxDeciding = 1
  StoreFails = TRUE
INVARIANTS
  PromptsWithinBudget
