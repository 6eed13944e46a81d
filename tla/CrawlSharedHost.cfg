SPECIFICATION Spec
CONSTANTS
  e1 = e1
  e2 = e2
  p1 = p1
  p2 = p2
  p3 = p3
  p4 = p4
  h1 = h1
  Executions <- TwoExecutions
  Pages <- ThreePages
  Hosts <- OneHost
  ExecOf <- TwoExecOf
  SeedOf <- TwoSeedOf
  HostOf <- SameHost
  MaxPages = 2
  MaxDepth = 1
  MaxConcurrency = 1
  MaxAttempts = 2
  HostConcurrency = 1
  NoLease = NoLease
INVARIANTS SlotsMatchLeases
PROPERTIES PagesFinishOnce
