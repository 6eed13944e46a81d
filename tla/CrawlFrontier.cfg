SPECIFICATION Spec
CONSTANTS
  e1 = e1
  e2 = e2
  p1 = p1
  p2 = p2
  p3 = p3
  p4 = p4
  h1 = h1
  Executions <- OneExecution
  Pages <- FourPages
  Hosts <- OneHost
  ExecOf <- OneExecOf
  SeedOf <- OneSeedOf
  HostOf <- SameHost
  MaxPages = 3
  MaxDepth = 1
  MaxConcurrency = 2
  MaxAttempts = 2
  HostConcurrency = 2
  NoLease = NoLease
INVARIANTS CountersAgree EndsWhenDone OutboxMatchesPages
PROPERTIES OutcomesStay RefinesLifecycle
SYMMETRY Alike
