SPECIFICATION AllSpec
CONSTANTS
  r1 = r1
  r2 = r2
  bad = bad
  w1 = w1
  w2 = w2
  e1 = e1
  h1 = h1
  p1 = p1
  p2 = p2
  p3 = p3
  s1 = s1
  c1 = c1
  Rows = {r1, r2, bad}
  Unreadable = {bad}
  Workers = {w1, w2}
  BatchSize = 2
  NoOwner = NoOwner
  NoLease = NoLease
  Executions = {e1}
  ExecOf <- CrawlExecOf
  Pages = {p1, p2, p3}
  MaxConcurrency = 1
  CrawlAttempts = 1
  Scans = {s1}
  MaxPages = 2
  MaxEvents = 2
  Captures = {c1}
  MaxAttempts = 3
  MaxSiteEvents = 5
INVARIANTS DeliveredIsComplete ConcurrencyBounded EventsApplied ScanAgrees WorkersAgree
PROPERTIES OwnerAcknowledges ProjectionsMoveForward
SYMMETRY Alike
CHECK_DEADLOCK FALSE
