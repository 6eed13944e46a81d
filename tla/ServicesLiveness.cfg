SPECIFICATION AllFairSpec
CONSTANTS
  r1 = r1
  r2 = r2
  bad = bad
  w1 = w1
  w2 = w2
  e1 = e1
  h1 = h1
  p1 = p1
  p2 = p2
  p3 = p3
  s1 = s1
  c1 = c1
  Rows = {r1, bad}
  Unreadable = {bad}
  Workers = {w1}
  BatchSize = 2
  NoOwner = NoOwner
  NoLease = NoLease
  Executions = {e1}
  ExecOf <- CrawlExecOf
  Pages = {p1, p2}
  MaxConcurrency = 2
  CrawlAttempts = 2
  Scans = {s1}
  MaxPages = 1
  MaxEvents = 2
  Captures = {c1}
  MaxAttempts = 2
  MaxSiteEvents = 3
PROPERTIES EventuallyDelivered CrawlsEnd CrawlsFinish ProjectionsEnd
CHECK_DEADLOCK FALSE
