SPECIFICATION FairAllSpec
CONSTANTS
  r1 = r1
  r2 = r2
  r3 = r3
  Requests = {r1, r2, r3}
  MaxDownloads = 2
  c1 = c1
  o1 = o1
  w1 = w1
  proxyP = proxyP
  proxyQ = proxyQ
  s1 = s1
  s2 = s2
  s3 = s3
  NoSocket = NoSocket
  NoRequest = NoRequest
  t1 = t1
  t2 = t2
  k1 = k1
  k2 = k2
  x1 = x1
  x2 = x2
  u1 = u1
  p1 = p1
  key = key
  NoKey = NoKey
  Nobody = Nobody
INVARIANTS DownloadsAccounted
PROPERTIES RequestsAnswered ResourcesReturned
CHECK_DEADLOCK FALSE
