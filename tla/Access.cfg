SPECIFICATION AllSpec
CONSTANTS
  t1 = t1
  t2 = t2
  c1 = c1
  c2 = c2
  c3 = c3
  Tabs = {t1, t2}
  Calls = {c1, c3}
  TabOf <- MCTabOf
  MaxSessions = 2
  MaxCreds = 3
  MaxLogouts = 1
  r1 = r1
  r2 = r2
  r3 = r3
  w1 = w1
  w2 = w2
  u1 = u1
  u2 = u2
  p1 = p1
  k1 = k1
  Requests = {r1, r2, r3}
  Sites = {w1, w2}
  Urls = {u1, u2}
  Pages = {p1}
  Keys = {k1}
  Ops = {"scan", "clone", "website", "archive", "capture"}
  MaxActive = 1
  NoKey = NoKey
  Nobody = Nobody
  cloneA = cloneA
  cloneB = cloneB
  Clones = {cloneA, cloneB}
  MaxGeneration = 6
  MaxSequence = 5
  MaxVersion = 3
INVARIANTS ExchangedOnce SessionsUsable AdmissionConsistent PanelConsistent
PROPERTIES NothingComesBack
CHECK_DEADLOCK FALSE
