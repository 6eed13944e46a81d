SPECIFICATION SceneSpec
CONSTANTS
  None = None
  p1 = p1
  p2 = p2
  shard = shard
  manifest = manifest
  i1 = i1
  r1 = r1
  r2 = r2
  a1 = a1
  a2 = a2
  c1 = c1
  c2 = c2
  k1 = k1
  Pages = {p1, p2}
  Ingesters = {i1}
  Renderers = {r1, r2}
  Assemblers = {a1, a2}
  Reconcilers = {c1, c2}
  Collectors = {k1}
  Mortal = {r1, r2}
  Parts = {shard, manifest}
  PageConcurrency = 1
  MaxRetries = 2
  MaxPhase = 2
  MaxStaged = 2
  HasDeadline = TRUE
  MayCancel = TRUE
  Scenes = {"rendering", "archive"}
INVARIANTS FrontierConsistent StoredIsKept
PROPERTIES RefinesLifecycle
SYMMETRY Alike
CHECK_DEADLOCK FALSE
