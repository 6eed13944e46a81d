SPECIFICATION SceneFairSpec
CONSTANTS
  None = None
  c1 = c1
  w1 = w1
  w2 = w2
  k1 = k1
  d1 = d1
  d2 = d2
  Captures = {c1}
  Workers = {w1, w2}
  Collectors = {k1}
  Deliverers = {d1, d2}
  MaxAttempts = 2
  Scenes = {"attempts", "collection"}
PROPERTIES CapturesEnd
CHECK_DEADLOCK FALSE
