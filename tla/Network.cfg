SPECIFICATION Spec
CONSTANTS
  h1 = h1
  h2 = h2
  h3 = h3
  Keys <- NetworkKeys
  Objects <- NetworkObjects
  None = None
  CacheBytes = 0
  DefaultCacheBytes = 4
  Calls = {c1, c2}
  Kinds <- AllKinds
  Paths <- SharedHopPaths
  Receivers = {head, omni}
  Heads = {head}
  Exclusive = TRUE
  OwnReceiver = TRUE
  EarlyBytes = 2
  HistogramBytes = 3
INVARIANTS ServedComplete ServedForOwnReceiver SimulatedOnce CacheSound
PROPERTY RenderEnds
CHECK_DEADLOCK FALSE
