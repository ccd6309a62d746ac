SPECIFICATION Spec
CONSTANTS
  h1 = h1
  h2 = h2
  h3 = h3
  Keys <- NetworkKeys
  Objects <- NetworkObjects
  None = None
  CacheBytes = 0
  DefaultCacheBytes = 4
  Calls = {c1, c2}
  Kinds <- AllKinds
  Paths <- OneHopPath
  Receivers = {head, omni}
  Heads = {head}
  Exclusive = FALSE
  OwnReceiver = TRUE
  EarlyBytes = 1
  HistogramBytes = 1
INVARIANT ServedComplete
CHECK_DEADLOCK FALSE
