SPECIFICATION Spec
CONSTANTS
  GridClients = {}
  RayClients = {r1}
  Closers = {z}
  Deadlined = {}
  StartCtxEnds = FALSE
  MaxObjects = 2
  QueueCap = 1
  MaxGridCalls = 0
  MaxRayCalls = 1
  Steps = 2
  None = None
PROPERTY EveryCallReturns
CHECK_DEADLOCK FALSE
