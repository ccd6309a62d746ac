SPECIFICATION Spec
CONSTANTS
  GridClients = {g1}
  RayClients = {r1}
  Closers = {z}
  Deadlined = {g1}
  StartCtxEnds = TRUE
  MaxObjects = 2
  QueueCap = 1
  MaxGridCalls = 3
  MaxRayCalls = 2
  Steps = 2
  None = None
INVARIANTS AnswersMatch FieldsInStep HandlesOwned NoDanglingRequest
PROPERTIES CallsReturnWhileOpen CloseReturns
CHECK_DEADLOCK FALSE
